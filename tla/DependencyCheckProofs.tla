----------------------- MODULE DependencyCheckProofs -----------------------
(***************************************************************************)
(* The checks of StartAll give the right verdict, and report a genuine     *)
(* chain of dependencies, and come to an end, on every graph of any size.  *)
(***************************************************************************)
EXTENDS DependencyCheck, SequenceTheorems, FiniteSetTheorems,
        WellFoundedInduction, TLAPS

-----------------------------------------------------------------------------
(* Circular, as a set of services *)

LEMMA CircularIsInside ==
  ASSUME NEW S, NEW D
  PROVE  Circular(S, D) \subseteq S
BY DEF Circular

(* Whoever is circular depends on somebody who is. *)
LEMMA CircularGoesOn ==
  ASSUME NEW S, NEW D, NEW s \in Circular(S, D)
  PROVE  \E d \in D[s] : d \in Circular(S, D)
<1>1. PICK C \in SUBSET S : IsKnot(C, D) /\ s \in C  BY DEF Circular
<1>2. PICK d \in D[s] : d \in C  BY <1>1 DEF IsKnot
<1>3. d \in Circular(S, D)  BY <1>1, <1>2 DEF Circular
<1>4. QED  BY <1>2, <1>3

LEMMA KnotIsCircular ==
  ASSUME NEW S, NEW D, NEW C \in SUBSET S, IsKnot(C, D), C # {}
  PROVE  Circular(S, D) # {}
BY DEF Circular

-----------------------------------------------------------------------------
(* The path as a sequence *)

LEMMA PushPath ==
  ASSUME NEW p \in Seq(Names), NEW d \in Names
  PROVE  /\ Append(p, d) \in Seq(Names)
         /\ Append(p, d) # <<>>
         /\ Len(Append(p, d)) = Len(p) + 1
         /\ \A i \in 1..Len(p) : Append(p, d)[i] = p[i]
         /\ Append(p, d)[Len(p) + 1] = d
OBVIOUS

LEMMA PopPath ==
  ASSUME NEW p \in Seq(Names), p # <<>>
  PROVE  /\ SubSeq(p, 1, Len(p) - 1) \in Seq(Names)
         /\ Len(SubSeq(p, 1, Len(p) - 1)) = Len(p) - 1
         /\ \A i \in 1..(Len(p) - 1) : SubSeq(p, 1, Len(p) - 1)[i] = p[i]
<1>1. Len(p) \in Nat \ {0}  BY EmptySeq
<1>2. \A i \in 1..(Len(p) - 1) : p[i] \in Names  BY <1>1, ElementOfSeq
<1> DEFINE n == Len(p) - 1
<1>3. n \in Int /\ \A i \in 1..n : p[i] \in Names  BY <1>1, <1>2
<1>4. /\ SubSeq(p, 1, n) \in Seq(Names)
      /\ Len(SubSeq(p, 1, n)) = IF 1 <= n THEN n - 1 + 1 ELSE 0
      /\ \A i \in 1..(n - 1 + 1) : SubSeq(p, 1, n)[i] = p[1 + i - 1]
  <2> HIDE DEF n
  <2>1. QED  BY <1>3, SubSeqProperties
<1> DEFINE q == SubSeq(p, 1, n)
<1>5. \A i \in 1..n : q[i] = p[i]
  <2>1. TAKE i \in 1..n
  <2>2. i \in 1..(n - 1 + 1) /\ 1 + i - 1 = i  BY <1>1
  <2>3. n \in Int  BY <1>1
  <2> HIDE DEF q, n
  <2>4. \A k \in 1..(n - 1 + 1) : q[k] = p[1 + k - 1]  BY <1>4, Zenon DEF q
  <2>5. q[i] = p[1 + i - 1]  BY <2>2, <2>4, Zenon
  <2>6. QED  BY <2>2, <2>5, Zenon
<1>6. (IF 1 <= n THEN n - 1 + 1 ELSE 0) = n
  <2>1. n \in Nat  BY <1>1
  <2> HIDE DEF n
  <2>2. CASE 1 <= n  BY <2>1, <2>2
  <2>3. CASE ~(1 <= n)  BY <2>1, <2>3
  <2>4. QED  BY <2>2, <2>3
<1>7. QED  BY <1>4, <1>5, <1>6

LEMMA PathFacts ==
  ASSUME NEW p \in Seq(Names)
  PROVE  /\ Len(p) \in Nat
         /\ p # <<>> <=> Len(p) > 0
         /\ \A i \in 1..Len(p) : p[i] \in Names
OBVIOUS

-----------------------------------------------------------------------------
(* The initial states *)

LEMMA InitInductive == CheckInit => CheckInductive
<1> SUFFICES ASSUME CheckInit PROVE CheckInductive  OBVIOUS
<1>1. CheckTypeOK
  <2>1. unchecked \in SUBSET (Names \X Names)  BY DEF CheckInit
  <2>2. QED  BY <2>1, EmptySeq DEF CheckInit, CheckTypeOK, Stages
<1>2. MissingSoFar
  <2>1. Missing(services, deps) = {m \in unchecked : m[2] \notin services}
    BY DEF CheckInit, Missing
  <2>2. QED  BY <2>1 DEF CheckInit, MissingSoFar
<1>3. Len(path) = 0  BY EmptySeq DEF CheckInit
<1>4. WalkIsSafe /\ PathFollows  BY <1>3 DEF WalkIsSafe, PathFollows
<1>5. ExploredIsAcyclic /\ Verdicts /\ ChainIsGenuine
  BY DEF CheckInit, ExploredIsAcyclic, Verdicts, ChainIsGenuine
<1>6. QED  BY <1>1, <1>2, <1>4, <1>5 DEF CheckInductive

-----------------------------------------------------------------------------
(* hasMissingDeps *)

LEMMA LookUpInductive ==
  ASSUME CheckInductive, NEW s \in Names, NEW d \in Names, LookUp(s, d)
  PROVE  CheckInductive'
<1> USE DEF CheckInductive, graphVars, walkVars
<1>1. CheckTypeOK'  BY DEF LookUp, CheckTypeOK, Stages
<1>2. MissingSoFar'
  <2>1. CASE d \in services
    BY <2>1 DEF LookUp, MissingSoFar
  <2>2. CASE d \notin services
    BY <2>2 DEF LookUp, MissingSoFar
  <2>3. QED  BY <2>1, <2>2
<1>3. WalkIsSafe' /\ PathFollows'  BY DEF LookUp, WalkIsSafe, PathFollows
<1>4. ExploredIsAcyclic' /\ Verdicts' /\ ChainIsGenuine'
  BY DEF LookUp, ExploredIsAcyclic, Verdicts, ChainIsGenuine
<1>5. QED  BY <1>1, <1>2, <1>3, <1>4

LEMMA EndMissingInductive ==
  ASSUME CheckInductive, EndMissing
  PROVE  CheckInductive'
<1> USE DEF CheckInductive, graphVars, walkVars, missVars
<1>1. CheckTypeOK' /\ MissingSoFar'
  BY DEF EndMissing, CheckTypeOK, Stages, MissingSoFar
<1>2. WalkIsSafe' /\ PathFollows'  BY DEF EndMissing, WalkIsSafe, PathFollows
<1>3. ExploredIsAcyclic' /\ Verdicts' /\ ChainIsGenuine'
  BY DEF EndMissing, ExploredIsAcyclic, Verdicts, ChainIsGenuine
<1>4. QED  BY <1>1, <1>2, <1>3

-----------------------------------------------------------------------------
(* hasCircularDeps *)

(* Once it runs, all dependencies are registered. *)
LEMMA NothingMissing ==
  ASSUME CheckInductive, stage = "circular"
  PROVE  \A s \in services : deps[s] \subseteq services
<1>1. Missing(services, deps) = {}  BY DEF CheckInductive, MissingSoFar
<1>2. SUFFICES ASSUME NEW s \in services, NEW d \in deps[s], d \notin services
               PROVE  FALSE
  OBVIOUS
<1>3. <<s, d>> \in Missing(services, deps)
  <2>1. <<s, d>> \in {s} \X (deps[s] \ services)  BY <1>2
  <2>2. QED  BY <2>1 DEF Missing
<1>4. QED  BY <1>1, <1>3

LEMMA EnterRootInductive ==
  ASSUME CheckInductive, NEW s \in Names, EnterRoot(s)
  PROVE  CheckInductive'
<1> USE DEF CheckInductive, graphVars, missVars
<1>1. path' = <<s>> /\ Len(path') = 1 /\ path'[1] = s  BY DEF EnterRoot
<1>2. s \in services /\ deps[s] \subseteq services
  BY NothingMissing DEF EnterRoot, ExploredIsAcyclic
<1>3. todo'[s] = deps[s]  BY DEF EnterRoot, CheckTypeOK
<1>4. CheckTypeOK'
  <2>1. path' \in Seq(Names)  BY <1>1
  <2>2. QED  BY <2>1 DEF EnterRoot, CheckTypeOK
<1>5. MissingSoFar'  BY DEF EnterRoot, MissingSoFar
<1>6. WalkIsSafe' /\ PathFollows'
  BY <1>1, <1>2, <1>3 DEF EnterRoot, WalkIsSafe, PathFollows
<1>7. ExploredIsAcyclic'
  <2>1. roots' \subseteq services'  BY DEF EnterRoot, ExploredIsAcyclic
  <2>2. \A t \in services \ roots' : t \in Circular(services, deps) => t = s
    BY DEF EnterRoot, ExploredIsAcyclic
  <2>3. path' # <<>>  BY <1>1
  <2>4. QED  BY <1>1, <1>3, <2>1, <2>2, <2>3 DEF EnterRoot, ExploredIsAcyclic
<1>8. Verdicts' /\ ChainIsGenuine'
  BY DEF EnterRoot, Verdicts, ChainIsGenuine
<1>9. QED  BY <1>4, <1>5, <1>6, <1>7, <1>8

LEMMA DescendInductive ==
  ASSUME CheckInductive, NEW d \in Names, Descend(d)
  PROVE  CheckInductive'
<1> USE DEF graphVars, missVars
<1> DEFINE n == Len(path)
<1>1. n \in Nat /\ n > 0 /\ path \in Seq(Names) /\ todo \in [Names -> SUBSET Names]
  BY PathFacts DEF Descend, CheckInductive, CheckTypeOK
<1>2. d \in services /\ deps[d] \subseteq services /\ d \in deps[path[n]]
  BY <1>1, NothingMissing DEF Descend, Top, CheckInductive, WalkIsSafe, PathFollows
<1>3. /\ path' \in Seq(Names) /\ path' # <<>> /\ Len(path') = n + 1
      /\ \A i \in 1..n : path'[i] = path[i]
      /\ path'[n + 1] = d
  BY <1>1, PushPath DEF Descend
<1>4. \A i \in 1..n : path[i] \in Names /\ path[i] # d
  BY <1>1, PathFacts DEF Descend, OnPath
<1>5. /\ \A i \in 1..n : path[i] \in services /\ todo[path[i]] \subseteq services
      /\ \A i, j \in 1..n : path[i] = path[j] => i = j
  BY DEF CheckInductive, WalkIsSafe
<1>6. services' = services /\ deps' = deps /\ roots' = roots  BY DEF Descend
<1>7. \A x \in Names : todo'[x] = IF x = d THEN deps[d]
                                  ELSE IF x = path[n] THEN todo[x] \ {d}
                                  ELSE todo[x]
  BY <1>1, <1>4 DEF Descend, Top
<1>8. n \in 1..n /\ path[n] # d /\ path[n] \in Names  BY <1>1, <1>4
<1>9. todo'[d] = deps[d] /\ todo'[path[n]] = todo[path[n]] \ {d}
  <2> HIDE DEF n
  <2>1. QED  BY <1>7, <1>8
<1>10. \A i \in 1..n : i # n => todo'[path[i]] = todo[path[i]]
  <2> HIDE DEF n
  <2>1. SUFFICES ASSUME NEW i \in 1..n, i # n PROVE todo'[path[i]] = todo[path[i]]
    OBVIOUS
  <2>2. path[i] \in Names /\ path[i] # d /\ path[i] # path[n]  BY <1>4, <1>5, <1>8, <2>1
  <2>3. QED  BY <1>7, <2>2
<1>11. \A i \in 1..n : todo'[path'[i]] \subseteq todo[path[i]]
  <2> HIDE DEF n
  <2>1. TAKE i \in 1..n
  <2>2. path'[i] = path[i]  BY <1>3
  <2>3. CASE i = n  BY <2>2, <2>3, <1>9
  <2>4. CASE i # n  BY <2>2, <2>4, <1>10
  <2>5. QED  BY <2>3, <2>4
<1>12. CheckTypeOK'  BY <1>3 DEF Descend, CheckInductive, CheckTypeOK
<1>13. MissingSoFar'  BY DEF Descend, CheckInductive, MissingSoFar
<1>14. WalkIsSafe'
  <2>1. \A i \in 1..(n + 1) : path'[i] \in services /\ todo'[path'[i]] \subseteq services
    <3>1. \A i \in 1..n : path'[i] \in services /\ todo'[path'[i]] \subseteq services
      BY <1>3, <1>5, <1>11
    <3>2. QED  BY <1>1, <1>2, <1>3, <1>9, <3>1
  <2>2. \A i, j \in 1..(n + 1) : path'[i] = path'[j] => i = j
    BY <1>1, <1>3, <1>4, <1>5
  <2>3. QED  BY <1>3, <1>6, <2>1, <2>2 DEF WalkIsSafe
<1>15. PathFollows'
  <2>1. \A i \in 1..(n + 1) : todo'[path'[i]] \subseteq deps[path'[i]]
    <3>1. \A i \in 1..n : todo'[path'[i]] \subseteq deps[path'[i]]
      BY <1>3, <1>11 DEF CheckInductive, PathFollows
    <3>2. QED  BY <1>1, <1>3, <1>9, <3>1
  <2>2. \A i \in 1..n : path'[i + 1] \in deps[path'[i]]
    <3>1. TAKE i \in 1..n
    <3>2. CASE i = n  BY <1>1, <1>2, <1>3, <3>2
    <3>3. CASE i < n
      <4>1. i + 1 \in 1..n  BY <1>1, <3>3
      <4>2. QED  BY <1>3, <3>3, <4>1 DEF CheckInductive, PathFollows
    <3>4. QED  BY <1>1, <3>2, <3>3
  <2>3. QED  BY <1>1, <1>3, <1>6, <2>1, <2>2 DEF PathFollows
<1>16. ExploredIsAcyclic'
  <2>1. /\ roots \subseteq services
        /\ \A i \in 1..n : \A e \in deps[path[i]] \ todo[path[i]] :
             e \in Circular(services, deps) => i < n /\ e = path[i + 1]
        /\ \A s \in services \ roots : s \in Circular(services, deps) => s = path[1]
    BY DEF CheckInductive, ExploredIsAcyclic
  <2>2. \A i \in 1..(n + 1) : \A e \in deps[path'[i]] \ todo'[path'[i]] :
          e \in Circular(services, deps) => i < n + 1 /\ e = path'[i + 1]
    <3>1. SUFFICES ASSUME NEW i \in 1..(n + 1),
                          NEW e \in deps[path'[i]] \ todo'[path'[i]],
                          e \in Circular(services, deps)
                   PROVE  i < n + 1 /\ e = path'[i + 1]
      OBVIOUS
    <3>2. CASE i = n + 1  BY <3>1, <3>2, <1>3, <1>9
    <3>3. CASE i = n
      <4>1. path'[i] = path[n] /\ n \in 1..n  BY <1>1, <1>3, <3>3
      <4>2. e \notin todo[path[n]] \ {d} /\ e \in deps[path[n]]  BY <1>9, <4>1
      <4>3. e = d  BY <1>1, <2>1, <3>1, <4>1, <4>2
      <4>4. QED  BY <1>1, <1>3, <3>3, <4>3
    <3>4. CASE i \in 1..n /\ i # n
      <4>1. path'[i] = path[i] /\ todo'[path[i]] = todo[path[i]]  BY <1>3, <1>10, <3>4
      <4>2. e = path[i + 1]  BY <2>1, <3>1, <3>4, <4>1
      <4>3. i + 1 \in 1..n /\ i < n + 1  BY <1>1, <3>4
      <4>4. QED  BY <1>3, <4>2, <4>3
    <3>5. QED  BY <3>2, <3>3, <3>4, <1>1
  <2>3. path'[1] = path[1]  BY <1>1, <1>3
  <2>4. QED  BY <1>3, <1>6, <2>1, <2>2, <2>3 DEF ExploredIsAcyclic
<1>17. Verdicts' /\ ChainIsGenuine'
  BY DEF Descend, CheckInductive, Verdicts, ChainIsGenuine
<1>18. QED  BY <1>12, <1>13, <1>14, <1>15, <1>16, <1>17 DEF CheckInductive

(* A service met again closes a cycle: those met since are a knot. *)
LEMMA ReportInductive ==
  ASSUME CheckInductive, NEW d \in Names, Report(d)
  PROVE  CheckInductive'
<1> USE DEF graphVars, missVars
<1> DEFINE n == Len(path)
<1>1. n \in Nat /\ n > 0 /\ n \in 1..n /\ path \in Seq(Names)
  BY PathFacts DEF Report, CheckInductive, CheckTypeOK
<1>2. d \in deps[path[n]]
  BY <1>1 DEF Report, Top, CheckInductive, PathFollows
<1>3. PICK m \in 1..n : path[m] = d  BY DEF Report, OnPath
<1>4. \A i \in 1..n : path[i] \in services  BY DEF CheckInductive, WalkIsSafe
<1>5. \A i \in 1..n : i < n => path[i + 1] \in deps[path[i]]
  BY DEF CheckInductive, PathFollows
<1>6. Circular(services, deps) # {}
  <2> DEFINE C == {path[i] : i \in m..n}
  <2>1. C \in SUBSET services
    <3>1. \A i \in m..n : i \in 1..n  BY <1>1, <1>3
    <3>2. QED  BY <1>4, <3>1
  <2>2. d \in C  BY <1>1, <1>3
  <2>3. IsKnot(C, deps)
    <3>1. SUFFICES ASSUME NEW i \in m..n PROVE deps[path[i]] \cap C # {}
      BY DEF IsKnot
    <3>2. CASE i = n  BY <1>2, <2>2, <3>2
    <3>3. CASE i < n
      <4>1. i \in 1..n /\ i + 1 \in m..n  BY <1>1, <1>3, <3>3
      <4>2. path[i + 1] \in deps[path[i]] /\ path[i + 1] \in C  BY <1>5, <3>3, <4>1
      <4>3. QED  BY <4>2
    <3>4. QED  BY <1>1, <1>3, <3>2, <3>3
  <2> HIDE DEF C
  <2>4. QED  BY <2>1, <2>2, <2>3, KnotIsCircular
<1>7. /\ chain' \in Seq(Names) /\ chain' # <<>> /\ Len(chain') = n + 1
      /\ \A i \in 1..n : chain'[i] = path[i]
      /\ chain'[n + 1] = d
  BY <1>1, PushPath DEF Report
<1>8. ChainIsGenuine'
  <2>1. \A i \in 1..n : chain'[i] \in services /\ chain'[i + 1] \in deps[chain'[i]]
    <3>1. SUFFICES ASSUME NEW i \in 1..n
                   PROVE  chain'[i] \in services /\ chain'[i + 1] \in deps[chain'[i]]
      OBVIOUS
    <3>2. chain'[i] = path[i] /\ path[i] \in services  BY <1>4, <1>7
    <3>3. CASE i = n  BY <1>2, <1>7, <3>2, <3>3
    <3>4. CASE i < n
      <4>1. i + 1 \in 1..n  BY <1>1, <3>4
      <4>2. QED  BY <1>5, <1>7, <3>2, <3>4, <4>1
    <3>5. QED  BY <1>1, <3>3, <3>4
  <2>2. \E i \in 1..n : chain'[i] = chain'[n + 1]  BY <1>3, <1>7
  <2>3. \A i, j \in 1..n : chain'[i] = chain'[j] => i = j
    BY <1>7 DEF CheckInductive, WalkIsSafe
  <2>4. services' = services /\ deps' = deps  BY DEF Report
  <2>5. Len(chain') = n + 1 /\ Len(chain') - 1 = n  BY <1>1, <1>7
  <2> HIDE DEF n
  <2>6. /\ \A i \in 1..(Len(chain') - 1) :
              chain'[i] \in services' /\ chain'[i + 1] \in deps'[chain'[i]]
        /\ \E i \in 1..(Len(chain') - 1) : chain'[i] = chain'[Len(chain')]
        /\ \A i, j \in 1..(Len(chain') - 1) : chain'[i] = chain'[j] => i = j
    BY <2>1, <2>2, <2>3, <2>4, <2>5
  <2>7. QED  BY <2>6 DEF ChainIsGenuine
<1>9. CheckTypeOK'  BY <1>7 DEF Report, CheckInductive, CheckTypeOK, Stages
<1>10. MissingSoFar'  BY DEF Report, CheckInductive, MissingSoFar
<1>11. WalkIsSafe' /\ PathFollows'
  BY DEF Report, CheckInductive, WalkIsSafe, PathFollows
<1>12. ExploredIsAcyclic'  BY DEF Report, CheckInductive, ExploredIsAcyclic
<1>13. Verdicts'  BY <1>6, <1>7 DEF Report, Verdicts
<1>14. QED  BY <1>8, <1>9, <1>10, <1>11, <1>12, <1>13 DEF CheckInductive

(* A service is left when nothing it depends on is circular. *)
LEMMA BacktrackInductive ==
  ASSUME CheckInductive, Backtrack
  PROVE  CheckInductive'
<1> USE DEF graphVars, missVars
<1> DEFINE n == Len(path)
<1>1. n \in Nat /\ n > 0 /\ n \in 1..n /\ path \in Seq(Names)
  BY PathFacts DEF Backtrack, CheckInductive, CheckTypeOK
<1>2. /\ path' \in Seq(Names) /\ Len(path') = n - 1
      /\ \A i \in 1..(n - 1) : path'[i] = path[i]
  BY <1>1, PopPath DEF Backtrack
<1>3. \A i \in 1..(n - 1) : i \in 1..n /\ i < n /\ i + 1 \in 1..n  BY <1>1
<1>4. /\ services' = services /\ deps' = deps /\ roots' = roots
      /\ todo' = todo /\ stage' = stage
  BY DEF Backtrack
<1>5. /\ roots \subseteq services
      /\ \A i \in 1..n : \A e \in deps[path[i]] \ todo[path[i]] :
           e \in Circular(services, deps) => i < n /\ e = path[i + 1]
      /\ \A s \in services \ roots : s \in Circular(services, deps) => s = path[1]
  BY DEF CheckInductive, ExploredIsAcyclic
<1>6. path[n] \notin Circular(services, deps)
  <2>1. todo[path[n]] = {}  BY DEF Backtrack, Top
  <2>2. \A e \in deps[path[n]] : e \notin Circular(services, deps)
    BY <1>1, <1>5, <2>1
  <2>3. QED  BY <2>2, CircularGoesOn
<1>7. CheckTypeOK'  BY <1>2 DEF Backtrack, CheckInductive, CheckTypeOK
<1>8. MissingSoFar'
  <2>1. stage = "circular"  BY DEF Backtrack
  <2>2. QED  BY <1>4, <2>1 DEF Backtrack, CheckInductive, MissingSoFar
<1>9. WalkIsSafe'
  <2>1. /\ \A i \in 1..n : path[i] \in services /\ todo[path[i]] \subseteq services
        /\ \A i, j \in 1..n : path[i] = path[j] => i = j
    BY DEF CheckInductive, WalkIsSafe
  <2> HIDE DEF n
  <2>2. QED  BY <1>2, <1>3, <1>4, <2>1 DEF WalkIsSafe
<1>10. PathFollows'
  <2>1. \A i \in 1..n : /\ todo[path[i]] \subseteq deps[path[i]]
                        /\ i < n => path[i + 1] \in deps[path[i]]
    BY DEF CheckInductive, PathFollows
  <2>2. SUFFICES ASSUME NEW i \in 1..(n - 1)
                 PROVE  /\ todo[path'[i]] \subseteq deps[path'[i]]
                        /\ i < n - 1 => path'[i + 1] \in deps[path'[i]]
    BY <1>2, <1>4 DEF PathFollows
  <2>3. path'[i] = path[i] /\ i \in 1..n /\ i < n  BY <1>2, <1>3
  <2>4. ASSUME i < n - 1 PROVE path'[i + 1] = path[i + 1]
    <3>1. i + 1 \in 1..(n - 1)  BY <1>1, <2>4
    <3>2. QED  BY <1>2, <3>1
  <2>5. QED  BY <2>1, <2>3, <2>4
<1>11. ExploredIsAcyclic'
  <2>1. ASSUME NEW i \in 1..(n - 1), NEW e \in deps[path'[i]] \ todo[path'[i]],
               e \in Circular(services, deps)
        PROVE  i < n - 1 /\ e = path'[i + 1]
    <3>1. path'[i] = path[i] /\ i \in 1..n  BY <1>2, <1>3
    <3>2. e = path[i + 1]  BY <1>5, <2>1, <3>1
    <3>3. i + 1 # n  BY <1>6, <2>1, <3>2
    <3>4. i < n - 1 /\ i + 1 \in 1..(n - 1)  BY <1>1, <3>3
    <3>5. QED  BY <1>2, <3>2, <3>4
  <2>2. ASSUME NEW s \in services \ roots, s \in Circular(services, deps)
        PROVE  path' # <<>> /\ s = path'[1]
    <3>1. s = path[1]  BY <1>5, <2>2
    <3>2. 1 # n  BY <1>6, <2>2, <3>1
    <3>3. 1 \in 1..(n - 1) /\ n - 1 > 0
      <4> HIDE DEF n
      <4>1. QED  BY <1>1, <3>2
    <3>4. QED  BY <1>2, <3>1, <3>3, PathFacts
  <2>3. QED  BY <1>2, <1>4, <1>5, <2>1, <2>2 DEF ExploredIsAcyclic
<1>12. Verdicts' /\ ChainIsGenuine'
  BY DEF Backtrack, CheckInductive, Verdicts, ChainIsGenuine
<1>13. QED  BY <1>7, <1>8, <1>9, <1>10, <1>11, <1>12 DEF CheckInductive

LEMMA EndCircularInductive ==
  ASSUME CheckInductive, EndCircular
  PROVE  CheckInductive'
<1> USE DEF CheckInductive, graphVars, walkVars, missVars
<1>1. CheckTypeOK' /\ MissingSoFar'
  BY DEF EndCircular, CheckTypeOK, Stages, MissingSoFar
<1>2. WalkIsSafe' /\ PathFollows'  BY DEF EndCircular, WalkIsSafe, PathFollows
<1>3. ExploredIsAcyclic' /\ Verdicts' /\ ChainIsGenuine'
  BY DEF EndCircular, ExploredIsAcyclic, Verdicts, ChainIsGenuine
<1>4. QED  BY <1>1, <1>2, <1>3

LEMMA StutterInductive ==
  ASSUME CheckInductive, UNCHANGED checkVars
  PROVE  CheckInductive'
<1> USE DEF checkVars, graphVars, walkVars, missVars, CheckInductive
<1>1. CheckTypeOK' /\ MissingSoFar'  BY DEF CheckTypeOK, MissingSoFar
<1>2. WalkIsSafe' /\ PathFollows'  BY DEF WalkIsSafe, PathFollows
<1>3. ExploredIsAcyclic' /\ Verdicts' /\ ChainIsGenuine'
  BY DEF ExploredIsAcyclic, Verdicts, ChainIsGenuine
<1>4. QED  BY <1>1, <1>2, <1>3

-----------------------------------------------------------------------------
(* The invariant of the walk holds in every state of the checks (StartAll, *)
(* hasMissingDeps, hasCircularDeps), whatever the graph and its size.      *)
THEOREM ChecksHold == CheckSpec => []CheckInductive
<1>1. CheckInductive /\ [CheckNext]_checkVars => CheckInductive'
  <2> SUFFICES ASSUME CheckInductive, [CheckNext]_checkVars PROVE CheckInductive'
    OBVIOUS
  <2>1. CASE \E s, d \in Names : LookUp(s, d)  BY <2>1, LookUpInductive
  <2>2. CASE EndMissing  BY <2>2, EndMissingInductive
  <2>3. ASSUME NEW s \in Names, EnterRoot(s) PROVE CheckInductive'
    BY <2>3, EnterRootInductive
  <2>4. ASSUME NEW s \in Names, Descend(s) PROVE CheckInductive'
    BY <2>4, DescendInductive
  <2>5. ASSUME NEW s \in Names, Report(s) PROVE CheckInductive'
    BY <2>5, ReportInductive
  <2>6. CASE Backtrack  BY <2>6, BacktrackInductive
  <2>7. CASE EndCircular  BY <2>7, EndCircularInductive
  <2>8. CASE UNCHANGED checkVars  BY <2>8, StutterInductive
  <2>9. QED  BY <2>1, <2>2, <2>3, <2>4, <2>5, <2>6, <2>7, <2>8 DEF CheckNext
<1>2. QED  BY InitInductive, <1>1, PTL DEF CheckSpec

(* StartAll boots a set of services only if all their dependencies are     *)
(* registered and none can be reached from itself, and refuses it only if  *)
(* one of the errors it reports is true (hasMissingDeps, hasCircularDeps). *)
THEOREM VerdictsAreRight == CheckSpec => []VerdictIsRight
<1>1. ASSUME CheckInductive PROVE VerdictIsRight
  <2>1. MissingSoFar /\ ExploredIsAcyclic /\ Verdicts  BY <1>1 DEF CheckInductive
  <2>2. ASSUME stage = "accepted"
        PROVE  Missing(services, deps) = {} /\ Circular(services, deps) = {}
    <3>1. Missing(services, deps) = {}  BY <2>1, <2>2 DEF MissingSoFar
    <3>2. \A s \in services : s \notin Circular(services, deps)
      BY <2>1, <2>2 DEF Verdicts, ExploredIsAcyclic
    <3>3. QED  BY <3>1, <3>2, CircularIsInside
  <2>3. ASSUME stage = "refused", chain = <<>>
        PROVE  absent # {} /\ absent = Missing(services, deps)
    BY <2>1, <2>3 DEF MissingSoFar, Verdicts
  <2>4. QED  BY <2>1, <2>2, <2>3 DEF VerdictIsRight, Verdicts
<1>2. QED  BY ChecksHold, <1>1, PTL

(* Error.CircularDeps names services that follow from one another, the     *)
(* last of which is the one that closes the circle (hasCircularDepsRec).   *)
THEOREM ChainsAreGenuine == CheckSpec => []ChainIsGenuine
<1>1. CheckInductive => ChainIsGenuine  BY DEF CheckInductive
<1>2. QED  BY ChecksHold, <1>1, PTL

(* hasCircularDepsRec only recurs into services that are registered and    *)
(* not on the path yet, so never deeper than there are services.           *)
THEOREM WalksAreSafe == CheckSpec => []WalkIsSafe
<1>1. CheckInductive => WalkIsSafe  BY DEF CheckInductive
<1>2. QED  BY ChecksHold, <1>1, PTL

-----------------------------------------------------------------------------
(* The checks come to an end *)

(* The walk is never deeper than there are names. *)
LEMMA DepthIsBounded ==
  ASSUME CheckInductive
  PROVE  /\ Len(path) \in Nat /\ Levels \in Nat
         /\ Len(path) <= Levels
<1> DEFINE n == Len(path)
           spot == [i \in 1..n |-> path[i]]
<1>1. n \in Nat /\ \A i \in 1..n : path[i] \in Names
  BY PathFacts DEF CheckInductive, CheckTypeOK
<1>2. Levels \in Nat  BY NamesAssumption, FS_CardinalityType DEF Levels
<1>3. spot \in Injection(1..n, Names)
  BY <1>1 DEF CheckInductive, WalkIsSafe, Injection, IsInjective
<1>4. Cardinality(1..n) <= Levels
  <2> HIDE DEF spot
  <2>1. QED  BY <1>3, NamesAssumption, FS_Injection DEF Levels
<1>5. Cardinality(1..n) = n
  <2>1. 1 \in Int /\ n \in Int /\ (n \in Nat)  BY <1>1
  <2>2. Cardinality(1..n) = IF 1 > n THEN 0 ELSE n - 1 + 1
    BY <2>1, FS_Interval
  <2>3. QED  BY <2>1, <2>2
<1>6. QED  BY <1>1, <1>2, <1>4, <1>5

LEMMA FiniteWork ==
  ASSUME CheckInductive
  PROVE  /\ IsFiniteSet(unchecked) /\ IsFiniteSet(roots)
         /\ \A s \in Names : IsFiniteSet(todo[s])
<1>1. IsFiniteSet(Names \X Names)  BY NamesAssumption, FS_Product
<1>2. QED
  BY <1>1, NamesAssumption, FS_Subset DEF CheckInductive, CheckTypeOK

LEMMA LeftIsNatural ==
  ASSUME CheckInductive
  PROVE  Left \in [1..(Levels + 3) -> Nat]
<1>1. Levels \in Nat  BY DepthIsBounded
<1>2. StagesLeft \in Nat  BY DEF StagesLeft
<1>3. Cardinality(unchecked) \in Nat /\ Cardinality(roots) \in Nat
  BY FiniteWork, FS_CardinalityType
<1>4. \A i \in Int : LevelLeft(i) \in Nat
  BY FiniteWork, FS_CardinalityType, PathFacts
  DEF LevelLeft, CheckInductive, CheckTypeOK
<1>5. QED  BY <1>1, <1>2, <1>3, <1>4 DEF Left

LEMMA LevelsAreNatural == Levels \in Nat
  BY NamesAssumption, FS_CardinalityType DEF Levels

LEMMA LeftOf ==
  /\ Left[1] = StagesLeft /\ Left[1]' = StagesLeft'
  /\ Left[2] = Cardinality(unchecked) /\ Left[2]' = Cardinality(unchecked')
  /\ Left[3] = Cardinality(roots) /\ Left[3]' = Cardinality(roots')
  /\ \A i \in 1..Levels : /\ Left[i + 3] = LevelLeft(i)
                          /\ Left[i + 3]' = LevelLeft(i)'
<1>1. 1 \in 1..(Levels + 3) /\ 2 \in 1..(Levels + 3) /\ 3 \in 1..(Levels + 3)
  BY LevelsAreNatural
<1>2. \A i \in 1..Levels : /\ i + 3 \in 1..(Levels + 3) /\ (i + 3) - 3 = i
                           /\ i + 3 # 1 /\ i + 3 # 2 /\ i + 3 # 3
  BY LevelsAreNatural
<1>3. QED  BY <1>1, <1>2 DEF Left

(* A step takes from what is left, at k, and adds nothing before. *)
Shrinks(k) == Left[k]' < Left[k] /\ \A j \in 1..(k - 1) : Left[j]' = Left[j]

LEMMA StagesShrink ==
  ASSUME CheckInductive, CheckInductive', StagesLeft' < StagesLeft
  PROVE  Shrinks(1)
<1>1. Left[1]' = StagesLeft'  BY LeftOf
<1>2. QED  BY <1>1, LeftOf DEF Shrinks

LEMMA LookUpShrinks ==
  ASSUME CheckInductive, CheckInductive', NEW s \in Names, NEW d \in Names,
         LookUp(s, d)
  PROVE  Shrinks(1) \/ Shrinks(2)
<1>1. CASE stage' = "blocked"
  BY <1>1, StagesShrink DEF LookUp, StagesLeft
<1>2. CASE stage' = stage
  <2>1. Left[1]' = Left[1]  BY <1>2, LeftOf DEF StagesLeft
  <2>2. Cardinality(unchecked') = Cardinality(unchecked) - 1
    <3>1. <<s, d>> \in unchecked /\ unchecked' = unchecked \ {<<s, d>>}
      BY DEF LookUp
    <3>2. QED  BY <3>1, FiniteWork, FS_RemoveElement
  <2>3. Cardinality(unchecked) \in Nat  BY FiniteWork, FS_CardinalityType
  <2>4. Left[2]' < Left[2]  BY <2>2, <2>3, LeftOf
  <2>5. QED  BY <2>1, <2>4 DEF Shrinks
<1>3. QED  BY <1>1, <1>2 DEF LookUp

LEMMA EnterRootShrinks ==
  ASSUME CheckInductive, CheckInductive', NEW s \in Names, EnterRoot(s)
  PROVE  Shrinks(3)
<1>1. Left[1]' = Left[1] /\ Left[2]' = Left[2]
  BY LeftOf DEF EnterRoot, StagesLeft, missVars
<1>2. Cardinality(roots') = Cardinality(roots) - 1
  BY FiniteWork, FS_RemoveElement DEF EnterRoot
<1>3. Cardinality(roots) \in Nat  BY FiniteWork, FS_CardinalityType
<1>4. Left[3]' < Left[3]  BY <1>2, <1>3, LeftOf
<1>5. \A j \in 1..(3 - 1) : j = 1 \/ j = 2  OBVIOUS
<1>6. QED  BY <1>1, <1>4, <1>5 DEF Shrinks

(* A step of the walk that leaves all levels above the deepest alone *)
LEMMA LevelShrinks ==
  ASSUME CheckInductive, CheckInductive',
         UNCHANGED <<stage, unchecked, roots>>,
         NEW n \in Nat, n > 0, n <= Levels,
         LevelLeft(n)' < LevelLeft(n),
         \A i \in 1..(n - 1) : LevelLeft(i)' = LevelLeft(i)
  PROVE  Shrinks(n + 3)
<1>1. Levels \in Nat  BY DepthIsBounded
<1>2. /\ Left[1]' = Left[1] /\ Left[2]' = Left[2] /\ Left[3]' = Left[3]
  BY LeftOf DEF StagesLeft
<1>3. n \in 1..Levels  BY <1>1
<1>4. Left[n + 3]' < Left[n + 3]
  <2>1. Left[n + 3]' = LevelLeft(n)' /\ Left[n + 3] = LevelLeft(n)
    BY <1>3, LeftOf
  <2>2. QED  BY <2>1
<1>5. ASSUME NEW j \in 1..(n + 3 - 1) PROVE Left[j]' = Left[j]
  <2>1. CASE j \in 1..3  BY <1>2, <2>1
  <2>2. CASE j > 3
    <3>1. PICK i \in 1..(n - 1) : j = i + 3
      <4>1. j - 3 \in 1..(n - 1) /\ j = (j - 3) + 3  BY <2>2
      <4>2. QED  BY <4>1
    <3>2. i \in 1..Levels  BY <1>1
    <3>3. Left[i + 3]' = LevelLeft(i)' /\ Left[i + 3] = LevelLeft(i)
      BY <3>2, LeftOf
    <3>4. QED  BY <3>1, <3>3
  <2>3. QED  BY <2>1, <2>2
<1>6. QED  BY <1>4, <1>5 DEF Shrinks

LEMMA DescendShrinks ==
  ASSUME CheckInductive, CheckInductive', NEW d \in Names, Descend(d)
  PROVE  \E k \in 1..(Levels + 3) : Shrinks(k)
<1>0. PICK n \in Nat : n = Len(path)  BY DepthIsBounded
<1>1. n > 0 /\ n <= Levels /\ Levels \in Nat /\ n \in 1..n
  BY <1>0, DepthIsBounded, PathFacts DEF Descend, CheckInductive, CheckTypeOK
<1>2. /\ path \in Seq(Names) /\ todo \in [Names -> SUBSET Names]
      /\ \A i \in 1..n : path[i] \in Names
  BY <1>0, PathFacts DEF CheckInductive, CheckTypeOK
<1>3. /\ Len(path') = n + 1 /\ \A i \in 1..n : path'[i] = path[i]
  BY <1>0, <1>2, PushPath DEF Descend
<1>4. /\ d \in todo[path[n]] /\ \A i \in 1..n : path[i] # d
      /\ todo' = [todo EXCEPT ![path[n]] = @ \ {d}, ![d] = deps[d]]
  BY <1>0 DEF Descend, Top, OnPath
<1>5. \A i \in 1..(n - 1) : path[i] # path[n]
  BY <1>0, <1>1 DEF CheckInductive, WalkIsSafe
<1>6. \A i \in 1..(n - 1) : LevelLeft(i)' = LevelLeft(i)
  <2> SUFFICES ASSUME NEW i \in 1..(n - 1) PROVE LevelLeft(i)' = LevelLeft(i)
    OBVIOUS
  <2>1. i \in 1..n /\ i \in 1..(n + 1)  BY <1>1
  <2>2. path'[i] = path[i] /\ todo'[path[i]] = todo[path[i]]
    BY <1>2, <1>3, <1>4, <1>5, <2>1
  <2>3. QED  BY <1>0, <1>3, <2>1, <2>2 DEF LevelLeft
<1>7. LevelLeft(n)' < LevelLeft(n)
  <2>1. path'[n] = path[n] /\ todo'[path[n]] = todo[path[n]] \ {d}
    BY <1>1, <1>2, <1>3, <1>4
  <2>2. IsFiniteSet(todo[path[n]])  BY <1>1, <1>2, FiniteWork
  <2>3. /\ Cardinality(todo'[path[n]]) = Cardinality(todo[path[n]]) - 1
        /\ Cardinality(todo[path[n]]) \in Nat
    BY <1>4, <2>1, <2>2, FS_RemoveElement, FS_CardinalityType, ZenonT(30)
  <2>4. n \in 1..(n + 1)  BY <1>1
  <2>5. /\ LevelLeft(n)' = Cardinality(todo'[path[n]]) + 1
        /\ LevelLeft(n) = Cardinality(todo[path[n]]) + 1
    BY <1>0, <1>1, <1>3, <2>1, <2>4 DEF LevelLeft
  <2>6. QED  BY <2>3, <2>5
<1>8. UNCHANGED <<stage, unchecked, roots>>  BY DEF Descend, missVars
<1>9. Shrinks(n + 3)
  BY <1>1, <1>6, <1>7, <1>8, LevelShrinks
<1>10. n + 3 \in 1..(Levels + 3)  BY <1>1
<1>11. QED  BY <1>9, <1>10

LEMMA BacktrackShrinks ==
  ASSUME CheckInductive, CheckInductive', Backtrack
  PROVE  \E k \in 1..(Levels + 3) : Shrinks(k)
<1>0. PICK n \in Nat : n = Len(path)  BY DepthIsBounded
<1>1. n > 0 /\ n <= Levels /\ Levels \in Nat /\ n \in 1..n
  BY <1>0, DepthIsBounded, PathFacts DEF Backtrack, CheckInductive, CheckTypeOK
<1>2. /\ Len(path') = n - 1
      /\ \A i \in 1..(n - 1) : path'[i] = path[i]
  BY <1>0, PopPath DEF Backtrack, CheckInductive, CheckTypeOK
<1>3. \A i \in 1..(n - 1) : LevelLeft(i)' = LevelLeft(i)
  <2> SUFFICES ASSUME NEW i \in 1..(n - 1) PROVE LevelLeft(i)' = LevelLeft(i)
    OBVIOUS
  <2>1. i \in 1..n  BY <1>1
  <2>2. QED  BY <1>0, <1>2, <2>1 DEF LevelLeft, Backtrack
<1>4. LevelLeft(n)' < LevelLeft(n)
  <2>1. n \notin 1..(n - 1)  BY <1>1
  <2>2. LevelLeft(n)' = 0  BY <1>2, <2>1 DEF LevelLeft
  <2>3. LevelLeft(n) = Cardinality({}) + 1
    BY <1>0, <1>1 DEF LevelLeft, Backtrack, Top
  <2>4. QED  BY <2>2, <2>3, FS_EmptySet
<1>5. UNCHANGED <<stage, unchecked, roots>>  BY DEF Backtrack, missVars
<1>6. Shrinks(n + 3)
  BY <1>1, <1>3, <1>4, <1>5, LevelShrinks
<1>7. n + 3 \in 1..(Levels + 3)  BY <1>1
<1>8. QED  BY <1>6, <1>7

LEMMA StepShrinks ==
  ASSUME CheckInductive, CheckInductive', CheckNext
  PROVE  \E k \in 1..(Levels + 3) : Shrinks(k)
<1>1. 1 \in 1..(Levels + 3) /\ 2 \in 1..(Levels + 3) /\ 3 \in 1..(Levels + 3)
  BY DepthIsBounded
<1>2. ASSUME NEW s \in Names, NEW d \in Names, LookUp(s, d)
      PROVE  \E k \in 1..(Levels + 3) : Shrinks(k)
  BY <1>1, <1>2, LookUpShrinks
<1>3. CASE EndMissing \/ EndCircular \/ \E d \in Names : Report(d)
  <2>1. StagesLeft' < StagesLeft
    BY <1>3 DEF EndMissing, EndCircular, Report, StagesLeft
  <2>2. QED  BY <1>1, <2>1, StagesShrink
<1>4. ASSUME NEW s \in Names, EnterRoot(s)
      PROVE  \E k \in 1..(Levels + 3) : Shrinks(k)
  BY <1>1, <1>4, EnterRootShrinks
<1>5. QED
  BY <1>2, <1>3, <1>4, DescendShrinks, BacktrackShrinks DEF CheckNext

(* hasMissingDeps and hasCircularDeps have less to do after each step, for *)
(* any names and any graph ...                                             *)
THEOREM ChecksAlwaysShrink == CheckSpec => ChecksShrink
<1> DEFINE Shrink == \E k \in 1..(Levels + 3) :
                       /\ Left[k]' < Left[k]
                       /\ \A j \in 1..(k - 1) : Left[j]' = Left[j]
<1>1. CheckInductive /\ CheckInductive' /\ [CheckNext]_checkVars
        => [Shrink]_checkVars
  BY StepShrinks DEF Shrinks
<1>2. QED  BY <1>1, ChecksHold, PTL DEF CheckSpec, ChecksShrink

(* ... of which there is never less than nothing ...                       *)
LEMMA LeftIsCounted == CheckSpec => [](Left \in [1..(Levels + 3) -> Nat])
BY ChecksHold, LeftIsNatural, PTL

(* ... and in an order in which nothing descends for ever.                 *)
Measures == [1..(Levels + 3) -> Nat]
Lower == LexProductOrdering(OpToRel(<, Nat), Nat, Levels + 3)
Descends == <<Left', Left>> \in Lower

LEMMA NothingDescendsForEver == IsWellFoundedOn(Lower, Measures)
<1> DEFINE less == OpToRel(<, Nat)
           N == Levels + 3
<1>1. N \in Nat  BY LevelsAreNatural
<1>2. IsWellFoundedOn(less, Nat)  BY NatLessThanWellFounded
<1>3. IsWellFoundedOn(LexProductOrdering(less, Nat, N), [1..N -> Nat])
  <2> HIDE DEF less, N
  <2>1. QED  BY <1>1, <1>2, WFLexProductOrdering
<1>4. QED  BY <1>3 DEF Lower, Measures

LEMMA ShrinkingDescends ==
  ASSUME Left \in Measures, Left' \in Measures,
         NEW k \in 1..(Levels + 3), Shrinks(k)
  PROVE  Descends
<1> DEFINE less == OpToRel(<, Nat)
<1>1. Left[k] \in Nat /\ Left'[k] \in Nat /\ Left'[k] < Left[k]
  BY DEF Measures, Shrinks
<1>2. <<Left'[k], Left[k]>> \in less  BY <1>1 DEF OpToRel
<1>3. \A j \in 1..(k - 1) : Left'[j] = Left[j]  BY DEF Shrinks
<1> HIDE DEF less
<1>4. <<Left', Left>> \in LexProductOrdering(less, Nat, Levels + 3)
  BY <1>2, <1>3 DEF LexProductOrdering, Measures
<1>5. QED  BY <1>4 DEF Descends, Lower, less

(* So the checks end: every step of the two walks leads to a lower element *)
(* of a well-founded set, although a service may be walked over once for   *)
(* each path that leads to it (hasMissingDeps, hasCircularDepsRec).        *)
THEOREM WalkDescends ==
  /\ IsWellFoundedOn(Lower, Measures)
  /\ CheckSpec => [](Left \in Measures) /\ [][Descends]_checkVars
<1>1. CheckInductive => Left \in Measures
  BY LeftIsNatural DEF Measures
<1>2. CheckInductive' => Left' \in Measures
  <2>1. (CheckInductive => Left \in Measures)'  BY <1>1, PTL
  <2>2. Measures' = Measures  BY DEF Measures, Levels
  <2>3. QED  BY <2>1, <2>2
<1>3. CheckInductive /\ CheckInductive' /\ [CheckNext]_checkVars
        => [Descends]_checkVars
  BY <1>1, <1>2, StepShrinks, ShrinkingDescends
<1>4. CheckSpec => [](Left \in Measures) /\ [][Descends]_checkVars
  BY <1>1, <1>3, ChecksHold, PTL DEF CheckSpec
<1>5. QED  BY <1>4, NothingDescendsForEver
=============================================================================
