--------------------------- MODULE RegistryProofs ---------------------------
(* Proofs about Registry, for any Maestros, names, objects and callers. *)
EXTENDS Registry, TLAPS

LEMMA NoCallIsNone == NoCall \notin Calls
  BY NoneAssumption DEF NoCall, Calls

LEMMA InitHolds == Init => RegistryInductive
<1> SUFFICES ASSUME Init PROVE RegistryInductive  OBVIOUS
<1> USE DEF Init
<1>1. RegistryTypeOK
  BY OwnAssumption DEF RegistryTypeOK, AdderPCs, SwapperPCs
<1>2. Exclusive  BY CallersAssumption DEF Exclusive, Holds
<1>3. Configured  BY DEF Configured, ConfiguredFor
<1>4. RegisteredAsGiven
  <2>1. \A c \in Adders : ~Registered(c)  BY DEF Registered
  <2>2. \A m \in Maestros, n \in Names : registry[m][n] = None  OBVIOUS
  <2>3. \A o \in Objects : Origins(o)  BY DEF Origins
  <2>4. QED  BY <2>1, <2>2, <2>3 DEF RegisteredAsGiven
<1>5. PanicsAreFounded  BY DEF PanicsAreFounded
<1>6. NoMaestroIsLost  BY OwnAssumption DEF NoMaestroIsLost
<1>7. QED  BY <1>1, <1>2, <1>3, <1>4, <1>5, <1>6 DEF RegistryInductive

-----------------------------------------------------------------------------
(* The steps of AddService *)

LEMMA ArgTyped ==
  ASSUME RegistryInductive, NEW c \in Adders, pc[c] # "idle"
  PROVE  /\ arg[c] \in Calls /\ arg[c].m \in Maestros /\ arg[c].n \in Names
         /\ arg[c].o \in Objects /\ arg[c].ds \in Seq(Names)
<1>1. arg[c] \in Calls  BY DEF RegistryInductive, RegistryTypeOK, Exclusive
<1>2. QED  BY <1>1 DEF Calls

(* What a step leaves alone: the registry and the dependencies of objects  *)
(* grow, and nobody touches an object that has only been given to d.       *)
LEMMA Undisturbed ==
  ASSUME RegistryInductive, RegistryTypeOK', NEW d \in Adders,
         arg'[d] = arg[d], pc'[d] = pc[d], err'[d] = err[d],
         \A o \in Objects : directDeps[o] \subseteq directDeps'[o],
         \A o \in Objects : o = arg[d].o /\ Once(o)' =>
           /\ Once(o) /\ name'[o] = name[o] /\ conf'[o] = conf[o]
           /\ directDeps'[o] = directDeps[o],
         \A m \in Maestros, n \in Names :
           registry[m][n] # None => registry'[m][n] = registry[m][n],
         \A e \in Adders : Registered(e) => Registered(e)',
         \A e \in Adders : HasStored(e) => HasStored(e)',
         \A e \in Adders : arg[e] # NoCall => arg'[e] = arg[e]
  PROVE  /\ ConfiguredFor(d)'
         /\ Registered(d)' => AsGiven(d)'
         /\ err'[d] # None => Founded(d)'
<1>1. CASE pc[d] = "idle"
  BY <1>1 DEF ConfiguredFor, Registered, Exclusive, RegistryInductive
<1>2. CASE pc[d] # "idle"
  <2> DEFINE o == arg[d].o
  <2>1. /\ arg[d].m \in Maestros /\ arg[d].n \in Names /\ o \in Objects
    BY <1>2, ArgTyped
  <2>2. ConfiguredFor(d)'
    <3>1. ConfiguredFor(d)  BY DEF RegistryInductive, Configured
    <3>2. QED  BY <1>2, <2>1, <3>1 DEF ConfiguredFor, Range, Once
  <2>3. ASSUME Registered(d)' PROVE AsGiven(d)'
    <3>1. AsGiven(d)
      BY <2>3 DEF Registered, RegistryInductive, RegisteredAsGiven
    <3>2. registry'[arg[d].m][arg[d].n] = o
      BY <2>1, <3>1, NoneAssumption DEF AsGiven
    <3>3. QED  BY <1>2, <2>1, <3>1, <3>2 DEF AsGiven, Range, Once
  <2>4. ASSUME err'[d] # None PROVE Founded(d)'
    <3>1. Founded(d)  BY <2>4 DEF RegistryInductive, PanicsAreFounded
    <3>2. err[d] = "AlreadyExists" =>
            \E e \in Adders : Registered(e)' /\ arg'[e].m = arg'[d].m
                                            /\ arg'[e].n = arg'[d].n
      <4>1. \A e \in Adders : Registered(e) => arg'[e] = arg[e]
        BY DEF Registered, RegistryInductive, Exclusive
      <4>2. QED  BY <3>1, <4>1 DEF Founded
    <3>3. \A e \in Adders : arg[e].o = o => arg'[e] = arg[e]
      BY <2>1, NoneAssumption DEF NoCall
    <3>4. QED  BY <3>1, <3>2, <3>3 DEF Founded
  <2>5. QED  BY <2>2, <2>3, <2>4
<1>3. QED  BY <1>1, <1>2

(* A step of c that only touches the object c has been given keeps the     *)
(* invariant if it does so for c itself.                                   *)
LEMMA CallerStep ==
  ASSUME RegistryInductive, RegistryTypeOK', NEW c \in Adders,
         \/ arg' = arg
         \/ arg[c] = NoCall /\ \E r \in Calls : arg' = [arg EXCEPT ![c] = r],
         \A d \in Adders \ {c} : pc'[d] = pc[d] /\ err'[d] = err[d],
         \A w \in Swappers : pc'[w] = pc[w],
         UNCHANGED globalVars,
         Registered(c) => Registered(c)', HasStored(c) => HasStored(c)',
         \A o \in Objects : o # arg'[c].o =>
           /\ name'[o] = name[o] /\ conf'[o] = conf[o]
           /\ directDeps'[o] = directDeps[o],
         \A o \in Objects :
           /\ name'[o] # name[o] => name'[o] = arg'[c].n
           /\ conf'[o] # conf[o] => conf'[o] = c
           /\ directDeps'[o] # directDeps[o] =>
                /\ HasStored(c)'
                /\ directDeps'[o] \subseteq directDeps[o] \cup Range(arg'[c].ds),
         \A o \in Objects : directDeps[o] \subseteq directDeps'[o],
         \A m \in Maestros, n \in Names :
           registry[m][n] # None => registry'[m][n] = registry[m][n],
         arg'[c] # NoCall,
         Exclusive',
         ConfiguredFor(c)', Registered(c)' => AsGiven(c)',
         err'[c] # None => Founded(c)',
         \A m \in Maestros, n \in Names : registry'[m][n] # registry[m][n] =>
           Registered(c)' /\ arg'[c].m = m /\ arg'[c].n = n
  PROVE  RegistryInductive'
<1>1. \A d \in Adders \ {c} : arg'[d] = arg[d]
  BY DEF RegistryInductive, RegistryTypeOK
<1>2. \A e \in Adders : /\ Registered(e) => Registered(e)'
                        /\ HasStored(e) => HasStored(e)'
                        /\ arg[e] # NoCall => arg'[e] = arg[e]
  <2>1. \A e \in Adders : /\ Registered(e) => Registered(e)'
                          /\ HasStored(e) => HasStored(e)'
    BY <1>1 DEF Registered, HasStored
  <2>2. arg[c] # NoCall => arg'[c] = arg[c]  OBVIOUS
  <2>3. QED  BY <1>1, <2>1, <2>2
<1>3. \A o \in Objects : Once(o)' => Once(o)
  BY <1>1, NoneAssumption DEF Once, NoCall
<1>4. \A d \in Adders \ {c} : /\ ConfiguredFor(d)'
                              /\ Registered(d)' => AsGiven(d)'
                              /\ err'[d] # None => Founded(d)'
  <2> SUFFICES ASSUME NEW d \in Adders \ {c}
               PROVE  /\ ConfiguredFor(d)'
                      /\ Registered(d)' => AsGiven(d)'
                      /\ err'[d] # None => Founded(d)'
    OBVIOUS
  <2>1. arg'[d] = arg[d]  BY <1>1
  <2>2. ASSUME NEW o \in Objects, o = arg[d].o, Once(o)'
        PROVE  /\ Once(o) /\ name'[o] = name[o] /\ conf'[o] = conf[o]
               /\ directDeps'[o] = directDeps[o]
    <3>1. arg'[c].o # o  BY <2>1, <2>2 DEF Once
    <3>2. QED  BY <1>3, <2>2, <3>1
  <2>3. QED  BY <1>2, <2>1, <2>2, Undisturbed
<1>5. Configured'  BY <1>4 DEF Configured
<1>6. RegisteredAsGiven'
  <2>1. \A d \in Adders : Registered(d)' => AsGiven(d)'  BY <1>4
  <2>2. ASSUME NEW m \in Maestros, NEW n \in Names, registry'[m][n] # None
        PROVE  \E d \in Adders :
                 Registered(d)' /\ arg'[d].m = m /\ arg'[d].n = n
    <3>1. CASE registry'[m][n] = registry[m][n]
      <4>1. PICK d \in Adders : Registered(d) /\ arg[d].m = m /\ arg[d].n = n
        BY <2>2, <3>1 DEF RegistryInductive, RegisteredAsGiven
      <4>2. arg[d] # NoCall
        BY <4>1 DEF Registered, RegistryInductive, Exclusive
      <4>3. QED  BY <1>2, <4>1, <4>2
    <3>2. CASE registry'[m][n] # registry[m][n]  BY <3>2
    <3>3. QED  BY <3>1, <3>2
  <2>3. ASSUME NEW o \in Objects PROVE Origins(o)'
    <3>1. Origins(o)  BY DEF RegistryInductive, RegisteredAsGiven
    <3>2. \A d \in Adders : arg[d].o = o => arg'[d] = arg[d]
      BY <1>2, NoneAssumption DEF NoCall
    <3>3. name'[o] # None =>
            \E d \in Adders : arg'[d].o = o /\ arg'[d].n = name'[o]
      <4>1. CASE name'[o] = name[o]  BY <3>1, <3>2, <4>1 DEF Origins
      <4>2. CASE name'[o] # name[o]  BY <4>2
      <4>3. QED  BY <4>1, <4>2
    <3>4. conf'[o] # None => arg'[conf'[o]].o = o
      <4>1. CASE conf'[o] = conf[o]
        <5>1. conf[o] # None => conf[o] \in Adders
          BY DEF RegistryInductive, RegistryTypeOK
        <5>2. QED  BY <3>1, <3>2, <4>1, <5>1 DEF Origins
      <4>2. CASE conf'[o] # conf[o]  BY <4>2
      <4>3. QED  BY <4>1, <4>2
    <3>5. ASSUME NEW k \in directDeps'[o]
          PROVE  \E d \in Adders : /\ arg'[d].o = o /\ HasStored(d)'
                                  /\ k \in Range(arg'[d].ds)
      <4>1. CASE k \in directDeps[o]
        <5>1. PICK d \in Adders : /\ arg[d].o = o /\ HasStored(d)
                                 /\ k \in Range(arg[d].ds)
          BY <3>1, <4>1 DEF Origins
        <5>2. QED  BY <1>2, <3>2, <5>1
      <4>2. CASE k \notin directDeps[o]
        <5>1. directDeps'[o] # directDeps[o]  BY <3>5, <4>2
        <5>2. arg'[c].o = o  BY <5>1
        <5>3. HasStored(c)' /\ k \in Range(arg'[c].ds)  BY <3>5, <4>2, <5>1
        <5>4. QED  BY <5>2, <5>3
      <4>3. QED  BY <4>1, <4>2
    <3>6. QED  BY <3>3, <3>4, <3>5 DEF Origins, Range
  <2>4. QED  BY <2>1, <2>2, <2>3 DEF RegisteredAsGiven
<1>7. PanicsAreFounded'  BY <1>4 DEF PanicsAreFounded
<1>8. NoMaestroIsLost'
  BY DEF RegistryInductive, NoMaestroIsLost, globalVars
<1>9. QED  BY <1>5, <1>6, <1>7, <1>8 DEF RegistryInductive

LEMMA BeginHolds ==
  ASSUME RegistryInductive, NEW c \in Adders, Begin(c)
  PROVE  RegistryInductive'
<1>1. PICK r \in Calls : arg' = [arg EXCEPT ![c] = r]
  BY MayAddAssumption DEF Begin, Calls, RegistryInductive, RegistryTypeOK
<1>2. /\ pc[c] = "idle" /\ pc' = [pc EXCEPT ![c] = "lock"]
      /\ UNCHANGED <<lock, registry, err, baseVars, globalVars>>
  BY DEF Begin, Goto
<1>3. RegistryTypeOK /\ arg[c] = NoCall
  BY <1>2 DEF RegistryInductive, Exclusive
<1>4. RegistryTypeOK'
  BY <1>1, <1>2, <1>3, CallersAssumption
     DEF RegistryTypeOK, AdderPCs, baseVars, globalVars
<1>5. arg'[c] = r /\ pc'[c] = "lock" /\ r # NoCall /\ err'[c] = None
  BY <1>1, <1>2, <1>3, NoCallIsNone
     DEF RegistryTypeOK, RegistryInductive, Exclusive
<1>6. \A d \in Adders \ {c} :
        pc'[d] = pc[d] /\ err'[d] = err[d] /\ arg'[d] = arg[d]
  BY <1>1, <1>2, <1>3 DEF RegistryTypeOK
<1>7. \A w \in Swappers : pc'[w] = pc[w]
  BY <1>2, <1>3, CallersAssumption DEF RegistryTypeOK
<1>8. Exclusive'
  BY <1>2, <1>5, <1>6, <1>7
     DEF RegistryInductive, Exclusive, Holds, globalVars
<1>9. ConfiguredFor(c)'
  <2>1. ASSUME Once(r.o)' PROVE directDeps'[r.o] = {}
    <3>1. \A d \in Adders : arg[d].o # r.o
      BY <1>3, <1>5, <1>6, <2>1, NoneAssumption DEF Once, NoCall, Calls
    <3>2. r.o \in Objects  BY DEF Calls
    <3>3. directDeps[r.o] = {}
      BY <3>1, <3>2 DEF RegistryInductive, RegisteredAsGiven, Origins
    <3>4. QED  BY <1>2, <3>3 DEF baseVars
  <2>2. QED  BY <1>5, <2>1 DEF ConfiguredFor, Once
<1>10. ~Registered(c)' /\ ~Registered(c) /\ ~HasStored(c)
  BY <1>2, <1>5 DEF Registered, HasStored
<1>11. QED
  BY <1>1, <1>2, <1>3, <1>4, <1>5, <1>6, <1>7, <1>8, <1>9, <1>10, CallerStep
     DEF baseVars

LEMMA LockHolds ==
  ASSUME RegistryInductive, NEW c \in Adders, Lock(c)
  PROVE  RegistryInductive'
<1>1. /\ pc[c] = "lock" /\ lock[arg[c].m] = None
      /\ lock' = [lock EXCEPT ![arg[c].m] = c]
      /\ pc' = [pc EXCEPT ![c] = "check"]
      /\ UNCHANGED <<registry, arg, err, baseVars, globalVars>>
  BY DEF Lock, Goto
<1>2. /\ RegistryTypeOK /\ arg[c].m \in Maestros
      /\ arg[c] # NoCall /\ err[c] = None
  BY <1>1, ArgTyped DEF RegistryInductive, Exclusive
<1>3. RegistryTypeOK'
  BY <1>1, <1>2, CallersAssumption
     DEF RegistryTypeOK, AdderPCs, baseVars, globalVars
<1>4. /\ pc'[c] = "check"
      /\ \A d \in Adders \ {c} : pc'[d] = pc[d]
      /\ \A w \in Swappers : pc'[w] = pc[w]
  BY <1>1, <1>2, CallersAssumption DEF RegistryTypeOK
<1>5. Exclusive'
  <2>1. \A d \in Adders : Holds(d)' => lock'[arg[d].m] = d
    BY <1>1, <1>2, <1>4, ArgTyped, NoneAssumption
       DEF RegistryInductive, RegistryTypeOK, Exclusive, Holds
  <2>2. QED
    BY <1>1, <1>2, <1>4, <2>1
       DEF RegistryInductive, Exclusive, Holds, globalVars
<1>6. ConfiguredFor(c)'
  BY <1>1, <1>4
     DEF RegistryInductive, Configured, ConfiguredFor, Once, baseVars
<1>7. ~Registered(c)' /\ ~Registered(c) /\ ~HasStored(c)
  BY <1>1, <1>4 DEF Registered, HasStored
<1>8. QED
  BY <1>1, <1>2, <1>3, <1>4, <1>5, <1>6, <1>7, CallerStep DEF baseVars

LEMMA CheckHolds ==
  ASSUME RegistryInductive, NEW c \in Adders, Check(c)
  PROVE  RegistryInductive'
<1> DEFINE Taken == registry[arg[c].m][arg[c].n] # None
<1>1. /\ pc[c] = "check"
      /\ UNCHANGED <<lock, registry, arg, baseVars, globalVars>>
      /\ \/ Taken /\ Panic(c, "AlreadyExists")
         \/ arg[c].o \in Baseless /\ Panic(c, "WithoutBase")
         \/ ~Taken /\ Goto(c, "name") /\ UNCHANGED err
  BY DEF Check
<1>2. /\ RegistryTypeOK /\ arg[c] # NoCall /\ err[c] = None
      /\ arg[c].m \in Maestros /\ arg[c].n \in Names /\ arg[c].o \in Objects
      /\ lock[arg[c].m] = c
  BY <1>1, ArgTyped DEF RegistryInductive, Exclusive, Holds
<1>3. RegistryTypeOK'
  BY <1>1, <1>2, CallersAssumption, ZenonT(30)
     DEF RegistryTypeOK, AdderPCs, baseVars, globalVars, Panic, Goto, Kinds
<1>4. /\ \/ pc'[c] = "panic" /\ err'[c] # None
         \/ pc'[c] = "name" /\ err'[c] = None /\ ~Taken
      /\ \A d \in Adders \ {c} : pc'[d] = pc[d] /\ err'[d] = err[d]
      /\ \A w \in Swappers : pc'[w] = pc[w]
  BY <1>1, <1>2, CallersAssumption, NoneAssumption
     DEF RegistryTypeOK, Panic, Goto, Kinds
<1>5. Exclusive'
  BY <1>1, <1>2, <1>4
     DEF RegistryInductive, Exclusive, Holds, globalVars
<1>6. ConfiguredFor(c)'
  BY <1>1, <1>4
     DEF RegistryInductive, Configured, ConfiguredFor, Once, baseVars
<1>7. ~Registered(c)' /\ ~Registered(c) /\ ~HasStored(c)
  BY <1>1, <1>4 DEF Registered, HasStored
<1>8. ASSUME err'[c] # None PROVE Founded(c)'
  <2>1. \/ Taken /\ err'[c] = "AlreadyExists"
        \/ arg[c].o \in Baseless /\ err'[c] = "WithoutBase"
    BY <1>1, <1>2, <1>8 DEF Panic, RegistryTypeOK
  <2>2. CASE Taken /\ err'[c] = "AlreadyExists"
    <3>1. PICK d \in Adders : Registered(d) /\ arg[d].m = arg[c].m
                                            /\ arg[d].n = arg[c].n
      BY <1>2, <2>2 DEF RegistryInductive, RegisteredAsGiven
    <3>2. Registered(d)' /\ arg' = arg
      BY <1>1, <1>4, <1>7, <3>1 DEF Registered
    <3>3. QED  BY <2>2, <3>1, <3>2 DEF Founded
  <2>3. CASE arg[c].o \in Baseless /\ err'[c] = "WithoutBase"
    BY <1>1, <2>3 DEF Founded
  <2>4. QED  BY <2>1, <2>2, <2>3
<1>9. QED
  BY <1>1, <1>2, <1>3, <1>4, <1>5, <1>6, <1>7, <1>8, CallerStep DEF baseVars

LEMMA SetNameHolds ==
  ASSUME RegistryInductive, NEW c \in Adders, SetName(c)
  PROVE  RegistryInductive'
<1>1. /\ pc[c] = "name" /\ pc' = [pc EXCEPT ![c] = "conf"]
      /\ name' = [name EXCEPT ![arg[c].o] = arg[c].n]
      /\ UNCHANGED <<callVars, conf, directDeps, globalVars>>
  BY DEF SetName, Goto
<1>2. /\ RegistryTypeOK /\ arg[c] # NoCall /\ err[c] = None
      /\ arg[c].n \in Names /\ arg[c].o \in Objects
  BY <1>1, ArgTyped DEF RegistryInductive, Exclusive
<1>3. RegistryTypeOK'
  BY <1>1, <1>2, CallersAssumption
     DEF RegistryTypeOK, AdderPCs, callVars, globalVars
<1>4. /\ pc'[c] = "conf"
      /\ \A d \in Adders \ {c} : pc'[d] = pc[d]
      /\ \A w \in Swappers : pc'[w] = pc[w]
      /\ name'[arg[c].o] = arg[c].n
      /\ \A o \in Objects : o # arg[c].o => name'[o] = name[o]
  BY <1>1, <1>2, CallersAssumption DEF RegistryTypeOK
<1>5. Exclusive'
  BY <1>1, <1>2, <1>4
     DEF RegistryInductive, Exclusive, Holds, callVars, globalVars
<1>6. ConfiguredFor(c)'
  BY <1>1, <1>4
     DEF RegistryInductive, Configured, ConfiguredFor, Once, callVars
<1>7. ~Registered(c)' /\ ~Registered(c) /\ ~HasStored(c)
  BY <1>1, <1>4 DEF Registered, HasStored
<1>8. QED
  BY <1>1, <1>2, <1>3, <1>4, <1>5, <1>6, <1>7, CallerStep DEF callVars

LEMMA SetConfHolds ==
  ASSUME RegistryInductive, NEW c \in Adders, SetConf(c)
  PROVE  RegistryInductive'
<1>1. /\ pc[c] = "conf" /\ pc' = [pc EXCEPT ![c] = "deps"]
      /\ conf' = [conf EXCEPT ![arg[c].o] = c]
      /\ UNCHANGED <<callVars, name, directDeps, globalVars>>
  BY DEF SetConf, Goto
<1>2. /\ RegistryTypeOK /\ arg[c] # NoCall /\ err[c] = None
      /\ arg[c].o \in Objects
  BY <1>1, ArgTyped DEF RegistryInductive, Exclusive
<1>3. RegistryTypeOK'
  BY <1>1, <1>2, CallersAssumption
     DEF RegistryTypeOK, AdderPCs, callVars, globalVars
<1>4. /\ pc'[c] = "deps"
      /\ \A d \in Adders \ {c} : pc'[d] = pc[d]
      /\ \A w \in Swappers : pc'[w] = pc[w]
      /\ conf'[arg[c].o] = c
      /\ \A o \in Objects : o # arg[c].o => conf'[o] = conf[o]
  BY <1>1, <1>2, CallersAssumption DEF RegistryTypeOK
<1>5. Exclusive'
  BY <1>1, <1>2, <1>4
     DEF RegistryInductive, Exclusive, Holds, callVars, globalVars
<1>6. ConfiguredFor(c)'
  BY <1>1, <1>4
     DEF RegistryInductive, Configured, ConfiguredFor, Once, callVars
<1>7. ~Registered(c)' /\ ~Registered(c) /\ ~HasStored(c)
  BY <1>1, <1>4 DEF Registered, HasStored
<1>8. QED
  BY <1>1, <1>2, <1>3, <1>4, <1>5, <1>6, <1>7, CallerStep DEF callVars

LEMMA AddDependencyHolds ==
  ASSUME RegistryInductive, NEW c \in Adders, AddDependency(c)
  PROVE  RegistryInductive'
<1> DEFINE o == arg[c].o
           ds == arg[c].ds
           Through ==
             Stored(c) = DOMAIN ds /\ Goto(c, "insert") /\ UNCHANGED err
           Fails(i) ==
             /\ i \in DOMAIN ds \ Stored(c) /\ 1..(i - 1) \subseteq Stored(c)
             /\ Panic(c, IF Itself(c, i) THEN "DependsOnItself"
                                         ELSE "DuplicateDependency")
<1>1. /\ pc[c] = "deps" /\ Store(c, Stored(c))
      /\ Through \/ \E i \in DOMAIN ds : Fails(i)
      /\ UNCHANGED <<lock, registry, arg, name, conf, globalVars>>
  BY DEF AddDependency
<1>2. /\ RegistryTypeOK /\ arg[c] # NoCall /\ err[c] = None
      /\ o \in Objects /\ ds \in Seq(Names)
      /\ ConfiguredFor(c)
  BY <1>1, ArgTyped DEF RegistryInductive, Exclusive, Configured
<1>3. /\ {ds[i] : i \in Stored(c)} \subseteq Range(ds)
      /\ Range(ds) \subseteq Names
  BY <1>2 DEF Stored, Range
<1>4. directDeps' = [directDeps EXCEPT ![o] = @ \cup {ds[i] : i \in Stored(c)}]
  BY <1>1 DEF Store
<1>5. /\ directDeps' \in [Objects -> SUBSET Names]
      /\ directDeps'[o] = directDeps[o] \cup {ds[i] : i \in Stored(c)}
      /\ \A x \in Objects : x # o => directDeps'[x] = directDeps[x]
  BY <1>2, <1>3, <1>4 DEF RegistryTypeOK
<1>6. \/ Through /\ pc' = [pc EXCEPT ![c] = "insert"] /\ err' = err
      \/ /\ \E i \in DOMAIN ds : Fails(i)
         /\ pc' = [pc EXCEPT ![c] = "panic"]
         /\ \E k \in Kinds : err' = [err EXCEPT ![c] = k]
  BY <1>1 DEF Goto, Panic, Kinds
<1>7. RegistryTypeOK'
  <2>1. pc' \in [Adders \cup Swappers -> AdderPCs \cup SwapperPCs]
        /\ (\A d \in Adders : pc'[d] \in AdderPCs)
        /\ (\A w \in Swappers : pc'[w] \in SwapperPCs)
    BY <1>2, <1>6, CallersAssumption DEF RegistryTypeOK, AdderPCs
  <2>2. err' \in [Adders -> Kinds \cup {None}]
    BY <1>2, <1>6 DEF RegistryTypeOK
  <2>3. QED  BY <1>1, <1>2, <1>5, <2>1, <2>2 DEF RegistryTypeOK, globalVars
<1>8. /\ \/ pc'[c] = "panic" /\ err'[c] # None
         \/ pc'[c] = "insert" /\ err'[c] = None /\ Through
      /\ \A d \in Adders \ {c} : pc'[d] = pc[d] /\ err'[d] = err[d]
      /\ \A w \in Swappers : pc'[w] = pc[w]
  BY <1>2, <1>6, CallersAssumption, NoneAssumption DEF RegistryTypeOK
<1>9. Exclusive'
  BY <1>1, <1>2, <1>8
     DEF RegistryInductive, Exclusive, Holds, globalVars
<1>10. ConfiguredFor(c)'
  <2>1. ASSUME Through
        PROVE  /\ Range(ds) = {ds[i] : i \in Stored(c)}
               /\ name[o] \notin Range(ds)
    BY <1>2, <2>1 DEF Stored, Itself, Range
  <2>2. ASSUME pc'[c] = "insert", Once(o)
        PROVE  /\ name[o] = arg[c].n /\ conf[o] = c
               /\ directDeps'[o] = Range(ds) /\ arg[c].n \notin Range(ds)
    BY <1>1, <1>2, <1>5, <1>8, <2>1, <2>2 DEF ConfiguredFor
  <2>3. pc'[c] = "insert" => Range(ds) \subseteq directDeps'[o]
    BY <1>5, <1>8, <2>1
  <2>4. QED  BY <1>1, <1>8, <2>2, <2>3 DEF ConfiguredFor, Once, Range
<1>11. ASSUME err'[c] # None PROVE Founded(c)'
  <2>1. PICK i \in DOMAIN ds : Fails(i)  BY <1>8, <1>6, <1>11, <1>2
  <2>2. err'[c] = IF Itself(c, i) THEN "DependsOnItself"
                                  ELSE "DuplicateDependency"
    BY <1>2, <2>1 DEF Panic, RegistryTypeOK
  <2>3. \A d \in Adders : HasStored(d) => HasStored(d)' /\ d # c
    BY <1>1, <1>8 DEF HasStored
  <2>4. Origins(o) /\ i \in 1..Len(ds) /\ ds[i] \in Names
    BY <1>2 DEF RegistryInductive, RegisteredAsGiven
  <2>5. CASE Itself(c, i)
    <3>1. PICK d \in Adders : arg[d].o = o /\ arg[d].n = ds[i]
      BY <2>4, <2>5, NoneAssumption DEF Origins, Itself
    <3>2. ds[i] \in Range(ds)  BY DEF Range
    <3>3. QED  BY <1>1, <2>2, <2>5, <3>1, <3>2 DEF Founded, Range
  <2>6. CASE ~Itself(c, i)
    <3>1. PICK k \in 1..i : Itself(c, k) \/ Again(c, k)  BY <2>1 DEF Stored
    <3>2. /\ i \in Nat /\ DOMAIN ds = 1..Len(ds) /\ Len(ds) \in Nat
      BY <1>2
    <3>3. k = i
      <4>1. SUFFICES ASSUME k # i PROVE FALSE  OBVIOUS
      <4>2. k \in 1..(i - 1) /\ k \in 1..k  BY <3>2, <4>1
      <4>3. k \in Stored(c)  BY <2>1, <4>2
      <4>4. QED  BY <3>1, <4>2, <4>3 DEF Stored
    <3>4. Again(c, i)  BY <2>6, <3>1, <3>3
    <3>5. CASE ds[i] \in directDeps[o]
      <4>1. PICK d \in Adders : /\ arg[d].o = o /\ HasStored(d)
                               /\ ds[i] \in Range(arg[d].ds)
        BY <2>4, <3>5 DEF Origins
      <4>2. ds[i] \in Range(arg[d].ds) \cap Range(ds)  BY <4>1 DEF Range
      <4>3. QED  BY <1>1, <2>2, <2>3, <2>6, <4>1, <4>2 DEF Founded, Range
    <3>6. CASE \E j \in 1..(i - 1) : ds[j] = ds[i]
      <4>1. PICK j \in 1..(i - 1) : ds[j] = ds[i]  BY <3>6
      <4>2. j \in DOMAIN ds /\ j # i  BY <2>4, <3>2, <4>1
      <4>3. QED  BY <1>1, <2>2, <2>6, <4>1, <4>2 DEF Founded
    <3>7. QED  BY <3>4, <3>5, <3>6 DEF Again
  <2>7. QED  BY <2>5, <2>6
<1>12. ~Registered(c)' /\ ~Registered(c) /\ ~HasStored(c) /\ HasStored(c)'
  BY <1>1, <1>8 DEF Registered, HasStored
<1>13. \A x \in Objects :
         /\ directDeps[x] \subseteq directDeps'[x]
         /\ directDeps'[x] # directDeps[x] =>
              directDeps'[x] \subseteq directDeps[x] \cup Range(arg'[c].ds)
  BY <1>1, <1>3, <1>5
<1>14. QED
  BY <1>1, <1>2, <1>5, <1>7, <1>8, <1>9, <1>10, <1>11, <1>12, <1>13,
     CallerStep

LEMMA InsertHolds ==
  ASSUME RegistryInductive, NEW c \in Adders, Insert(c)
  PROVE  RegistryInductive'
<1> DEFINE m == arg[c].m
           n == arg[c].n
<1>1. /\ pc[c] = "insert" /\ pc' = [pc EXCEPT ![c] = "unlock"]
      /\ registry' = [registry EXCEPT ![m][n] = arg[c].o]
      /\ UNCHANGED <<lock, arg, err, baseVars, globalVars>>
  BY DEF Insert, Goto
<1>2. /\ RegistryTypeOK /\ arg[c] # NoCall /\ err[c] = None
      /\ m \in Maestros /\ n \in Names /\ arg[c].o \in Objects
      /\ lock[m] = c /\ registry[m][n] = None /\ ConfiguredFor(c)
  BY <1>1, ArgTyped DEF RegistryInductive, Exclusive, Holds, Configured
<1>3. RegistryTypeOK'
  BY <1>1, <1>2, CallersAssumption
     DEF RegistryTypeOK, AdderPCs, baseVars, globalVars
<1>4. /\ pc'[c] = "unlock"
      /\ \A d \in Adders \ {c} : pc'[d] = pc[d]
      /\ \A w \in Swappers : pc'[w] = pc[w]
  BY <1>1, <1>2, CallersAssumption DEF RegistryTypeOK
<1>5. /\ registry'[m][n] = arg[c].o
      /\ \A k \in Maestros, l \in Names :
           k # m \/ l # n => registry'[k][l] = registry[k][l]
  BY <1>1, <1>2 DEF RegistryTypeOK
<1>6. Exclusive'
  <2>1. ASSUME NEW d \in Adders, pc'[d] \in {"name", "conf", "deps", "insert"}
        PROVE  registry'[arg[d].m][arg[d].n] = None
    <3>1. /\ d # c /\ pc'[d] = pc[d] /\ lock[arg[d].m] = d
          /\ registry[arg[d].m][arg[d].n] = None
      BY <1>4, <2>1 DEF RegistryInductive, Exclusive, Holds
    <3>2. arg[d].m \in Maestros /\ arg[d].n \in Names  BY <2>1, <3>1, ArgTyped
    <3>3. QED  BY <1>2, <1>5, <3>1, <3>2
  <2>2. QED
    BY <1>1, <1>2, <1>4, <2>1
       DEF RegistryInductive, Exclusive, Holds, globalVars
<1>7. ConfiguredFor(c)'  BY <1>4 DEF ConfiguredFor
<1>8. AsGiven(c)'
  BY <1>1, <1>2, <1>5 DEF AsGiven, ConfiguredFor, Once, Range, baseVars
<1>9. ~Registered(c) /\ Registered(c)' /\ HasStored(c)'
  BY <1>1, <1>4 DEF Registered, HasStored
<1>10. QED
  BY <1>1, <1>2, <1>3, <1>4, <1>5, <1>6, <1>7, <1>8, <1>9, CallerStep
     DEF baseVars

LEMMA UnlockHolds ==
  ASSUME RegistryInductive, NEW c \in Adders, Unlock(c)
  PROVE  RegistryInductive'
<1>1. /\ \/ pc[c] = "unlock" /\ pc' = [pc EXCEPT ![c] = "done"]
         \/ pc[c] = "panic" /\ pc' = [pc EXCEPT ![c] = "recovered"]
      /\ lock' = [lock EXCEPT ![arg[c].m] = None]
      /\ UNCHANGED <<registry, arg, err, baseVars, globalVars>>
  BY DEF Unlock, Goto
<1>2. /\ RegistryTypeOK /\ arg[c] # NoCall /\ arg[c].m \in Maestros
      /\ lock[arg[c].m] = c
  BY <1>1, ArgTyped DEF RegistryInductive, Exclusive, Holds
<1>3. RegistryTypeOK'
  BY <1>1, <1>2, CallersAssumption, ZenonT(30)
     DEF RegistryTypeOK, AdderPCs, baseVars, globalVars
<1>4. /\ \/ pc[c] = "unlock" /\ pc'[c] = "done"
         \/ pc[c] = "panic" /\ pc'[c] = "recovered"
      /\ \A d \in Adders \ {c} : pc'[d] = pc[d]
      /\ \A w \in Swappers : pc'[w] = pc[w]
  BY <1>1, <1>2, CallersAssumption DEF RegistryTypeOK
<1>5. Exclusive'
  <2>1. \A d \in Adders : Holds(d)' => lock'[arg[d].m] = d
    BY <1>1, <1>2, <1>4, ArgTyped
       DEF RegistryInductive, RegistryTypeOK, Exclusive, Holds
  <2>2. QED
    BY <1>1, <1>2, <1>4, <2>1
       DEF RegistryInductive, Exclusive, Holds, globalVars
<1>6. ConfiguredFor(c)'  BY <1>4 DEF ConfiguredFor
<1>7. /\ Registered(c)' => AsGiven(c)'
      /\ Registered(c) => Registered(c)'
      /\ HasStored(c) => HasStored(c)'
      /\ err'[c] # None => Founded(c)'
  <2>1. Registered(c)' <=> Registered(c)  BY <1>4 DEF Registered
  <2>2. \A d \in Adders : /\ Registered(d)' <=> Registered(d)
                          /\ HasStored(d)' <=> HasStored(d)
    BY <1>4, <2>1 DEF Registered, HasStored
  <2>3. AsGiven(c)' <=> AsGiven(c)
    BY <1>1 DEF AsGiven, Once, Range, baseVars
  <2>4. Founded(c)' <=> Founded(c)
    BY <1>1, <2>2 DEF Founded
  <2>5. QED
    BY <1>1, <2>1, <2>2, <2>3, <2>4
       DEF RegistryInductive, RegisteredAsGiven, PanicsAreFounded
<1>8. QED
  BY <1>1, <1>2, <1>3, <1>4, <1>5, <1>6, <1>7, CallerStep DEF baseVars

-----------------------------------------------------------------------------
(* The steps of ReplaceGlobalMaestro *)

(* Nothing that is said of registrations is changed by them. *)
LEMMA SwapperStep ==
  ASSUME RegistryInductive, RegistryTypeOK', UNCHANGED <<callVars, baseVars>>,
         \A c \in Adders : pc'[c] = pc[c],
         \A w \in Swappers : /\ pc'[w] \in {"read", "write"} => gmLock' = w
                             /\ pc'[w] = "write" => cur'[w] = gm',
         NoMaestroIsLost'
  PROVE  RegistryInductive'
<1>1. Exclusive'
  BY DEF RegistryInductive, Exclusive, Holds, callVars
<1>2. Configured'
  <2>1. \A c \in Adders : ConfiguredFor(c)' <=> ConfiguredFor(c)
    BY DEF ConfiguredFor, Once, Range, callVars, baseVars
  <2>2. QED
    BY <2>1 DEF RegistryInductive, Configured, callVars, baseVars
<1>3. \A c \in Adders : /\ Registered(c)' <=> Registered(c)
                        /\ HasStored(c)' <=> HasStored(c)
                        /\ AsGiven(c)' <=> AsGiven(c)
  BY DEF Registered, HasStored, AsGiven, Once, Range, callVars, baseVars
<1>4. \A c \in Adders : Founded(c)' <=> Founded(c)
  BY <1>3 DEF Founded, callVars
<1>5. RegisteredAsGiven'
  <2>1. \A o \in Objects : Origins(o)' <=> Origins(o)
    BY <1>3 DEF Origins, Range, callVars, baseVars
  <2>2. QED
    BY <1>3, <2>1 DEF RegistryInductive, RegisteredAsGiven, callVars
<1>6. PanicsAreFounded'
  BY <1>4 DEF RegistryInductive, PanicsAreFounded, callVars
<1>7. QED  BY <1>1, <1>2, <1>5, <1>6 DEF RegistryInductive

LEMMA ReplaceHolds ==
  ASSUME RegistryInductive, NEW w \in Swappers, ReplaceGlobalMaestro(w)
  PROVE  RegistryInductive'
<1>1. /\ RegistryTypeOK /\ NoMaestroIsLost
      /\ \A v \in Swappers : /\ pc[v] \in {"read", "write"} => gmLock = v
                             /\ pc[v] = "write" => cur[v] = gm
  BY DEF RegistryInductive, Exclusive
<1>2. CASE GmLock(w)
  <2>1. /\ gmLock = None /\ gmLock' = w /\ pc' = [pc EXCEPT ![w] = "read"]
        /\ UNCHANGED <<callVars, baseVars, gm, cur, held>>
    BY <1>2 DEF GmLock, Goto
  <2>2. RegistryTypeOK'
    BY <1>1, <2>1, CallersAssumption
       DEF RegistryTypeOK, SwapperPCs, callVars, baseVars
  <2>3. /\ pc'[w] = "read"
        /\ \A c \in Adders : pc'[c] = pc[c]
        /\ \A v \in Swappers \ {w} : pc'[v] = pc[v]
    BY <1>1, <2>1, CallersAssumption DEF RegistryTypeOK
  <2>4. \A v \in Swappers : /\ pc'[v] \in {"read", "write"} => gmLock' = v
                            /\ pc'[v] = "write" => cur'[v] = gm'
    BY <1>1, <2>1, <2>3, NoneAssumption
  <2>5. NoMaestroIsLost'  BY <1>1, <2>1 DEF NoMaestroIsLost
  <2>6. QED  BY <2>1, <2>2, <2>3, <2>4, <2>5, SwapperStep
<1>3. CASE GmRead(w)
  <2>1. /\ pc[w] = "read" /\ pc' = [pc EXCEPT ![w] = "write"]
        /\ cur' = [cur EXCEPT ![w] = gm]
        /\ UNCHANGED <<callVars, baseVars, gm, gmLock, held>>
    BY <1>3 DEF GmRead, Goto
  <2>2. RegistryTypeOK'
    BY <1>1, <2>1, CallersAssumption
       DEF RegistryTypeOK, SwapperPCs, callVars, baseVars
  <2>3. /\ pc'[w] = "write" /\ cur'[w] = gm
        /\ \A c \in Adders : pc'[c] = pc[c]
        /\ \A v \in Swappers \ {w} : pc'[v] = pc[v] /\ cur'[v] = cur[v]
    BY <1>1, <2>1, CallersAssumption DEF RegistryTypeOK
  <2>4. \A v \in Swappers : /\ pc'[v] \in {"read", "write"} => gmLock' = v
                            /\ pc'[v] = "write" => cur'[v] = gm'
    BY <1>1, <2>1, <2>3
  <2>5. NoMaestroIsLost'  BY <1>1, <2>1 DEF NoMaestroIsLost
  <2>6. QED  BY <2>1, <2>2, <2>3, <2>4, <2>5, SwapperStep
<1>4. CASE GmWrite(w)
  <2>1. /\ pc[w] = "write" /\ pc' = [pc EXCEPT ![w] = "done"]
        /\ gm' = held[w] /\ held' = [held EXCEPT ![w] = cur[w]]
        /\ gmLock' = None /\ UNCHANGED <<callVars, baseVars, cur>>
    BY <1>4 DEF GmWrite, Goto
  <2>2. cur[w] = gm /\ gmLock = w  BY <1>1, <2>1
  <2>3. RegistryTypeOK'
    BY <1>1, <2>1, <2>2, CallersAssumption
       DEF RegistryTypeOK, SwapperPCs, callVars, baseVars
  <2>4. /\ pc'[w] = "done" /\ held'[w] = gm
        /\ \A c \in Adders : pc'[c] = pc[c]
        /\ \A v \in Swappers \ {w} : pc'[v] = pc[v] /\ held'[v] = held[v]
    BY <1>1, <2>1, <2>2, CallersAssumption DEF RegistryTypeOK
  <2>5. \A v \in Swappers : pc'[v] \notin {"read", "write"}
    BY <1>1, <2>2, <2>4
  <2>6. NoMaestroIsLost'  BY <1>1, <2>1, <2>4 DEF NoMaestroIsLost
  <2>7. QED  BY <2>1, <2>3, <2>4, <2>5, <2>6, SwapperStep
<1>5. QED  BY <1>2, <1>3, <1>4 DEF ReplaceGlobalMaestro

-----------------------------------------------------------------------------
(* The theorems *)

(* What a registration relies on holds at each step of it, whoever else    *)
(* registers, panics or replaces the global Maestro (AddService).          *)
THEOREM RegistryHolds == Spec => []RegistryInductive
<1>1. RegistryInductive /\ [Next]_vars => RegistryInductive'
  <2> SUFFICES ASSUME RegistryInductive, [Next]_vars PROVE RegistryInductive'
    OBVIOUS
  <2>1. ASSUME NEW c \in Adders, Begin(c) \/ AddService(c)
        PROVE  RegistryInductive'
    BY <2>1, BeginHolds, LockHolds, CheckHolds, SetNameHolds, SetConfHolds,
       AddDependencyHolds, InsertHolds, UnlockHolds DEF AddService
  <2>2. ASSUME NEW w \in Swappers, ReplaceGlobalMaestro(w)
        PROVE  RegistryInductive'
    BY <2>2, ReplaceHolds
  <2>3. CASE UNCHANGED vars
    <3>1. RegistryTypeOK'
      BY <2>3 DEF RegistryInductive, RegistryTypeOK, vars, callVars, baseVars,
                  globalVars
    <3>2. NoMaestroIsLost'
      BY <2>3 DEF RegistryInductive, NoMaestroIsLost, vars, globalVars
    <3>3. QED
      BY <2>3, <3>1, <3>2, SwapperStep
         DEF RegistryInductive, Exclusive, vars, globalVars
  <2>4. QED  BY <2>1, <2>2, <2>3 DEF Next
<1>2. QED  BY InitHolds, <1>1, PTL DEF Spec

(* Services stay registered as their callers have asked for.               *)
THEOREM RegistrationsLast == Spec => []RegisteredAsGiven
<1>1. RegistryInductive => RegisteredAsGiven  BY DEF RegistryInductive
<1>2. QED  BY <1>1, RegistryHolds, PTL

(* AddService only panics for the reason it gives. *)
THEOREM PanicsAreTrue == Spec => []PanicsAreFounded
<1>1. RegistryInductive => PanicsAreFounded  BY DEF RegistryInductive
<1>2. QED  BY <1>1, RegistryHolds, PTL

(* ReplaceGlobalMaestro hands each Maestro back to one caller at most. *)
THEOREM MaestrosAreKept == Spec => []NoMaestroIsLost
<1>1. RegistryInductive => NoMaestroIsLost  BY DEF RegistryInductive
<1>2. QED  BY <1>1, RegistryHolds, PTL

(* start and stop wait along the same edges, unless an object has been     *)
(* registered twice.                                                       *)
THEOREM WaitsMirror == Spec => []ShutdownMirrorsBoot
<1>1. ASSUME RegistryInductive PROVE ShutdownMirrorsBoot
  <2> SUFFICES ASSUME NEW m \in Maestros, \A s \in Members(m) : Once(s)
               PROVE  BootWaits(m) = StopWaits(m)
    BY DEF ShutdownMirrorsBoot
  <2>1. ASSUME NEW n \in Names, registry[m][n] # None
        PROVE  name[registry[m][n]] = n
    <3>1. PICK c \in Adders : Registered(c) /\ arg[c].m = m /\ arg[c].n = n
      BY <1>1, <2>1 DEF RegistryInductive, RegisteredAsGiven
    <3>2. AsGiven(c)  BY <1>1, <3>1 DEF RegistryInductive, RegisteredAsGiven
    <3>3. Once(registry[m][n])  BY <2>1 DEF Members
    <3>4. QED  BY <3>1, <3>2, <3>3 DEF AsGiven
  <2>2. ASSUME NEW s \in Members(m), NEW t \in Members(m)
        PROVE  (\E d \in directDeps[s] : registry[m][d] = t)
                 <=> name[t] \in directDeps[s]
    <3>1. directDeps[s] \subseteq Names /\ t # None
      BY <1>1, NoneAssumption
         DEF RegistryInductive, RegistryTypeOK, Members
    <3>2. PICK n \in Names : registry[m][n] = t  BY DEF Members
    <3>3. QED  BY <2>1, <3>1, <3>2
  <2>3. QED  BY <2>2 DEF BootWaits, StopWaits
<1>2. QED  BY <1>1, RegistryHolds, PTL

-----------------------------------------------------------------------------
(* Registration as DependencyOrder sees it *)

LEMMA SameOrder ==
  ASSUME NEW m \in Maestros, UNCHANGED registry,
         \A n \in Names : registry[m][n] # None =>
           directDeps'[registry[m][n]] = directDeps[registry[m][n]]
  PROVE  UNCHANGED Order(m)!orderVars
<1>1. DepsOf(m)' = DepsOf(m)  BY DEF DepsOf
<1>2. QED  BY <1>1 DEF Order!orderVars

LEMMA InsertDeclares ==
  ASSUME RegistryInductive, NEW c \in Adders, Insert(c), NEW m \in Maestros,
         \A o \in Objects : Once(o)
  PROVE  [Order(m)!OrderNext]_(Order(m)!orderVars)
<1> DEFINE n == arg[c].n
           o == arg[c].o
<1>1. /\ pc[c] = "insert" /\ UNCHANGED directDeps
      /\ registry' = [registry EXCEPT ![arg[c].m][n] = o]
  BY DEF Insert, baseVars
<1>2. /\ RegistryTypeOK /\ n \in Names /\ o \in Objects
      /\ arg[c].m \in Maestros /\ registry[arg[c].m][n] = None
  BY <1>1, ArgTyped DEF RegistryInductive, Exclusive
<1>3. CASE arg[c].m # m
  <2>1. registry'[m] = registry[m]  BY <1>1, <1>2, <1>3 DEF RegistryTypeOK
  <2>2. DepsOf(m)' = DepsOf(m)  BY <1>1, <2>1 DEF DepsOf
  <2>3. QED  BY <2>1, <2>2 DEF Order!orderVars
<1>4. CASE arg[c].m = m
  <2>1. /\ registry'[m][n] = o /\ o # None
        /\ \A k \in Names \ {n} : registry'[m][k] = registry[m][k]
    BY <1>1, <1>2, <1>4, NoneAssumption DEF RegistryTypeOK
  <2>2. {k \in Names : registry'[m][k] # None} =
          {k \in Names : registry[m][k] # None} \cup {n}
    BY <1>2, <2>1
  <2>3. PICK l \in Names, ds \in SUBSET Names : l = n /\ ds = directDeps[o]
    BY <1>2 DEF RegistryTypeOK
  <2>4. DepsOf(m)' = [DepsOf(m) EXCEPT ![l] = ds]
    <3>1. \A k \in Names :
            DepsOf(m)'[k] = IF k = l THEN ds ELSE DepsOf(m)[k]
      BY <1>1, <2>1, <2>3 DEF DepsOf
    <3>2. QED  BY <2>3, <3>1 DEF DepsOf
  <2>5. Order(m)!Declare(l, ds)
    BY <1>2, <1>4, <2>2, <2>3, <2>4 DEF Order!Declare
  <2>6. QED  BY <2>5 DEF Order!OrderNext
<1>5. QED  BY <1>3, <1>4

(* The steps of AddService make one step Declare of DependencyOrder: the   *)
(* service is not seen, nor its dependencies touched, before or after.     *)
THEOREM RegistryDeclaresOnly == Spec => DeclaresOnly
<1> DEFINE Declares == (\A o \in Objects : Once(o)) =>
      \A m \in Maestros : [Order(m)!OrderNext]_(Order(m)!orderVars)
<1>1. RegistryInductive /\ [Next]_vars => [Declares]_vars
  <2> SUFFICES ASSUME RegistryInductive, Next, NEW m \in Maestros,
                      \A o \in Objects : Once(o)
               PROVE  [Order(m)!OrderNext]_(Order(m)!orderVars)
    OBVIOUS
  <2>1. CASE UNCHANGED <<registry, directDeps>>  BY <2>1, SameOrder
  <2>2. ASSUME NEW c \in Adders, Insert(c)
        PROVE  [Order(m)!OrderNext]_(Order(m)!orderVars)
    BY <2>2, InsertDeclares
  <2>3. ASSUME NEW c \in Adders, AddDependency(c)
        PROVE  UNCHANGED Order(m)!orderVars
    <3>1. /\ pc[c] = "deps" /\ UNCHANGED registry /\ RegistryTypeOK
          /\ \A o \in Objects \ {arg[c].o} : directDeps'[o] = directDeps[o]
      BY <2>3 DEF AddDependency, Store, RegistryInductive, RegistryTypeOK
    <3>2. ASSUME NEW n \in Names, registry[m][n] # None
          PROVE  registry[m][n] \in Objects \ {arg[c].o}
      <4>1. PICK d \in Adders : Registered(d) /\ arg[d].m = m /\ arg[d].n = n
        BY <3>2 DEF RegistryInductive, RegisteredAsGiven
      <4>2. arg[d].o = registry[m][n] /\ registry[m][n] \in Objects
        BY <3>1, <3>2, <4>1
           DEF RegistryInductive, RegisteredAsGiven, AsGiven, RegistryTypeOK
      <4>3. d # c  BY <3>1, <4>1 DEF Registered
      <4>4. QED  BY <4>2, <4>3 DEF Once
    <3>3. QED  BY <3>1, <3>2, SameOrder
  <2>4. Next => \/ UNCHANGED <<registry, directDeps>>
                \/ \E c \in Adders : Insert(c) \/ AddDependency(c)
    BY DEF Next, Begin, AddService, Lock, Check, SetName, SetConf, Unlock,
           ReplaceGlobalMaestro, GmLock, GmRead, GmWrite, callVars, baseVars
  <2>5. QED  BY <2>1, <2>2, <2>3, <2>4
<1>2. QED  BY <1>1, RegistryHolds, PTL DEF Spec, DeclaresOnly

-----------------------------------------------------------------------------
(* No lock is left behind *)

(* A lock that is taken is that of a call under way, which does not wait   *)
(* for any other.                                                          *)
LocksHaveHolders ==
  /\ \A m \in Maestros : lock[m] # None =>
       /\ lock[m] \in Adders /\ Holds(lock[m])
       /\ arg[lock[m]].m = m
  /\ gmLock # None => gmLock \in Swappers /\ pc[gmLock] \in {"read", "write"}

(* Whatever panics, in any number of calls, the lock of a Maestro is freed *)
(* (defer m.lock.Unlock() in AddServiceWithBackoff), and that of the       *)
(* global Maestro too (ReplaceGlobalMaestro): whoever waits for one waits  *)
(* for a call that holds it and can go on.                                 *)
THEOREM LocksAreFreed == Spec => []LocksHaveHolders
<1> USE DEF LocksHaveHolders
<1>1. Init => LocksHaveHolders  BY DEF Init
<1>2. RegistryInductive /\ LocksHaveHolders /\ [Next]_vars => LocksHaveHolders'
  <2> SUFFICES ASSUME RegistryInductive, LocksHaveHolders, [Next]_vars
               PROVE  LocksHaveHolders'
    OBVIOUS
  <2> USE NoneAssumption, CallersAssumption
      DEF RegistryInductive, RegistryTypeOK, globalVars, Goto
  <2>1. ASSUME NEW c \in Adders, Begin(c) PROVE LocksHaveHolders'
    <3>1. \A d \in Adders : Holds(d) => d # c
      BY <2>1 DEF Begin, Holds
    <3>2. \A d \in Adders : Holds(d) => Holds(d)' /\ arg'[d] = arg[d]
      BY <2>1, <3>1 DEF Begin, Holds
    <3>3. UNCHANGED <<lock, gmLock>> /\ \A w \in Swappers : pc'[w] = pc[w]
      BY <2>1 DEF Begin
    <3>4. QED  BY <3>2, <3>3
  <2>2. ASSUME NEW c \in Adders, Lock(c) PROVE LocksHaveHolders'
    <3>1. \A d \in Adders : Holds(d) => Holds(d)'
      BY <2>2 DEF Lock, Holds
    <3>2. /\ Holds(c)' /\ arg[c].m \in Maestros
          /\ lock' = [lock EXCEPT ![arg[c].m] = c]
      BY <2>2, ArgTyped DEF Lock, Holds
    <3>3. UNCHANGED <<arg, gmLock>> /\ \A w \in Swappers : pc'[w] = pc[w]
      BY <2>2 DEF Lock
    <3>4. QED  BY <3>1, <3>2, <3>3
  <2>3. ASSUME NEW c \in Adders, \/ Check(c) \/ SetName(c) \/ SetConf(c)
                                 \/ AddDependency(c) \/ Insert(c)
        PROVE  LocksHaveHolders'
    <3>1. \A d \in Adders : Holds(d) => Holds(d)'
      BY <2>3
      DEF Check, SetName, SetConf, AddDependency, Insert, Panic, Holds
    <3>2. /\ UNCHANGED <<lock, arg, gmLock>>
          /\ \A w \in Swappers : pc'[w] = pc[w]
      BY <2>3
      DEF Check, SetName, SetConf, AddDependency, Insert, Panic, callVars
    <3>3. QED  BY <3>1, <3>2
  <2>4. ASSUME NEW c \in Adders, Unlock(c) PROVE LocksHaveHolders'
    <3>1. Holds(c) /\ arg[c].m \in Maestros
      BY <2>4, ArgTyped DEF Unlock, Holds
    <3>2. lock[arg[c].m] = c  BY <3>1 DEF Exclusive
    <3>3. lock' = [lock EXCEPT ![arg[c].m] = None]  BY <2>4 DEF Unlock
    <3>4. \A d \in Adders \ {c} : Holds(d) => Holds(d)'
      BY <2>4 DEF Unlock, Holds
    <3>5. UNCHANGED <<arg, gmLock>> /\ \A w \in Swappers : pc'[w] = pc[w]
      BY <2>4 DEF Unlock
    <3>6. ASSUME NEW m \in Maestros, lock'[m] # None
          PROVE  m # arg[c].m /\ lock'[m] = lock[m] /\ lock[m] # c
      BY <3>1, <3>2, <3>3, <3>6
    <3>7. QED  BY <3>4, <3>5, <3>6
  <2>5. ASSUME NEW w \in Swappers, ReplaceGlobalMaestro(w)
        PROVE  LocksHaveHolders'
    <3>1. \A d \in Adders : Holds(d) => Holds(d)'
      BY <2>5 DEF ReplaceGlobalMaestro, GmLock, GmRead, GmWrite, Holds
    <3>2. UNCHANGED <<lock, arg>>
      BY <2>5 DEF ReplaceGlobalMaestro, GmLock, GmRead, GmWrite, callVars
    <3>3. gmLock' # None =>
            gmLock' \in Swappers /\ pc'[gmLock'] \in {"read", "write"}
      BY <2>5 DEF ReplaceGlobalMaestro, GmLock, GmRead, GmWrite
    <3>4. QED  BY <3>1, <3>2, <3>3
  <2>6. CASE UNCHANGED vars
    BY <2>6 DEF vars, callVars, Holds
  <2>7. QED
    BY <2>1, <2>2, <2>3, <2>4, <2>5, <2>6 DEF Next, AddService
<1>3. QED  BY <1>1, <1>2, RegistryHolds, PTL DEF Spec
=============================================================================
