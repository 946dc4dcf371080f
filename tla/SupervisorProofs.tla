-------------------------- MODULE SupervisorProofs --------------------------
(***************************************************************************)
(* Proofs about the supervisor: the types, the invariant that says which   *)
(* process a health row and a round's copy of it belong to, and from it    *)
(* the properties of restarts.                                             *)
(***************************************************************************)
EXTENDS Supervisor, SequenceTheorems, TLAPS

\* What the code leaves to its settings.  A process that is started beats before the
\* watchdog reads the table again, and a round is over before a row that was fresh when
\* it was read is too old.
BootsInTime == MaxBoot < LoopTime
RoundsInTime == MaxLag < KillTime

-----------------------------------------------------------------------------
(* The sequence of a round: each component once. *)

Within(x, s) == \E i \in 1..Len(s) : s[i] = x
Distinct(s) == \A i, j \in 1..Len(s) : s[i] = s[j] => i = j

\* What is left when the first is taken.
LEMMA TakeFirst ==
  ASSUME NEW S, NEW s \in Seq(S), s # <<>>, Distinct(s)
  PROVE  /\ Head(s) \in S /\ Tail(s) \in Seq(S) /\ Distinct(Tail(s))
         /\ \A x : Within(x, Tail(s)) => Within(x, s) /\ x # Head(s)
<1>1. /\ Head(s) \in S /\ Tail(s) \in Seq(S) /\ Len(s) \in Nat /\ Len(s) > 0
      /\ Len(Tail(s)) = Len(s) - 1 /\ Head(s) = s[1]
      /\ \A i \in 1..Len(Tail(s)) : Tail(s)[i] = s[i + 1]
  BY HeadTailProperties, LenProperties, EmptySeq
<1>2. \A i \in 1..Len(Tail(s)) : i + 1 \in 1..Len(s) /\ i + 1 # 1
  BY <1>1
<1>3. Distinct(Tail(s))
  BY <1>1, <1>2 DEF Distinct
<1>4. ASSUME NEW i \in 1..Len(Tail(s))
      PROVE  Within(Tail(s)[i], s) /\ Tail(s)[i] # Head(s)
  BY <1>1, <1>2 DEF Within, Distinct
<1>. QED  BY <1>1, <1>3, <1>4 DEF Within

\* A round looks at the multiplexer and then at each component, in the order they are
\* written in.
LEMMA RoundOrder ==
  /\ <<DB>> \o Order \in Seq(Component \cup {DB})
  /\ Distinct(<<DB>> \o Order)
<1>. DEFINE s == <<DB>> \o Order
<1>1. /\ Order \in Seq(Component) /\ DB \notin Component /\ Distinct(Order) /\ Len(Order) \in Nat
  BY SupervisorTypes, LenProperties DEF Distinct
<1>2. /\ <<DB>> \in Seq(Component \cup {DB}) /\ Len(<<DB>>) = 1 /\ <<DB>>[1] = DB
      /\ Order \in Seq(Component \cup {DB})
  <2>1. Order \in Seq(Component \cup {DB})
    BY <1>1, SeqMonotonic, Component \subseteq Component \cup {DB}
  <2>. QED  BY <2>1
<1>3. /\ s \in Seq(Component \cup {DB}) /\ Len(s) = 1 + Len(Order)
      /\ \A i \in 1..Len(s) : s[i] = IF i <= 1 THEN DB ELSE Order[i - 1]
  <2>1. /\ s \in Seq(Component \cup {DB}) /\ Len(s) = Len(<<DB>>) + Len(Order)
        /\ \A i \in 1..(Len(<<DB>>) + Len(Order)) :
             s[i] = IF i <= Len(<<DB>>) THEN <<DB>>[i] ELSE Order[i - Len(<<DB>>)]
    BY <1>2, ConcatProperties
  <2>. HIDE DEF s
  <2>2. \A i \in 1..(1 + Len(Order)) : i <= 1 => i = 1
    BY <1>1
  <2>. QED  BY <1>1, <1>2, <2>1, <2>2
<1>. HIDE DEF s
<1>4. \A i \in 1..Len(s) : i > 1 => i - 1 \in 1..Len(Order) /\ s[i] = Order[i - 1] /\ s[i] # DB
  BY <1>1, <1>3, ElementOfSeq
<1>5. \A i \in 1..Len(s) : ~(i > 1) => i = 1 /\ s[i] = DB
  BY <1>1, <1>3
<1>6. ASSUME NEW i \in 1..Len(s), NEW j \in 1..Len(s), s[i] = s[j]
      PROVE  i = j
  <2>1. CASE i > 1 /\ j > 1
    <3>1. i - 1 = j - 1
      BY <1>1, <1>4, <1>6, <2>1 DEF Distinct
    <3>. QED  BY <1>1, <1>3, <3>1
  <2>. QED  BY <1>4, <1>5, <1>6, <2>1
<1>. QED  BY <1>3, <1>6 DEF s, Distinct

-----------------------------------------------------------------------------
(* New processes *)

\* A process that is started anew gets an id that no table and no variable names.
LEMMA RestartStep ==
  ASSUME NEW c \in Component, NEW K, Restart(c, K)
  PROVE  \E new \in Proc :
           /\ Free(new)
           /\ processes' = [processes EXCEPT ![c] = new]
           /\ proc' = [p \in Proc |-> IF p = new THEN [of |-> c, st |-> "booting", boot |-> 0]
                                      ELSE IF p \in K \cup OnPort(c) THEN Gone ELSE proc[p]]
           /\ leftover' = leftover \ (K \cup OnPort(c))
<1>. DEFINE new == CHOOSE p \in Proc : Free(p)
<1>1. new \in Proc /\ Free(new)
  BY DEF Restart
<1>. QED  BY <1>1 DEF Restart

\* After the start each component has a process of its own, and what else is alive does
\* not beat, has no port and is known as left over.
StartedAnew ==
  /\ processes' \in [Component -> Proc]
  /\ \A c, d \in Component : processes'[c] = processes'[d] => c = d
  /\ \A c \in Component : /\ proc'[processes'[c]] = [of |-> c, st |-> "booting", boot |-> 0]
                          /\ processes'[c] \notin leftover'
  /\ \A p \in Proc : (\A c \in Component : processes'[c] # p) =>
       \/ /\ proc'[p].st = "gone" /\ p \notin leftover'
          /\ proc'[p] \in {Gone, proc[p]}
       \/ /\ Alive(p) /\ p \in leftover' /\ proc[p].of \notin Ported
          /\ proc'[p] = [of |-> proc[p].of, st |-> "silent", boot |-> 0]
  /\ leftover' \subseteq Proc
  /\ proc' = [p \in Proc |-> proc'[p]]

LEMMA StartStep ==
  ASSUME TypeOK, \A p \in Proc : Alive(p) => proc[p].of \in Component, Start
  PROVE  StartedAnew
<1>. DEFINE onPort == UNION {OnPort(c) : c \in Component}
            cut == [p \in Proc |-> IF p \in onPort THEN Gone
                                   ELSE IF Alive(p) THEN WithoutBeat(p) ELSE proc[p]]
            fresh == {Q \in [Component -> {p \in Proc : cut[p] = Gone}] :
                        \A c, d \in Component : Q[c] = Q[d] => c = d}
            new == CHOOSE Q \in fresh : TRUE
            Taken(p) == \E c \in Component : new[c] = p
<1>1. /\ fresh # {} /\ processes' = new
      /\ proc' = [p \in Proc |->
           IF Taken(p) THEN [of |-> CHOOSE c \in Component : new[c] = p,
                              st |-> "booting", boot |-> 0]
           ELSE cut[p]]
      /\ leftover' = {p \in Proc : cut[p].st = "silent"}
      /\ \A p \in Proc : proc[p].st # "booting"
  BY DEF Start
<1>2. new \in fresh
  BY <1>1
<1>3. \A p \in Proc : \/ cut[p] = Gone
                      \/ cut[p] = proc[p] /\ ~Alive(p)
                      \/ /\ Alive(p)
                         /\ cut[p] = [of |-> proc[p].of, st |-> "silent", boot |-> 0]
                         /\ proc[p].of \notin Ported
  <2>1. ASSUME NEW p \in Proc
        PROVE  cut[p] = IF p \in onPort THEN Gone
                        ELSE IF Alive(p) THEN WithoutBeat(p) ELSE proc[p]
    OBVIOUS
  <2>. HIDE DEF cut
  <2>. SUFFICES ASSUME NEW p \in Proc, Alive(p), p \notin onPort
                PROVE  \/ cut[p] = Gone
                       \/ /\ cut[p] = [of |-> proc[p].of, st |-> "silent", boot |-> 0]
                          /\ proc[p].of \notin Ported
    BY <2>1
  <2>2. proc[p].of \notin Ported
    <3>1. ASSUME proc[p].of \in Ported
          PROVE  p \in OnPort(proc[p].of)
      BY <1>1, <3>1 DEF OnPort, Of
    <3>2. p \notin OnPort(proc[p].of)
      OBVIOUS
    <3>. QED  BY <3>1, <3>2
  <2>3. proc[p] \in [of : Component \cup {None}, st : ProcState, boot : 0..MaxBoot]
    BY DEF TypeOK
  <2>. QED  BY <2>1, <2>2, <2>3 DEF WithoutBeat
<1>. HIDE DEF cut, fresh, new
<1>4. /\ new \in [Component -> Proc]
      /\ \A c, d \in Component : new[c] = new[d] => c = d
      /\ \A c \in Component : cut[new[c]] = Gone
  BY <1>2 DEF fresh
<1>5. ASSUME NEW c \in Component
      PROVE  /\ proc'[new[c]] = [of |-> c, st |-> "booting", boot |-> 0]
             /\ new[c] \notin leftover'
  <2>1. (CHOOSE d \in Component : new[d] = new[c]) = c
    BY <1>4
  <2>2. Taken(new[c]) /\ new[c] \in Proc
    BY <1>4
  <2>. QED  BY <1>1, <1>4, <2>1, <2>2 DEF Gone
<1>6. ASSUME NEW p \in Proc, \A c \in Component : new[c] # p
      PROVE  proc'[p] = cut[p] /\ (p \in leftover' <=> cut[p].st = "silent")
  BY <1>1, <1>6
<1>7. ASSUME NEW p \in Proc, \A c \in Component : new[c] # p
      PROVE  \/ /\ proc'[p].st = "gone" /\ p \notin leftover'
                /\ proc'[p] \in {Gone, proc[p]}
             \/ /\ Alive(p) /\ p \in leftover' /\ proc[p].of \notin Ported
                /\ proc'[p] = [of |-> proc[p].of, st |-> "silent", boot |-> 0]
  <2>1. proc'[p] = cut[p] /\ (p \in leftover' <=> cut[p].st = "silent")
    BY <1>6, <1>7
  <2>2. CASE cut[p] = Gone \/ (cut[p] = proc[p] /\ ~Alive(p))
    BY <2>1, <2>2 DEF Gone, Alive
  <2>. QED  BY <1>3, <2>1, <2>2
<1>. QED  BY <1>1, <1>4, <1>5, <1>7 DEF StartedAnew
-----------------------------------------------------------------------------
(* Types *)

\* A live process is of a component, and once started each component has a process.
Served ==
  /\ phase # "off" => processes \in [Component -> Proc]
  /\ \A p \in Proc : Alive(p) => proc[p].of \in Component

LEMMA Settings ==
  /\ {LoopTime, KillTime, StartupLimit, ResetTime, FailureLimit, MaxBoot, MaxLag, MaxFaults}
       \subseteq Nat
  /\ None \notin Proc /\ None \notin Component /\ DB \notin Component
  /\ Ported \subseteq Component /\ Gathered \subseteq Component /\ 0 \in 0..MaxBoot
  BY SupervisorTypes

ProcType == [of : Component \cup {None}, st : ProcState, boot : 0..MaxBoot]

LEMMA FaultsType ==
  ASSUME TypeOK, faults < MaxFaults
  PROVE  faults + 1 \in 0..MaxFaults
  BY Settings DEF TypeOK

\* What the steps of one process make of it.
LEMMA ProcTypes ==
  ASSUME TypeOK, NEW p \in Proc
  PROVE  /\ Gone \in ProcType
         /\ [proc[p] EXCEPT !.st = "silent"] \in ProcType
         /\ WithoutBeat(p) \in ProcType
         /\ WithoutBeat(p).st # "gone" =>
              WithoutBeat(p).of = proc[p].of /\ WithoutBeat(p).st = "silent"
         /\ [proc EXCEPT ![p].st = "up", ![p].boot = 0] \in [Proc -> ProcType]
         /\ [proc EXCEPT ![p].st = "silent"] \in [Proc -> ProcType]
         /\ \A x \in ProcType : [proc EXCEPT ![p] = x] \in [Proc -> ProcType]
<1>1. Gone \in ProcType
  BY Settings DEF ProcType, Gone, ProcState
<1>2. proc \in [Proc -> ProcType] /\ proc[p] \in ProcType
  BY DEF TypeOK, ProcType
<1>3. /\ [proc[p] EXCEPT !.st = "silent"] \in ProcType
      /\ [proc[p] EXCEPT !.st = "silent", !.boot = 0] \in ProcType
      /\ [proc[p] EXCEPT !.st = "up", !.boot = 0] \in ProcType
  BY <1>2, Settings DEF ProcType, ProcState
<1>4. \A x \in ProcType : [proc EXCEPT ![p] = x] \in [Proc -> ProcType]
  BY <1>2
<1>5. /\ [proc EXCEPT ![p].st = "up", ![p].boot = 0]
           = [proc EXCEPT ![p] = [proc[p] EXCEPT !.st = "up", !.boot = 0]]
      /\ [proc EXCEPT ![p].st = "silent"] = [proc EXCEPT ![p] = [proc[p] EXCEPT !.st = "silent"]]
  BY <1>2
<1>6. WithoutBeat(p) \in ProcType
  BY <1>1, <1>3 DEF WithoutBeat
<1>7. /\ [proc[p] EXCEPT !.st = "silent", !.boot = 0].of = proc[p].of
      /\ [proc[p] EXCEPT !.st = "silent", !.boot = 0].st = "silent"
  BY <1>2 DEF ProcType
<1>8. WithoutBeat(p).st # "gone" =>
        WithoutBeat(p).of = proc[p].of /\ WithoutBeat(p).st = "silent"
  BY <1>7 DEF WithoutBeat, Gone
<1>. QED  BY <1>1, <1>3, <1>4, <1>5, <1>6, <1>8

LEMMA OlderType == ASSUME NEW row \in Row PROVE Older(row) \in Row
  BY DEF Older, Row

LEMMA TypeStep == TypeOK /\ Served /\ [Next]_vars => TypeOK' /\ Served'
<1>. SUFFICES ASSUME TypeOK, Served, [Next]_vars
              PROVE  TypeOK' /\ Served'
  OBVIOUS
<1>. USE Settings
<1>1. CASE Start
  <2>1. StartedAnew
    BY <1>1, StartStep DEF Served
  <2>2. ASSUME NEW p \in Proc
        PROVE  /\ proc'[p] \in ProcType
               /\ proc'[p].st # "gone" => proc'[p].of \in Component
    <3>1. CASE \E c \in Component : processes'[c] = p
      <4>1. PICK c \in Component : proc'[p] = [of |-> c, st |-> "booting", boot |-> 0]
        BY <2>1, <3>1 DEF StartedAnew
      <4>. QED  BY <4>1 DEF ProcType, ProcState
    <3>2. CASE \A c \in Component : processes'[c] # p
      <4>1. proc[p] \in ProcType /\ Gone \in ProcType
        BY ProcTypes DEF TypeOK, ProcType
      <4>2. CASE proc'[p] \in {Gone, proc[p]} /\ proc'[p].st = "gone"
        BY <4>1, <4>2
      <4>3. CASE Alive(p) /\ proc'[p] = [of |-> proc[p].of, st |-> "silent", boot |-> 0]
        BY <4>1, <4>3 DEF ProcType, ProcState, Served
      <4>. QED  BY <2>1, <3>2, <4>2, <4>3 DEF StartedAnew
    <3>. QED  BY <3>1, <3>2
  <2>3. proc' \in [Proc -> ProcType]
    BY <2>1, <2>2 DEF StartedAnew
  <2>4. NoRow \in Row
    BY DEF NoRow, Row
  <2>5. /\ phase' = "startup" /\ db' = [up |-> TRUE, tables |-> TRUE, pool |-> TRUE]
        /\ health' = [c \in Component |-> NoRow] /\ elapsed' = 0
        /\ UNCHANGED <<seen, todo, timer, failure_count, bad>>
        /\ faults' \in 0..MaxFaults
    BY <1>1, FaultsType DEF Start, TypeOK
  <2>6. processes' \in [Component -> Proc \cup {None}] /\ leftover' \subseteq Proc
    BY <2>1 DEF StartedAnew
  <2>. QED  BY <2>1, <2>2, <2>3, <2>4, <2>5, <2>6 DEF TypeOK, ProcType, Served, Alive, StartedAnew
<1>2. ASSUME NEW b \in BOOLEAN, Finish(b), Watching
      PROVE  TypeOK' /\ Served'
  <2>1. NoRow \in Row /\ Gone \in ProcType
    BY DEF NoRow, Row, Gone, ProcType, ProcState
  <2>2. proc' \in [Proc -> ProcType] /\ \A p \in Proc : proc'[p] \in {Gone, proc[p]}
    <3>1. CASE proc' = proc
      BY <3>1 DEF TypeOK, ProcType
    <3>2. CASE proc' = [p \in Proc |-> IF \E c \in Component : processes[c] = p
                                      THEN Gone ELSE proc[p]]
      BY <2>1, <3>2 DEF TypeOK, ProcType
    <3>. QED  BY <1>2, <3>1, <3>2 DEF Finish
  <2>3. processes' = processes /\ processes \in [Component -> Proc]
    BY <1>2 DEF Finish, Served, Watching
  <2>4. Served'
    BY <2>2, <2>3 DEF Served, Alive, Gone
  <2>5. /\ phase' = "stopped" /\ health' \in [Component -> Row] /\ seen' \in [Component -> Row]
        /\ todo' = <<>> /\ timer' = 0 /\ elapsed' = 0 /\ failure_count' = 0
        /\ UNCHANGED <<leftover, faults, bad, db>>
    BY <1>2, <2>1 DEF Finish, TypeOK
  <2>. QED  BY <2>2, <2>3, <2>4, <2>5, EmptySeq DEF TypeOK, ProcType
<1>3. CASE StartupDone \/ StartupFails
  BY <1>3 DEF StartupDone, StartupFails, TypeOK, Served, procVars, Alive
<1>4. CASE ReadHealth
  BY <1>4, RoundOrder DEF ReadHealth, TypeOK, Served, procVars, Alive
<1>5. CASE LookAtDb
  <2>1. Tail(todo) \in Seq(Component \cup {DB})
    BY <1>5, HeadTailProperties DEF LookAtDb, TypeOK
  <2>2. db' \in [up : BOOLEAN, tables : BOOLEAN, pool : BOOLEAN]
    BY <1>5 DEF LookAtDb, TypeOK
  <2>3. failure_count' \in Nat
    BY <1>5 DEF LookAtDb, TypeOK
  <2>. QED  BY <1>5, <2>1, <2>2, <2>3 DEF LookAtDb, TypeOK, Served, procVars, Alive
<1>6. ASSUME NEW c \in Component, Look(c)
      PROVE  TypeOK' /\ Served'
  <2>1. Tail(todo) \in Seq(Component \cup {DB})
    BY <1>6, HeadTailProperties DEF Look, TypeOK
  <2>2. CASE UNCHANGED <<proc, leftover, processes, failure_count>>
    BY <1>6, <2>1, <2>2 DEF Look, TypeOK, Served, Alive
  <2>3. ASSUME NEW K, Restart(c, K), failure_count' = failure_count + 1
        PROVE  TypeOK' /\ Served'
    <3>1. PICK new \in Proc :
            /\ processes' = [processes EXCEPT ![c] = new]
            /\ proc' = [p \in Proc |-> IF p = new THEN [of |-> c, st |-> "booting", boot |-> 0]
                                       ELSE IF p \in K \cup OnPort(c) THEN Gone ELSE proc[p]]
            /\ leftover' = leftover \ (K \cup OnPort(c))
      BY <2>3, RestartStep
    <3>2. [of |-> c, st |-> "booting", boot |-> 0] \in ProcType /\ Gone \in ProcType
      BY DEF ProcType, ProcState, Gone
    <3>3. proc' \in [Proc -> ProcType]
      BY <3>1, <3>2 DEF TypeOK, ProcType
    <3>4. \A p \in Proc : proc'[p].st # "gone" => proc'[p].of \in Component
      BY <3>1 DEF Served, Alive, Gone
    <3>5. /\ phase' = phase
          /\ processes' \in [Component -> Proc \cup {None}]
          /\ processes \in [Component -> Proc] => processes' \in [Component -> Proc]
      BY <1>6, <3>1 DEF Look, TypeOK
    <3>. QED  BY <1>6, <2>1, <2>3, <3>1, <3>3, <3>4, <3>5 DEF Look, TypeOK, ProcType, Served, Alive
  <2>. QED  BY <1>6, <2>2, <2>3 DEF Look
<1>7. CASE EndRound
  <2>1. NoRow \in Row /\ DbOk \in BOOLEAN
    BY DEF NoRow, Row, DbOk, TypeOK
  <2>2. CASE Finish(DbOk)
    BY <1>2, <1>7, <2>1, <2>2 DEF EndRound, Watching
  <2>3. CASE /\ phase' = "sleep" /\ timer' = 0
             /\ seen' = [c \in Component |-> NoRow]
             /\ UNCHANGED <<processes, todo, elapsed, failure_count, procVars, db>>
    BY <1>7, <2>1, <2>3 DEF EndRound, TypeOK, Served, procVars, Alive
  <2>. QED  BY <1>7, <2>2, <2>3 DEF EndRound
<1>8. CASE Tick
  <2>1. /\ health' \in [Component -> Row] /\ seen' \in [Component -> Row]
    BY <1>8, OlderType DEF Tick, TypeOK
  <2>2. proc' \in [Proc -> ProcType]
    <3>1. ASSUME NEW p \in Proc
          PROVE  proc'[p] \in ProcType
      <4>1. CASE proc[p].st = "booting"
        <5>1. proc'[p] = [proc[p] EXCEPT !.boot = @ + 1] /\ proc[p].boot < MaxBoot
          BY <1>8, <4>1 DEF Tick
        <5>2. proc[p] \in ProcType /\ proc[p].boot + 1 \in 0..MaxBoot
          BY <5>1 DEF TypeOK, ProcType
        <5>. QED  BY <5>1, <5>2 DEF ProcType
      <4>. QED  BY <1>8, <4>1 DEF Tick, TypeOK, ProcType
    <3>. QED  BY <1>8, <3>1 DEF Tick
  <2>3. \A p \in Proc : proc'[p].st = proc[p].st /\ proc'[p].of = proc[p].of
    BY <1>8 DEF Tick, TypeOK
  <2>. QED  BY <1>8, <2>1, <2>2, <2>3 DEF Tick, TypeOK, ProcType, Served, Alive
<1>9. CASE DbCrash
  <2>1. proc' \in [Proc -> ProcType]
    BY <1>9, ProcTypes DEF DbCrash, TypeOK, ProcType
  <2>2. \A p \in Proc : proc'[p] = IF proc[p].st = "up" THEN WithoutBeat(p) ELSE proc[p]
    BY <1>9 DEF DbCrash
  <2>3. \A p \in Proc : proc'[p].st # "gone" => Alive(p) /\ proc'[p].of = proc[p].of
    BY <2>2, ProcTypes DEF Alive
  <2>. QED  BY <1>9, <2>1, <2>3, FaultsType DEF DbCrash, TypeOK, ProcType, Served, Alive, supVars
<1>10. ASSUME NEW p \in Proc, Beat(p)
       PROVE  TypeOK' /\ Served'
  <2>1. proc' \in [Proc -> ProcType] /\ health' \in [Component -> Row]
    BY <1>10, ProcTypes DEF Beat, TypeOK, Row
  <2>2. \A q \in Proc : proc'[q].of = proc[q].of /\ (proc'[q].st # "gone" => Alive(q))
    BY <1>10 DEF Beat, TypeOK, Alive
  <2>. QED  BY <1>10, <2>1, <2>2 DEF Beat, TypeOK, ProcType, Served, Alive, supVars
<1>11. ASSUME NEW p \in Proc, BootFails(p)
       PROVE  TypeOK' /\ Served'
  <2>1. PICK x \in {Gone, WithoutBeat(p)} : proc' = [proc EXCEPT ![p] = x]
    BY <1>11 DEF BootFails
  <2>2. proc' \in [Proc -> ProcType]
    <3>1. x \in ProcType
      BY ProcTypes
    <3>. QED  BY <2>1, <3>1, ProcTypes
  <2>3. \A q \in Proc : proc'[q].st # "gone" => Alive(q) /\ proc'[q].of = proc[q].of
    <3>1. x.st # "gone" => x.of = proc[p].of
      <4>1. CASE x = Gone
        BY <4>1 DEF Gone
      <4>2. CASE x = WithoutBeat(p)
        BY <4>2, ProcTypes
      <4>. QED  BY <4>1, <4>2
    <3>2. Alive(p)
      BY <1>11 DEF BootFails, Alive
    <3>. QED  BY <2>1, <3>1, <3>2 DEF TypeOK, Alive
  <2>. QED  BY <1>11, <2>2, <2>3 DEF BootFails, TypeOK, ProcType, Served, Alive, supVars
<1>12. ASSUME NEW p \in Proc, Crash(p)
       PROVE  TypeOK' /\ Served'
  <2>1. proc' \in [Proc -> ProcType]
    BY <1>12, ProcTypes DEF Crash
  <2>2. \A q \in Proc : proc'[q].st # "gone" => Alive(q) /\ proc'[q].of = proc[q].of
    BY <1>12 DEF Crash, TypeOK, Alive, Gone
  <2>3. bad' \subseteq Component
    BY <1>12 DEF Crash, TypeOK, Served
  <2>. QED  BY <1>12, <2>1, <2>2, <2>3, FaultsType
            DEF Crash, TypeOK, ProcType, Served, Alive, supVars
<1>13. ASSUME NEW p \in Proc, Freeze(p)
       PROVE  TypeOK' /\ Served'
  <2>1. proc' \in [Proc -> ProcType]
    BY <1>13, ProcTypes DEF Freeze
  <2>2. \A q \in Proc : proc'[q].of = proc[q].of /\ (proc'[q].st # "gone" => Alive(q))
    BY <1>13 DEF Freeze, TypeOK, Alive
  <2>. QED  BY <1>13, <2>1, <2>2, FaultsType DEF Freeze, TypeOK, ProcType, Served, Alive, supVars
<1>14. CASE UNCHANGED vars
  BY <1>14 DEF vars, supVars, procVars, TypeOK, Served, Alive
<1>15. DbOk \in BOOLEAN /\ (db.up /\ db.tables) \in BOOLEAN
  BY DEF DbOk
<1>. QED  BY <1>1, <1>2, <1>3, <1>4, <1>5, <1>6, <1>7, <1>8, <1>9, <1>10, <1>11, <1>12, <1>13,
             <1>14, <1>15
          DEF Next, SupervisorStep, Stop, ReadFails, Watching

LEMMA TypeAlways == Spec => [](TypeOK /\ Served)
<1>1. Init => TypeOK /\ Served
  BY Settings, EmptySeq DEF Init, TypeOK, Served, Alive, Gone, NoRow, Row, ProcState
<1>. QED  BY <1>1, TypeStep, PTL DEF Spec

\* The supervisor's tables, processes and clocks keep their types, for any components,
\* processes and settings.
THEOREM SupervisorTypeCorrect == Spec => []TypeOK
  BY TypeAlways, PTL

-----------------------------------------------------------------------------
(* Whose process, whose row *)

\* A live process is the one the supervisor holds for its component, or it is left over:
\* then it does not beat and its component has no port.
Owners ==
  /\ \A p \in Proc : Alive(p) /\ p \notin leftover => processes[proc[p].of] = p
  /\ \A c \in Component, p \in Proc :
       processes[c] = p /\ Alive(p) => proc[p].of = c /\ p \notin leftover

LeftoverInv == \A p \in leftover : proc[p].st = "silent" /\ proc[p].of \notin Ported

\* The row of a component whose process beats is fresh and names it.
UpRows ==
  \A p \in Proc : proc[p].st = "up" =>
    health[proc[p].of].pid = p /\ health[proc[p].of].age <= 1

\* Whose the rows of the health table are.  While the watchdog runs each component has a
\* row, and that of a process which beats or has stopped to is its own; that of one
\* which boots may be its predecessor's, but it boots no longer than the watchdog sleeps.
RowsInv ==
  /\ db.pool => db.up /\ db.tables
  /\ UpRows
  /\ phase = "startup" => \A c \in Component : health[c].pid \in {None, processes[c]}
  /\ Watching => AllRows
  /\ Watching /\ DbOk => \A c \in Component, p \in Proc :
       processes[c] = p /\ proc[p].st = "silent" => health[c].pid = p
  /\ phase = "sleep" => \A p \in Proc : proc[p].st = "booting" => proc[p].boot >= timer

\* What a round has read of a component: a row, of the process that the supervisor holds
\* if that is alive, and no older than the round's age allows if it beats.
SeenInv(c) ==
  /\ seen[c].pid # None
  /\ \A p \in Proc : processes[c] = p /\ Alive(p) =>
       /\ seen[c].pid = p /\ proc[p].st # "booting"
       /\ proc[p].st = "up" => seen[c].age <= 1 + timer

\* A round has read this of each component it has still to look at.
RoundInv ==
  /\ phase # "round" => todo = <<>>
  /\ Distinct(todo)
  /\ phase = "round" => timer <= MaxLag
  /\ \A c \in Component : Within(c, todo) => SeenInv(c)

Watched == Owners /\ LeftoverInv /\ RowsInv /\ RoundInv

-----------------------------------------------------------------------------
(* What the steps of processes and the clock leave alone *)

ProcStep == DbCrash \/ \E p \in Proc : Beat(p) \/ BootFails(p) \/ Crash(p) \/ Freeze(p)

\* Processes only fade by themselves: they stop beating or exit, and no other takes
\* their place.
Fading ==
  /\ UNCHANGED <<supVars, seen>>
  /\ \A p \in Proc : Alive(p)' => /\ Alive(p) /\ proc'[p].of = proc[p].of
                                  /\ p \in leftover' <=> p \in leftover
  /\ \A p \in leftover' : p \in leftover /\ proc'[p] = proc[p]
  /\ \A p \in Proc : proc'[p].st = "booting" => proc'[p] = proc[p]

LEMMA ProcessesFade == TypeOK /\ LeftoverInv /\ ProcStep => Fading
<1>. SUFFICES ASSUME TypeOK, LeftoverInv, ProcStep
              PROVE  Fading
  OBVIOUS
<1>0. proc \in [Proc -> ProcType] /\ leftover \subseteq Proc
  BY DEF TypeOK, ProcType
<1>1. ASSUME NEW p \in Proc, Beat(p)
      PROVE  Fading
  <2>1. /\ proc'[p].st = "up" /\ proc'[p].of = proc[p].of
        /\ Alive(p) /\ p \notin leftover
    BY <1>0, <1>1 DEF Beat, Alive, LeftoverInv, ProcType
  <2>2. \A q \in Proc : q # p => proc'[q] = proc[q]
    BY <1>0, <1>1 DEF Beat
  <2>3. UNCHANGED <<supVars, seen, leftover>>
    BY <1>1 DEF Beat
  <2>. QED  BY <1>0, <2>1, <2>2, <2>3 DEF Fading, Alive
<1>2. ASSUME NEW p \in Proc, NEW x, proc' = [proc EXCEPT ![p] = x], Alive(p),
             x.st \in {"gone", "silent"}, x.st # "gone" => x.of = proc[p].of,
             UNCHANGED <<supVars, seen>>,
             \A q \in Proc : q # p => (q \in leftover' <=> q \in leftover),
             p \notin leftover', x.st # "gone" => p \notin leftover, leftover' \subseteq Proc
      PROVE  Fading
  <2>1. proc'[p] = x /\ \A q \in Proc : q # p => proc'[q] = proc[q]
    BY <1>0, <1>2
  <2>. QED  BY <1>0, <1>2, <2>1 DEF Fading, Alive
<1>3. ASSUME NEW p \in Proc, BootFails(p)
      PROVE  Fading
  <2>1. PICK x \in {Gone, WithoutBeat(p)} : proc' = [proc EXCEPT ![p] = x]
    BY <1>3 DEF BootFails
  <2>2. /\ x.st # "gone" => x.of = proc[p].of
        /\ x.st \in {"gone", "silent"}
    <3>1. CASE x = Gone
      BY <3>1 DEF Gone
    <3>2. CASE x = WithoutBeat(p)
      BY <3>2, ProcTypes
    <3>. QED  BY <3>1, <3>2
  <2>3. Alive(p) /\ p \notin leftover
    BY <1>3 DEF BootFails, Alive, LeftoverInv
  <2>4. \A q \in leftover : proc'[q] = proc[q] /\ proc'[q] # Gone
    BY <1>0, <2>1, <2>3 DEF LeftoverInv, Gone
  <2>5. leftover' = leftover
    BY <1>3, <2>4 DEF BootFails
  <2>6. UNCHANGED <<supVars, seen>>
    BY <1>3 DEF BootFails
  <2>. QED  BY <1>0, <1>2, <2>1, <2>2, <2>3, <2>5, <2>6
<1>4. ASSUME NEW p \in Proc, Crash(p)
      PROVE  Fading
  <2>1. /\ proc' = [proc EXCEPT ![p] = Gone] /\ Alive(p) /\ leftover' = leftover \ {p}
        /\ UNCHANGED <<supVars, seen>>
    BY <1>4 DEF Crash
  <2>. QED  BY <1>0, <1>2, <2>1 DEF Gone
<1>5. ASSUME NEW p \in Proc, Freeze(p)
      PROVE  Fading
  <2>1. /\ proc' = [proc EXCEPT ![p] = [proc[p] EXCEPT !.st = "silent"]]
        /\ Alive(p) /\ p \notin leftover
        /\ UNCHANGED <<supVars, seen, leftover>>
    BY <1>0, <1>5 DEF Freeze, Alive, LeftoverInv
  <2>2. [proc[p] EXCEPT !.st = "silent"].st = "silent"
        /\ [proc[p] EXCEPT !.st = "silent"].of = proc[p].of
    BY <1>0 DEF ProcType
  <2>. QED  BY <1>0, <1>2, <2>1, <2>2
<1>6. CASE DbCrash
  <2>1. \A p \in Proc : proc'[p] = IF proc[p].st = "up" THEN WithoutBeat(p) ELSE proc[p]
    BY <1>6 DEF DbCrash
  <2>2. \A p \in leftover : proc'[p] = proc[p] /\ proc'[p] # Gone
    BY <1>0, <2>1 DEF LeftoverInv, Gone
  <2>3. leftover' = leftover /\ UNCHANGED <<supVars, seen>>
    BY <1>6, <2>2 DEF DbCrash
  <2>4. \A p \in Proc : /\ proc'[p].st # "gone" => Alive(p) /\ proc'[p].of = proc[p].of
                        /\ proc'[p].st = "booting" => proc'[p] = proc[p]
    BY <2>1, ProcTypes DEF Alive
  <2>. QED  BY <2>2, <2>3, <2>4 DEF Fading, Alive
<1>. QED  BY <1>1, <1>3, <1>4, <1>5, <1>6 DEF ProcStep

\* The clock only makes rows and boots older.
LEMMA TicksKeep ==
  ASSUME TypeOK, Tick
  PROVE  /\ \A p \in Proc : proc'[p].st = proc[p].st /\ proc'[p].of = proc[p].of
         /\ \A p \in Proc : proc[p].st = "booting" => proc'[p].boot = proc[p].boot + 1
         /\ \A c \in Component : /\ health'[c].pid = health[c].pid
                                 /\ seen'[c].pid = seen[c].pid
                                 /\ health'[c].age <= health[c].age + 1
                                 /\ seen'[c].age <= seen[c].age + 1
         /\ UNCHANGED <<phase, processes, todo, leftover, db>>
<1>1. \A row \in Row : Older(row).pid = row.pid /\ Older(row).age <= row.age + 1
  BY DEF Older, Row
<1>2. \A c \in Component : health'[c] = Older(health[c]) /\ seen'[c] = Older(seen[c])
  BY DEF Tick
<1>3. \A c \in Component : health[c] \in Row /\ seen[c] \in Row
  BY DEF TypeOK
<1>4. ASSUME NEW p \in Proc
      PROVE  /\ proc'[p].st = proc[p].st /\ proc'[p].of = proc[p].of
             /\ proc[p].st = "booting" => proc'[p].boot = proc[p].boot + 1
  BY DEF Tick, TypeOK
<1>. QED  BY <1>1, <1>2, <1>3, <1>4 DEF Tick

-----------------------------------------------------------------------------
(* The invariant, step by step *)

\* What the look at a component does: nothing, or its process is replaced, and then
\* that is dead afterwards.
Replaced(c) ==
  \E new \in Proc :
    /\ Free(new)
    /\ processes' = [processes EXCEPT ![c] = new]
    /\ proc'[new] = [of |-> c, st |-> "booting", boot |-> 0]
    /\ \A p \in Proc : p # new => \/ proc'[p] = Gone
                                  \/ /\ proc'[p] = proc[p]
                                     /\ p \in leftover' <=> p \in leftover
                                     /\ p # processes[c] \/ ~Alive(p)
    /\ \A p \in leftover' : p # new /\ p \in leftover /\ proc'[p] = proc[p]

LEMMA LookStep ==
  ASSUME TypeOK, Served, Watched, NEW c \in Component, Look(c)
  PROVE  /\ phase = "round" /\ phase' = "round" /\ Within(c, todo) /\ Head(todo) = c
         /\ todo # <<>> /\ todo' = Tail(todo)
         /\ UNCHANGED <<timer, elapsed, health, faults, bad, seen, db>>
         /\ Replaced(c) \/ UNCHANGED <<proc, leftover, processes>>
<1>1. /\ todo # <<>> /\ Head(todo) = c /\ todo' = Tail(todo)
      /\ UNCHANGED <<phase, timer, elapsed, health, faults, bad, seen, db>>
  BY DEF Look
<1>2. phase = "round"
  BY <1>1 DEF Watched, RoundInv
<1>3. Within(c, todo)
  <2>1. todo[1] = c /\ 1 \in 1..Len(todo)
    BY <1>1, HeadTailProperties, EmptySeq, LenProperties DEF TypeOK
  <2>. QED  BY <2>1 DEF Within
<1>4. processes[c] \in Proc /\ processes \in [Component -> Proc]
  BY <1>2 DEF Served
<1>5. ASSUME NEW K, K = IF Frozen(c) THEN {seen[c].pid} ELSE {}, Restart(c, K),
             Exited(c) \/ Frozen(c)
      PROVE  Replaced(c)
  <2>1. PICK new \in Proc :
           /\ Free(new)
           /\ processes' = [processes EXCEPT ![c] = new]
           /\ proc' = [p \in Proc |-> IF p = new THEN [of |-> c, st |-> "booting", boot |-> 0]
                                      ELSE IF p \in K \cup OnPort(c) THEN Gone ELSE proc[p]]
           /\ leftover' = leftover \ (K \cup OnPort(c))
    BY <1>5, RestartStep
  <2>2. processes[c] \in K \/ ~Alive(processes[c])
    <3>1. CASE Frozen(c)
      BY <1>3, <1>4, <1>5, <3>1 DEF Frozen, Watched, RoundInv, SeenInv
    <3>2. CASE Exited(c)
      BY <3>2 DEF Exited
    <3>. QED  BY <1>5, <3>1, <3>2
  <2>3. ~Alive(new) /\ new \notin leftover
    BY <2>1 DEF Free, Watched, LeftoverInv, Alive
  <2>4. proc'[new] = [of |-> c, st |-> "booting", boot |-> 0]
    BY <2>1
  <2>5. ASSUME NEW p \in Proc, p # new
        PROVE  \/ proc'[p] = Gone /\ p \notin leftover'
               \/ /\ proc'[p] = proc[p]
                  /\ p \in leftover' <=> p \in leftover
                  /\ p # processes[c] \/ ~Alive(p)
    BY <2>1, <2>2, <2>5
  <2>6. leftover' \subseteq leftover /\ leftover \subseteq Proc
    BY <2>1 DEF TypeOK
  <2>7. \A p \in leftover' : p \in Proc /\ p # new /\ p \in leftover /\ proc'[p] = proc[p]
    BY <2>3, <2>5, <2>6
  <2>. QED  BY <2>1, <2>4, <2>5, <2>7 DEF Replaced
<1>6. Replaced(c) \/ UNCHANGED <<proc, leftover, processes>>
  BY <1>5 DEF Look
<1>. QED  BY <1>1, <1>2, <1>3, <1>6

\* The end of a watchdog leaves its processes alone or kills them all.
FinishKills ==
  /\ phase' = "stopped" /\ todo' = <<>> /\ leftover' = leftover /\ processes' = processes
  /\ UNCHANGED db
  /\ \/ UNCHANGED <<health, proc>>
     \/ \A p \in Proc : proc'[p] = IF \E c \in Component : processes[c] = p THEN Gone ELSE proc[p]

LEMMA FinishStep ==
  ASSUME NEW b, Finish(b)
  PROVE  FinishKills
  BY DEF Finish, FinishKills

\* The steps of the supervisor that change no process.
QuietStep == StartupDone \/ StartupFails \/ ReadHealth \/ LookAtDb
              \/ (EndRound /\ phase' = "sleep")

LEMMA QuietKeeps == QuietStep => UNCHANGED <<processes, proc, leftover, health>>
  BY DEF QuietStep, StartupDone, StartupFails, ReadHealth, LookAtDb, EndRound, Finish, procVars

\* Every step is one of these.
LEMMA StepKinds ==
  ASSUME Next
  PROVE  \/ Start \/ Tick \/ ProcStep \/ QuietStep
         \/ \E c \in Component : Look(c)
         \/ Watching /\ \E b : Finish(b)
  BY DEF Next, ProcStep, QuietStep, SupervisorStep, Stop, ReadFails, EndRound, Watching

LEMMA LeftoverStep == TypeOK /\ Served /\ Watched /\ Next => LeftoverInv'
<1>. SUFFICES ASSUME TypeOK, Served, Watched, Next, NEW p \in leftover'
              PROVE  proc'[p].st = "silent" /\ proc'[p].of \notin Ported
  BY DEF LeftoverInv
<1>0. LeftoverInv /\ leftover \subseteq Proc
  BY DEF Watched, TypeOK
<1>1. CASE Start
  <2>1. StartedAnew
    BY <1>1, StartStep DEF Served
  <2>2. p \in Proc /\ \A c \in Component : processes'[c] # p
    <3>1. leftover' \subseteq Proc /\ \A c \in Component : processes'[c] \notin leftover'
      BY <2>1 DEF StartedAnew
    <3>. QED  BY <3>1
  <2>3. /\ proc[p].of \notin Ported
        /\ proc'[p] = [of |-> proc[p].of, st |-> "silent", boot |-> 0]
    BY <2>1, <2>2 DEF StartedAnew
  <2>. QED  BY <2>3
<1>2. CASE Tick
  BY <1>0, <1>2, TicksKeep DEF LeftoverInv
<1>3. CASE ProcStep
  BY <1>0, <1>3, ProcessesFade DEF Fading, LeftoverInv
<1>4. CASE QuietStep
  BY <1>0, <1>4, QuietKeeps DEF LeftoverInv
<1>5. ASSUME NEW c \in Component, Look(c)
      PROVE  proc'[p].st = "silent" /\ proc'[p].of \notin Ported
  <2>1. Replaced(c) \/ UNCHANGED <<proc, leftover, processes>>
    BY <1>5, LookStep
  <2>2. CASE Replaced(c)
    BY <1>0, <2>2 DEF Replaced, LeftoverInv
  <2>. QED  BY <1>0, <2>1, <2>2 DEF LeftoverInv
<1>6. ASSUME NEW b, Finish(b), Watching
      PROVE  proc'[p].st = "silent" /\ proc'[p].of \notin Ported
  <2>1. p \in leftover /\ proc[p].st = "silent" /\ proc[p].of \notin Ported /\ FinishKills
    BY <1>0, <1>6, FinishStep DEF FinishKills, LeftoverInv
  <2>2. \A c \in Component : processes[c] # p
    BY <1>0, <2>1 DEF Watched, Owners, Alive
  <2>. QED  BY <1>0, <2>1, <2>2 DEF FinishKills
<1>. QED  BY <1>1, <1>2, <1>3, <1>4, <1>5, <1>6, StepKinds

LEMMA OwnersStep == TypeOK /\ Served /\ Watched /\ Next => Owners'
<1>. SUFFICES ASSUME TypeOK, Served, Watched, Next
              PROVE  Owners'
  OBVIOUS
<1>0. Owners /\ LeftoverInv /\ leftover \subseteq Proc
  BY DEF Watched, TypeOK
<1>1. CASE Start
  <2>1. StartedAnew
    BY <1>1, StartStep DEF Served
  <2>2. ASSUME NEW p \in Proc, Alive(p)', p \notin leftover'
        PROVE  processes'[proc'[p].of] = p
    <3>1. PICK c \in Component : processes'[c] = p
      BY <2>1, <2>2 DEF StartedAnew, Alive
    <3>2. proc'[p] = [of |-> c, st |-> "booting", boot |-> 0]
      BY <2>1, <3>1 DEF StartedAnew
    <3>. QED  BY <3>1, <3>2
  <2>3. ASSUME NEW c \in Component, NEW p \in Proc, processes'[c] = p
        PROVE  proc'[p].of = c /\ p \notin leftover'
    <3>1. proc'[p] = [of |-> c, st |-> "booting", boot |-> 0] /\ p \notin leftover'
      BY <2>1, <2>3 DEF StartedAnew
    <3>. QED  BY <3>1
  <2>. QED  BY <2>2, <2>3 DEF Owners
<1>2. CASE Tick
  BY <1>0, <1>2, TicksKeep DEF Owners, Alive
<1>3. CASE ProcStep
  BY <1>0, <1>3, ProcessesFade DEF Fading, Owners, supVars
<1>4. CASE QuietStep
  BY <1>0, <1>4, QuietKeeps DEF Owners, Alive
<1>5. ASSUME NEW c \in Component, Look(c)
      PROVE  Owners'
  <2>1. /\ Replaced(c) \/ UNCHANGED <<proc, leftover, processes>>
        /\ processes \in [Component -> Proc]
    BY <1>5, LookStep DEF Served
  <2>2. CASE UNCHANGED <<proc, leftover, processes>>
    BY <1>0, <2>2 DEF Owners, Alive
  <2>3. CASE Replaced(c)
    <3>1. PICK new \in Proc :
            /\ Free(new)
            /\ processes' = [processes EXCEPT ![c] = new]
            /\ proc'[new] = [of |-> c, st |-> "booting", boot |-> 0]
            /\ \A p \in Proc : p # new => \/ proc'[p] = Gone
                                          \/ /\ proc'[p] = proc[p]
                                             /\ p \in leftover' <=> p \in leftover
                                             /\ p # processes[c] \/ ~Alive(p)
            /\ \A p \in leftover' : p # new /\ p \in leftover /\ proc'[p] = proc[p]
      BY <2>3 DEF Replaced
    <3>2. /\ processes'[c] = new
          /\ \A d \in Component : d # c => processes'[d] = processes[d] /\ processes[d] # new
      BY <2>1, <3>1 DEF Free
    <3>3. ASSUME NEW p \in Proc, Alive(p)', p \notin leftover'
          PROVE  processes'[proc'[p].of] = p
      <4>1. CASE p = new
        BY <3>1, <3>2, <4>1
      <4>2. CASE p # new
        <5>1. proc'[p] = proc[p] /\ Alive(p) /\ p \notin leftover /\ p # processes[c]
          BY <3>1, <3>3, <4>2 DEF Alive, Gone
        <5>2. processes[proc[p].of] = p /\ proc[p].of \in Component
          BY <1>0, <5>1 DEF Owners, Served
        <5>. QED  BY <3>2, <5>1, <5>2
      <4>. QED  BY <4>1, <4>2
    <3>4. ASSUME NEW d \in Component, NEW p \in Proc, processes'[d] = p, Alive(p)'
          PROVE  proc'[p].of = d /\ p \notin leftover'
      <4>1. CASE d = c
        BY <3>1, <3>2, <3>4, <4>1
      <4>2. CASE d # c
        <5>1. p # new /\ processes[d] = p
          BY <3>2, <3>4, <4>2
        <5>2. proc'[p] = proc[p] /\ Alive(p) /\ (p \in leftover' <=> p \in leftover)
          BY <3>1, <3>4, <5>1 DEF Alive, Gone
        <5>. QED  BY <1>0, <5>1, <5>2 DEF Owners
      <4>. QED  BY <4>1, <4>2
    <3>. QED  BY <3>3, <3>4 DEF Owners
  <2>. QED  BY <2>1, <2>2, <2>3
<1>6. ASSUME NEW b, Finish(b), Watching
      PROVE  Owners'
  <2>1. FinishKills
    BY <1>6, FinishStep
  <2>. QED  BY <1>0, <2>1 DEF FinishKills, Owners, Alive, Gone
<1>. QED  BY <1>1, <1>2, <1>3, <1>4, <1>5, <1>6, StepKinds

\* A process that beats does it for its component's row; the others are as before.
LEMMA BeatStep ==
  ASSUME TypeOK, Served, Watched, NEW p \in Proc, Beat(p)
  PROVE  LET c == proc[p].of IN
         /\ c \in Component /\ processes[c] = p
         /\ health' = [health EXCEPT ![c] = [pid |-> p, age |-> 0]]
         /\ proc'[p].st = "up" /\ proc'[p].of = c
         /\ \A q \in Proc : q # p => proc'[q] = proc[q]
         /\ \A q \in Proc : processes[c] = q => q = p
         /\ \A q \in Proc : proc'[q].st = "up" /\ q # p => proc[q].of # c
<1>1. Alive(p) /\ p \notin leftover
  BY DEF Beat, Alive, Watched, LeftoverInv
<1>2. proc[p].of \in Component /\ processes[proc[p].of] = p
  BY <1>1 DEF Served, Watched, Owners
<1>3. /\ proc'[p].st = "up" /\ proc'[p].of = proc[p].of
      /\ \A q \in Proc : q # p => proc'[q] = proc[q]
  BY DEF Beat, TypeOK
<1>4. ASSUME NEW q \in Proc, proc'[q].st = "up", q # p
      PROVE  proc[q].of # proc[p].of
  <2>1. Alive(q) /\ q \notin leftover
    BY <1>3, <1>4 DEF Alive, Watched, LeftoverInv
  <2>. QED  BY <1>2, <1>4, <2>1 DEF Watched, Owners
<1>. QED  BY <1>2, <1>3, <1>4 DEF Beat

LEMMA UpRowsStep == TypeOK /\ Served /\ Watched /\ Next => UpRows'
<1>. SUFFICES ASSUME TypeOK, Served, Watched, Next, NEW p \in Proc, proc'[p].st = "up"
              PROVE  health'[proc'[p].of].pid = p /\ health'[proc'[p].of].age <= 1
  BY DEF UpRows
<1>0. UpRows /\ Owners /\ LeftoverInv
  BY DEF Watched, RowsInv
<1>1. CASE Start
  <2>1. StartedAnew
    BY <1>1, StartStep DEF Served
  <2>2. proc'[p].st # "up"
    <3>1. CASE \E c \in Component : processes'[c] = p
      <4>1. PICK c \in Component : proc'[p] = [of |-> c, st |-> "booting", boot |-> 0]
        BY <2>1, <3>1 DEF StartedAnew
      <4>. QED  BY <4>1
    <3>2. CASE \A c \in Component : processes'[c] # p
      <4>1. proc'[p].st = "gone" \/ proc'[p] = [of |-> proc[p].of, st |-> "silent", boot |-> 0]
        BY <2>1, <3>2 DEF StartedAnew
      <4>. QED  BY <4>1
    <3>. QED  BY <3>1, <3>2
  <2>. QED  BY <2>2
<1>2. CASE Tick
  <2>1. proc[p].st = "up" /\ proc'[p].of = proc[p].of /\ proc[p].of \in Component
    BY <1>2, TicksKeep DEF Served, Alive
  <2>2. health[proc[p].of].age = 0 /\ health[proc[p].of].pid = p
    BY <1>0, <1>2, <2>1 DEF Tick, UpRows
  <2>. QED  BY <1>2, <2>1, <2>2, TicksKeep DEF TypeOK, Row
<1>3. ASSUME NEW q \in Proc, Beat(q)
      PROVE  health'[proc'[p].of].pid = p /\ health'[proc'[p].of].age <= 1
  <2>1. /\ health' = [health EXCEPT ![proc[q].of] = [pid |-> q, age |-> 0]]
        /\ proc[q].of \in Component /\ health \in [Component -> Row]
    BY <1>3, BeatStep DEF TypeOK
  <2>2. CASE p = q
    <3>1. health'[proc[q].of] = [pid |-> q, age |-> 0] /\ proc'[q].of = proc[q].of
      BY <1>3, <2>1, BeatStep
    <3>. QED  BY <2>2, <3>1
  <2>3. CASE p # q
    <3>1. proc'[p] = proc[p] /\ proc[p].of # proc[q].of
      BY <1>3, <2>3, BeatStep
    <3>2. proc[p].of \in Component
      BY <3>1 DEF Served, Alive
    <3>. QED  BY <1>0, <2>1, <3>1, <3>2 DEF UpRows
  <2>. QED  BY <2>2, <2>3
<1>4. ASSUME \/ DbCrash
             \/ \E q \in Proc : BootFails(q) \/ Crash(q) \/ Freeze(q)
      PROVE  health'[proc'[p].of].pid = p /\ health'[proc'[p].of].age <= 1
  <2>1. proc'[p] = proc[p]
    <3>1. CASE DbCrash
      <4>1. proc'[p] = IF proc[p].st = "up" THEN WithoutBeat(p) ELSE proc[p]
        BY <3>1 DEF DbCrash
      <4>. QED  BY <4>1, ProcTypes
    <3>2. ASSUME NEW q \in Proc, BootFails(q)
          PROVE  proc'[p] = proc[p]
      <4>1. PICK x \in {Gone, WithoutBeat(q)} : proc' = [proc EXCEPT ![q] = x]
        BY <3>2 DEF BootFails
      <4>2. x.st # "up"
        <5>1. CASE x = Gone
          BY <5>1 DEF Gone
        <5>2. CASE x = WithoutBeat(q)
          BY <5>2, ProcTypes
        <5>. QED  BY <5>1, <5>2
      <4>. QED  BY <4>1, <4>2 DEF TypeOK
    <3>3. ASSUME NEW q \in Proc, Crash(q) \/ Freeze(q)
          PROVE  proc'[p] = proc[p]
      BY <3>3 DEF Crash, Freeze, TypeOK, Gone
    <3>. QED  BY <1>4, <3>1, <3>2, <3>3
  <2>2. UNCHANGED health
    BY <1>4 DEF DbCrash, BootFails, Crash, Freeze
  <2>. QED  BY <1>0, <2>1, <2>2 DEF UpRows
<1>5. CASE QuietStep
  BY <1>0, <1>5, QuietKeeps DEF UpRows
<1>6. ASSUME NEW c \in Component, Look(c)
      PROVE  health'[proc'[p].of].pid = p /\ health'[proc'[p].of].age <= 1
  <2>1. (Replaced(c) \/ UNCHANGED <<proc, leftover, processes>>) /\ UNCHANGED health
    BY <1>6, LookStep
  <2>2. CASE Replaced(c)
    <3>1. PICK new \in Proc :
            /\ proc'[new] = [of |-> c, st |-> "booting", boot |-> 0]
            /\ \A q \in Proc : q # new => proc'[q] \in {Gone, proc[q]}
      BY <2>2 DEF Replaced
    <3>2. proc'[p] = proc[p]
      BY <3>1 DEF Gone
    <3>. QED  BY <1>0, <2>1, <3>2 DEF UpRows
  <2>. QED  BY <1>0, <2>1, <2>2 DEF UpRows
<1>7. ASSUME NEW b, Finish(b), Watching
      PROVE  health'[proc'[p].of].pid = p /\ health'[proc'[p].of].age <= 1
  <2>1. FinishKills
    BY <1>7, FinishStep
  <2>2. UNCHANGED <<health, proc>>
    <3>. SUFFICES ASSUME \A q \in Proc : proc'[q] = IF \E c \in Component : processes[c] = q
                                                    THEN Gone ELSE proc[q]
                  PROVE  FALSE
      BY <2>1 DEF FinishKills
    <3>1. proc'[p] = proc[p] /\ \A c \in Component : processes[c] # p
      BY DEF Gone
    <3>2. Alive(p) /\ p \notin leftover /\ proc[p].of \in Component
      BY <1>0, <3>1 DEF Alive, LeftoverInv, Served
    <3>. QED  BY <1>0, <3>1, <3>2 DEF Owners
  <2>. QED  BY <1>0, <2>2 DEF UpRows
<1>. QED  BY <1>1, <1>2, <1>3, <1>4, <1>5, <1>6, <1>7, StepKinds DEF ProcStep

LEMMA RowsStep == TypeOK /\ Served /\ Watched /\ Next => RowsInv'
<1>. SUFFICES ASSUME TypeOK, Served, Watched, Next
              PROVE  RowsInv'
  OBVIOUS
<1>0. /\ RowsInv /\ Owners /\ LeftoverInv /\ (phase # "round" => todo = <<>>) /\ UpRows'
      /\ \A c \in Component : health[c] \in Row
      /\ timer \in Nat /\ None \notin Proc
  BY UpRowsStep, Settings DEF Watched, RoundInv, TypeOK
<1>1. CASE Start
  <2>1. /\ phase' = "startup" /\ db' = [up |-> TRUE, tables |-> TRUE, pool |-> TRUE]
        /\ health' = [c \in Component |-> NoRow]
    BY <1>1 DEF Start
  <2>. QED  BY <1>0, <2>1 DEF RowsInv, NoRow, Watching
<1>2. CASE Tick
  <2>1. \A p \in Proc : proc'[p].st = "booting" /\ phase' = "sleep" => proc'[p].boot >= timer'
    <3>. SUFFICES ASSUME NEW p \in Proc, proc'[p].st = "booting", phase' = "sleep"
                  PROVE  proc'[p].boot >= timer'
      OBVIOUS
    <3>1. phase = "sleep" /\ proc[p].st = "booting" /\ proc'[p].boot = proc[p].boot + 1
      BY <1>2, TicksKeep
    <3>2. timer' = timer + 1 /\ proc[p].boot >= timer /\ proc[p].boot \in Nat
      BY <1>0, <1>2, <3>1 DEF Tick, RowsInv, TypeOK
    <3>. QED  BY <1>0, <3>1, <3>2
  <2>2. /\ \A c \in Component : health'[c].pid = health[c].pid
        /\ \A p \in Proc : proc'[p].st = proc[p].st
        /\ UNCHANGED <<phase, processes, db>>
    BY <1>2, TicksKeep
  <2>. QED  BY <1>0, <2>1, <2>2 DEF RowsInv, Watching, AllRows, DbOk
<1>3. CASE ProcStep
  <2>1. Fading
    BY <1>0, <1>3, ProcessesFade
  <2>2. phase' = "sleep" => \A p \in Proc : proc'[p].st = "booting" => proc'[p].boot >= timer'
    BY <1>0, <2>1 DEF Fading, RowsInv, supVars
  <2>3. ASSUME NEW p \in Proc, Beat(p)
        PROVE  RowsInv'
    <3>. DEFINE c == proc[p].of
    <3>1. /\ c \in Component /\ processes[c] = p
          /\ health' = [health EXCEPT ![c] = [pid |-> p, age |-> 0]]
          /\ \A q \in Proc : q # p => proc'[q] = proc[q]
          /\ proc'[p].st = "up"
          /\ UNCHANGED <<phase, processes, db>>
      BY <2>3, BeatStep DEF Beat, supVars
    <3>. HIDE DEF c
    <3>2. /\ health'[c] = [pid |-> p, age |-> 0]
          /\ \A d \in Component : d # c => health'[d] = health[d]
      BY <3>1 DEF TypeOK
    <3>3. (db.pool => db.up /\ db.tables)'
      BY <1>0, <3>1 DEF RowsInv
    <3>4. (phase = "startup" => \A d \in Component : health[d].pid \in {None, processes[d]})'
      BY <1>0, <3>1, <3>2 DEF RowsInv
    <3>5. (Watching => AllRows)'
      BY <1>0, <3>1, <3>2 DEF RowsInv, Watching, AllRows
    <3>6. (Watching /\ DbOk => \A d \in Component, q \in Proc :
             processes[d] = q /\ proc[q].st = "silent" => health[d].pid = q)'
      BY <1>0, <3>1, <3>2 DEF RowsInv, Watching, DbOk
    <3>. QED  BY <1>0, <2>2, <3>3, <3>4, <3>5, <3>6 DEF RowsInv
  <2>4. ASSUME NEW p \in Proc, Freeze(p) \/ Crash(p)
        PROVE  RowsInv'
    <3>1. UNCHANGED <<phase, processes, health, db>>
      BY <2>4 DEF Freeze, Crash, supVars
    <3>2. \A q \in Proc : proc'[q].st = "silent" =>
            proc[q].st = "silent" \/ (proc[q].st = "up" /\ q = p)
      BY <2>4 DEF Freeze, Crash, TypeOK, Gone
    <3>3. (Watching /\ DbOk => \A d \in Component, q \in Proc :
             processes[d] = q /\ proc[q].st = "silent" => health[d].pid = q)'
      <4>. SUFFICES ASSUME Watching, DbOk, NEW d \in Component, NEW q \in Proc,
                           processes[d] = q, proc'[q].st = "silent"
                    PROVE  health[d].pid = q
        BY <3>1 DEF Watching, DbOk
      <4>1. CASE proc[q].st = "up"
        <5>1. proc[q].of = d
          BY <1>0, <4>1 DEF Owners, Alive
        <5>. QED  BY <1>0, <4>1, <5>1 DEF RowsInv, UpRows
      <4>. QED  BY <1>0, <3>2, <4>1 DEF RowsInv
    <3>. QED  BY <1>0, <2>2, <3>1, <3>3 DEF RowsInv, Watching, AllRows
  <2>5. CASE DbCrash
    <3>1. UNCHANGED <<phase, processes, health>> /\ ~DbOk' /\ ~db'.pool
      BY <2>5 DEF DbCrash, DbOk, supVars
    <3>. QED  BY <1>0, <2>2, <3>1 DEF RowsInv, Watching, AllRows
  <2>6. ASSUME NEW p \in Proc, BootFails(p)
        PROVE  RowsInv'
    <3>1. UNCHANGED <<phase, processes, health, db>>
      BY <2>6 DEF BootFails, supVars
    <3>2. \A q \in Proc : proc'[q].st = "silent" /\ DbOk => proc[q].st = "silent"
      <4>1. CASE proc' = [proc EXCEPT ![p] = Gone]
        BY <4>1 DEF TypeOK, Gone
      <4>. QED  BY <2>6, <4>1 DEF BootFails, DbOk
    <3>. QED  BY <1>0, <2>2, <3>1, <3>2 DEF RowsInv, Watching, AllRows, DbOk
  <2>. QED  BY <1>3, <2>3, <2>4, <2>5, <2>6 DEF ProcStep
<1>4. CASE StartupDone
  <2>1. /\ UNCHANGED <<processes, proc, health, db>> /\ phase' = "sleep" /\ timer' = 0
        /\ phase = "startup" /\ DbOk /\ AllRows
    BY <1>4 DEF StartupDone, procVars
  <2>2. \A c \in Component : health[c].pid = processes[c]
    BY <1>0, <2>1 DEF RowsInv, AllRows
  <2>3. \A p \in Proc : proc[p].boot >= 0
    BY DEF TypeOK
  <2>. QED  BY <1>0, <2>1, <2>2, <2>3 DEF RowsInv, Watching, AllRows
<1>5. CASE StartupFails \/ ReadHealth
  <2>1. /\ UNCHANGED <<processes, proc, health, db>> /\ phase' \in {"stopped", "round"}
        /\ phase' = "round" => Watching
    BY <1>5 DEF StartupFails, ReadHealth, procVars, Watching
  <2>. QED  BY <1>0, <2>1 DEF RowsInv, Watching, AllRows, DbOk
<1>6. CASE LookAtDb
  <2>1. /\ UNCHANGED <<processes, proc, health, phase>> /\ phase = "round"
        /\ db' = [db EXCEPT !.up = TRUE]
    BY <1>0, <1>6 DEF LookAtDb, procVars
  <2>2. db'.tables = db.tables /\ db'.pool = db.pool /\ db'.up = TRUE
    BY <2>1 DEF TypeOK
  <2>3. DbOk' => DbOk
    BY <1>0, <2>2 DEF DbOk, RowsInv
  <2>. QED  BY <1>0, <2>1, <2>2, <2>3 DEF RowsInv, Watching, AllRows
<1>7. CASE EndRound /\ phase' = "sleep"
  <2>1. /\ UNCHANGED <<processes, proc, health, db>> /\ phase = "round" /\ timer' = 0
    BY <1>7 DEF EndRound, Finish, procVars
  <2>2. \A p \in Proc : proc[p].boot >= 0
    BY DEF TypeOK
  <2>. QED  BY <1>0, <1>7, <2>1, <2>2 DEF RowsInv, Watching, AllRows, DbOk
<1>8. ASSUME NEW c \in Component, Look(c)
      PROVE  RowsInv'
  <2>1. /\ phase = "round" /\ phase' = "round" /\ UNCHANGED <<health, db>>
        /\ Replaced(c) \/ UNCHANGED <<proc, leftover, processes>>
        /\ processes \in [Component -> Proc]
    BY <1>8, LookStep DEF Served
  <2>2. ASSUME DbOk, NEW d \in Component, NEW q \in Proc, processes'[d] = q, proc'[q].st = "silent"
        PROVE  processes[d] = q /\ proc[q].st = "silent"
    <3>1. CASE Replaced(c)
      <4>1. PICK new \in Proc :
              /\ processes' = [processes EXCEPT ![c] = new]
              /\ proc'[new] = [of |-> c, st |-> "booting", boot |-> 0]
              /\ \A p \in Proc : p # new => proc'[p] \in {Gone, proc[p]}
        BY <3>1 DEF Replaced
      <4>2. q # new
        BY <2>2, <4>1
      <4>3. d # c /\ processes[d] = q
        BY <2>1, <2>2, <4>1, <4>2
      <4>4. proc'[q] = proc[q]
        BY <2>2, <4>1, <4>2 DEF Gone
      <4>. QED  BY <2>2, <4>3, <4>4
    <3>. QED  BY <2>1, <2>2, <3>1
  <2>. QED  BY <1>0, <2>1, <2>2 DEF RowsInv, Watching, AllRows, DbOk
<1>9. ASSUME NEW b, Finish(b), Watching
      PROVE  RowsInv'
  <2>1. phase' = "stopped" /\ UNCHANGED db
    BY <1>9 DEF Finish
  <2>. QED  BY <1>0, <2>1 DEF RowsInv, Watching
<1>. QED  BY <1>1, <1>2, <1>3, <1>4, <1>5, <1>6, <1>7, <1>8, <1>9, StepKinds DEF QuietStep

LEMMA RoundStep == ASSUME BootsInTime PROVE TypeOK /\ Served /\ Watched /\ Next => RoundInv'
<1>. SUFFICES ASSUME TypeOK, Served, Watched, Next
              PROVE  RoundInv'
  OBVIOUS
<1>0. /\ RoundInv /\ RowsInv /\ Owners /\ LeftoverInv
      /\ \A c \in Component : seen[c] \in Row
      /\ timer \in Nat /\ MaxLag \in Nat /\ todo \in Seq(Component \cup {DB})
  BY Settings DEF Watched, TypeOK
<1>1. CASE Start \/ StartupDone \/ StartupFails
  <2>1. phase # "round" /\ phase' # "round" /\ UNCHANGED todo
    BY <1>1 DEF Start, StartupDone, StartupFails
  <2>. QED  BY <1>0, <2>1, EmptySeq DEF RoundInv, Within, Distinct
<1>2. CASE Tick
  <2>1. UNCHANGED <<phase, processes, todo>>
    BY <1>2, TicksKeep
  <2>2. phase = "round" => timer' = timer + 1 /\ timer' <= MaxLag
    BY <1>0, <1>2 DEF Tick
  <2>3. ASSUME NEW c \in Component, Within(c, todo)
        PROVE  SeenInv(c)'
    <3>1. timer' = timer + 1
      BY <1>0, <2>2, <2>3, EmptySeq DEF RoundInv, Within
    <3>2. SeenInv(c)
      BY <1>0, <2>3 DEF RoundInv
    <3>3. /\ seen'[c].pid = seen[c].pid /\ seen'[c].age <= seen[c].age + 1
          /\ seen[c].age \in Nat /\ seen'[c].age \in Nat
      BY <1>0, <1>2, TicksKeep, TypeStep DEF TypeOK, Row
    <3>4. \A p \in Proc : proc'[p].st = proc[p].st
      BY <1>2, TicksKeep
    <3>. QED  BY <1>0, <2>1, <3>1, <3>2, <3>3, <3>4 DEF SeenInv, Alive
  <2>. QED  BY <1>0, <2>1, <2>2, <2>3 DEF RoundInv
<1>3. CASE ProcStep
  <2>1. Fading
    BY <1>0, <1>3, ProcessesFade
  <2>2. ASSUME NEW p \in Proc, proc'[p].st = "up", Alive(p), proc[p].st # "booting"
        PROVE  proc[p].st = "up"
    <3>1. CASE DbCrash
      <4>1. proc'[p] = IF proc[p].st = "up" THEN WithoutBeat(p) ELSE proc[p]
        BY <3>1 DEF DbCrash
      <4>. QED  BY <2>2, <4>1, ProcTypes
    <3>2. ASSUME NEW q \in Proc, Beat(q)
          PROVE  proc[p].st = "up"
      <4>1. CASE p = q
        BY <2>2, <3>2, <4>1 DEF Beat
      <4>. QED  BY <2>2, <3>2, <4>1, BeatStep
    <3>3. ASSUME NEW q \in Proc, BootFails(q)
          PROVE  proc[p].st = "up"
      <4>1. p # q
        BY <2>2, <3>3 DEF BootFails
      <4>. QED  BY <2>2, <3>3, <4>1 DEF BootFails, TypeOK
    <3>4. ASSUME NEW q \in Proc, Crash(q) \/ Freeze(q)
          PROVE  proc[p].st = "up"
      <4>1. proc'[p] = proc[p]
        BY <2>2, <3>4 DEF Crash, Freeze, TypeOK, Gone
      <4>. QED  BY <2>2, <4>1
    <3>. QED  BY <1>3, <3>1, <3>2, <3>3, <3>4 DEF ProcStep
  <2>3. ASSUME NEW c \in Component, Within(c, todo)
        PROVE  SeenInv(c)'
    <3>1. SeenInv(c)
      BY <1>0, <2>3 DEF RoundInv
    <3>. QED  BY <2>1, <2>2, <3>1 DEF SeenInv, Fading, supVars, Alive
  <2>. QED  BY <1>0, <2>1, <2>3 DEF RoundInv, Fading, supVars
<1>4. CASE ReadHealth
  <2>1. /\ phase = "sleep" /\ timer = LoopTime /\ DbOk /\ phase' = "round" /\ timer' = 0
        /\ seen' = health /\ todo' = <<DB>> \o Order
        /\ UNCHANGED <<processes, proc>>
    BY <1>4 DEF ReadHealth, procVars
  <2>2. ASSUME NEW c \in Component
        PROVE  SeenInv(c)'
    <3>1. health[c].pid # None
      BY <1>0, <2>1 DEF RowsInv, Watching, AllRows
    <3>2. ASSUME NEW p \in Proc, processes[c] = p, Alive(p)
          PROVE  /\ health[c].pid = p /\ proc[p].st # "booting"
                 /\ proc[p].st = "up" => health[c].age <= 1
      <4>1. proc[p].of = c /\ proc[p].st \in ProcState /\ proc[p].boot \in 0..MaxBoot
        BY <1>0, <3>2 DEF Owners, TypeOK
      <4>2. proc[p].st # "booting"
        BY <1>0, <2>1, <4>1, Settings DEF RowsInv, BootsInTime
      <4>3. CASE proc[p].st = "silent"
        BY <1>0, <2>1, <3>2, <4>3 DEF RowsInv, Watching
      <4>4. CASE proc[p].st = "up"
        BY <1>0, <4>1, <4>4 DEF RowsInv, UpRows
      <4>. QED  BY <3>2, <4>1, <4>2, <4>3, <4>4 DEF ProcState, Alive
    <3>. QED  BY <2>1, <3>1, <3>2 DEF SeenInv, Alive
  <2>. QED  BY <1>0, <2>1, <2>2, RoundOrder DEF RoundInv
<1>5. CASE LookAtDb
  <2>1. /\ todo # <<>> /\ todo' = Tail(todo) /\ UNCHANGED <<phase, processes, proc, timer, seen>>
    BY <1>5 DEF LookAtDb, procVars
  <2>2. phase = "round"
    BY <1>0, <2>1 DEF RoundInv
  <2>3. Distinct(todo') /\ \A c : Within(c, todo') => Within(c, todo)
    BY <1>0, <2>1, TakeFirst DEF RoundInv
  <2>. QED  BY <1>0, <2>1, <2>2, <2>3 DEF RoundInv, SeenInv, Alive
<1>6. CASE EndRound /\ phase' = "sleep"
  <2>1. todo' = <<>>
    BY <1>6 DEF EndRound, Finish
  <2>. QED  BY <1>6, <2>1, EmptySeq DEF RoundInv, Within, Distinct
<1>7. ASSUME NEW c \in Component, Look(c)
      PROVE  RoundInv'
  <2>1. /\ phase = "round" /\ phase' = "round" /\ UNCHANGED <<timer, seen>>
        /\ Replaced(c) \/ UNCHANGED <<proc, leftover, processes>>
        /\ processes \in [Component -> Proc]
        /\ todo # <<>> /\ todo' = Tail(todo) /\ Head(todo) = c
    BY <1>7, LookStep DEF Served
  <2>2. Distinct(todo') /\ \A x : Within(x, todo') => Within(x, todo) /\ x # c
    BY <1>0, <2>1, TakeFirst DEF RoundInv
  <2>3. ASSUME NEW d \in Component, Within(d, todo')
        PROVE  SeenInv(d)'
    <3>1. SeenInv(d) /\ d # c
      BY <1>0, <2>2, <2>3 DEF RoundInv
    <3>2. CASE Replaced(c)
      <4>1. PICK new \in Proc :
              /\ Free(new)
              /\ processes' = [processes EXCEPT ![c] = new]
              /\ \A p \in Proc : p # new => proc'[p] \in {Gone, proc[p]}
        BY <3>2 DEF Replaced
      <4>2. processes'[d] = processes[d] /\ processes[d] # new
        BY <2>1, <3>1, <4>1 DEF Free
      <4>3. \A p \in Proc : processes'[d] = p /\ Alive(p)' =>
              processes[d] = p /\ Alive(p) /\ proc'[p] = proc[p]
        BY <4>1, <4>2 DEF Alive, Gone
      <4>. QED  BY <2>1, <3>1, <4>3 DEF SeenInv
    <3>. QED  BY <2>1, <3>1, <3>2 DEF SeenInv, Alive
  <2>. QED  BY <1>0, <2>1, <2>2, <2>3 DEF RoundInv
<1>8. ASSUME NEW b, Finish(b)
      PROVE  RoundInv'
  <2>1. phase' = "stopped" /\ todo' = <<>>
    BY <1>8 DEF Finish
  <2>. QED  BY <2>1, EmptySeq DEF RoundInv, Within, Distinct
<1>. QED  BY <1>1, <1>2, <1>3, <1>4, <1>5, <1>6, <1>7, <1>8, StepKinds DEF QuietStep

LEMMA WatchedAlways == ASSUME BootsInTime PROVE Spec => [](TypeOK /\ Served /\ Watched)
<1>1. Init => Watched
  <2>. SUFFICES ASSUME Init
                PROVE  Watched
    OBVIOUS
  <2>1. \A p \in Proc : proc[p].st = "gone"
    BY DEF Init, Gone
  <2>2. Owners /\ LeftoverInv /\ RowsInv
    BY <2>1 DEF Init, Owners, LeftoverInv, RowsInv, UpRows, Alive, Watching
  <2>3. RoundInv
    BY EmptySeq DEF Init, RoundInv, Within, Distinct
  <2>. QED  BY <2>2, <2>3 DEF Watched
<1>2. TypeOK /\ Served /\ Watched /\ [Next]_vars => Watched'
  <2>1. CASE Next
    BY <2>1, OwnersStep, LeftoverStep, RowsStep, RoundStep DEF Watched
  <2>2. CASE UNCHANGED vars
    BY <2>2 DEF vars, supVars, procVars, Watched, Owners, LeftoverInv, RowsInv, UpRows, RoundInv,
                SeenInv, Alive, Watching, AllRows, DbOk
  <2>. QED  BY <2>1, <2>2
<1>. QED  BY <1>1, <1>2, TypeAlways, PTL DEF Spec

-----------------------------------------------------------------------------
(* What follows *)

\* A component runs once, but for processes without a port that an earlier supervisor
\* has left.
THEOREM InstancesUnique == ASSUME BootsInTime PROVE Spec => []OneInstance
<1>1. Watched /\ Served => OneInstance
  <2>. SUFFICES ASSUME Watched, Served, NEW p \in Proc, NEW q \in Proc, Alive(p), Alive(q),
                       proc[p].of = proc[q].of, p # q
                PROVE  proc[p].of \notin Ported /\ (p \in leftover \/ q \in leftover)
    BY DEF OneInstance
  <2>1. p \in leftover \/ q \in leftover
    BY DEF Watched, Owners
  <2>. QED  BY <2>1 DEF Watched, LeftoverInv
<1>. QED  BY <1>1, WatchedAlways, PTL

\* The SIGKILL for a frozen component goes to the process that is replaced.
THEOREM KillsReach == ASSUME BootsInTime PROVE Spec => []KillReaches
<1>1. TypeOK /\ Served /\ Watched => KillReaches
  <2>. SUFFICES ASSUME TypeOK, Served, Watched, NEW c \in Component, todo # <<>>,
                       Head(todo) = c, Frozen(c)
                PROVE  seen[c].pid = processes[c]
    BY DEF KillReaches
  <2>1. Within(c, todo)
    <3>1. todo[1] = c /\ 1 \in 1..Len(todo)
      BY HeadTailProperties, EmptySeq, LenProperties DEF TypeOK
    <3>. QED  BY <3>1 DEF Within
  <2>2. processes[c] \in Proc
    BY DEF Watched, RoundInv, Served
  <2>. QED  BY <2>1, <2>2 DEF Frozen, Watched, RoundInv, SeenInv
<1>. QED  BY <1>1, WatchedAlways, PTL

\* No process that beats in time is killed, though the round's rows age with it.
THEOREM HealthyKept == ASSUME BootsInTime, RoundsInTime PROVE Spec => HealthySpared
<1>1. ASSUME TypeOK, Served, Watched, Next, phase = "round", phase' = "round", faults' = faults,
             NEW p \in Proc, proc[p].st = "up"
      PROVE  proc'[p].st = "up"
  <2>0. Alive(p) /\ p \notin leftover /\ faults \in Nat
    BY <1>1 DEF Alive, Watched, LeftoverInv, TypeOK
  <2>1. CASE Tick
    BY <1>1, <2>1, TicksKeep
  <2>2. CASE ProcStep
    <3>1. ~DbCrash /\ \A q \in Proc : ~Crash(q) /\ ~Freeze(q)
      BY <1>1, <2>0 DEF DbCrash, Crash, Freeze
    <3>2. ASSUME NEW q \in Proc, Beat(q)
          PROVE  proc'[p].st = "up"
      BY <1>1, <3>2, BeatStep
    <3>3. ASSUME NEW q \in Proc, BootFails(q)
          PROVE  proc'[p].st = "up"
      <4>1. p # q
        BY <1>1, <3>3 DEF BootFails
      <4>. QED  BY <1>1, <3>3, <4>1 DEF BootFails, TypeOK
    <3>. QED  BY <2>2, <3>1, <3>2, <3>3 DEF ProcStep
  <2>3. CASE QuietStep
    BY <1>1, <2>3, QuietKeeps
  <2>4. ASSUME NEW c \in Component, Look(c)
        PROVE  proc'[p].st = "up"
    <3>1. Within(c, todo) /\ processes[proc[p].of] = p /\ proc[p].of \in Component
      BY <1>1, <2>0, <2>4, LookStep DEF Watched, Owners, Served
    <3>2. CASE proc[p].of = c
      <4>1. seen[c].pid = p /\ seen[c].age <= 1 + timer /\ timer <= MaxLag
        BY <1>1, <2>0, <3>1, <3>2 DEF Watched, RoundInv, SeenInv
      <4>2. seen[c].age \in Nat /\ timer \in Nat /\ p # None
        BY <1>1, Settings DEF TypeOK, Row
      <4>3. ~(seen[c].age > KillTime)
        BY <4>1, <4>2, Settings DEF RoundsInTime
      <4>4. ~Exited(c) /\ ~Frozen(c)
        BY <2>0, <3>1, <3>2, <4>1, <4>2, <4>3 DEF Exited, Frozen
      <4>. QED  BY <1>1, <2>4, <4>4 DEF Look
    <3>3. CASE proc[p].of # c
      <4>1. ASSUME NEW K, K = IF Frozen(c) THEN {seen[c].pid} ELSE {}, Restart(c, K)
            PROVE  proc'[p].st = "up"
        <5>1. PICK new \in Proc :
                /\ Free(new)
                /\ proc' = [q \in Proc |->
                      IF q = new THEN [of |-> c, st |-> "booting", boot |-> 0]
                      ELSE IF q \in K \cup OnPort(c) THEN Gone ELSE proc[q]]
          BY <4>1, RestartStep
        <5>2. p # new /\ p \notin OnPort(c)
          BY <2>0, <3>3, <5>1 DEF Free, OnPort, Of
        <5>3. p \notin K
          <6>. SUFFICES ASSUME Frozen(c)
                        PROVE  seen[c].pid # p
            BY <4>1
          <6>1. processes[c] \in Proc /\ Alive(processes[c])
            BY <1>1 DEF Frozen, Served
          <6>2. seen[c].pid = processes[c] /\ proc[processes[c]].of = c
            BY <1>1, <3>1, <6>1 DEF Watched, RoundInv, SeenInv, Owners
          <6>. QED  BY <3>3, <6>2
        <5>. QED  BY <1>1, <5>1, <5>2, <5>3
      <4>. QED  BY <1>1, <2>4, <4>1 DEF Look
    <3>. QED  BY <3>2, <3>3
  <2>5. CASE Start \/ \E b : Finish(b)
    BY <1>1, <2>5 DEF Start, Finish
  <2>. QED  BY <1>1, <2>1, <2>2, <2>3, <2>4, <2>5, StepKinds
<1>2. TypeOK /\ Served /\ Watched /\ [Next]_vars =>
        [phase = "round" /\ phase' = "round" /\ faults' = faults =>
           \A p \in Proc : proc[p].st = "up" => proc'[p].st = "up"]_vars
  BY <1>1
<1>. QED  BY <1>2, WatchedAlways, PTL DEF Spec, HealthySpared

\* A watchdog that ends while the database answers leaves only what was left over to it.
THEOREM ChildrenEnd == ASSUME BootsInTime PROVE Spec => CleansUp
<1>1. ASSUME TypeOK, Served, Watched, Next, Watching, DbOk, phase' = "stopped",
             NEW p \in Proc, proc'[p].st # "gone"
      PROVE  p \in leftover
  <2>1. Finish(DbOk)
    <3>2. ~Start /\ ~Tick /\ ~StartupDone /\ ~StartupFails /\ ~ReadHealth /\ ~ReadFails /\ ~LookAtDb
      BY <1>1, TicksKeep
         DEF Start, Watching, StartupDone, StartupFails, ReadHealth, ReadFails, LookAtDb
    <3>3. ~DbCrash /\ \A q \in Proc : ~Beat(q) /\ ~BootFails(q) /\ ~Crash(q) /\ ~Freeze(q)
      BY <1>1, ProcessesFade DEF ProcStep, Fading, supVars, Watching, Watched
    <3>4. \A c \in Component : ~Look(c)
      BY <1>1 DEF Look, Watching
    <3>. QED  BY <1>1, <3>2, <3>3, <3>4 DEF Next, SupervisorStep, Stop, EndRound
  <2>2. proc' = [q \in Proc |-> IF \E c \in Component : processes[c] = q THEN Gone ELSE proc[q]]
    BY <1>1, <2>1 DEF Finish
  <2>3. proc'[p] = proc[p] /\ \A c \in Component : processes[c] # p
    BY <1>1, <2>2 DEF Gone
  <2>4. Alive(p) /\ proc[p].of \in Component
    BY <1>1, <2>3 DEF Alive, Served
  <2>. QED  BY <1>1, <2>3, <2>4 DEF Watched, Owners
<1>2. TypeOK /\ Served /\ Watched /\ [Next]_vars =>
        [Watching /\ DbOk /\ phase' = "stopped" =>
           \A p \in Proc : proc'[p].st # "gone" => p \in leftover]_vars
  BY <1>1
<1>. QED  BY <1>2, WatchedAlways, PTL DEF Spec, CleansUp
=============================================================================
