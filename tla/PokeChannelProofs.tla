------------------------- MODULE PokeChannelProofs -------------------------
(***************************************************************************)
(* Proofs about PokeChannel for any number of handlers, any room in the    *)
(* connection and any number of deaths.                                    *)
(***************************************************************************)
EXTENDS PokeChannel, TLAPS

\* handle_poke reads on only while its last reply has left.
RepliesFit == handler = "read" => replies <= ReplyRoom

TypeInv == TypeOK /\ RepliesFit

LEMMA InitTypeInv == Init => TypeInv
<1>. SUFFICES ASSUME Init
              PROVE  TypeInv
  OBVIOUS
<1>1. 0 \in 0..(ReplyRoom + 1) /\ 0 \in 0..MaxDeaths /\ 0 <= ReplyRoom
  BY PokeTypes
<1>2. /\ lock \in Seq(Caller \cup {Init0})
      /\ caller \in [Caller -> {"idle", "lock", "drain"}]
  BY DEF Init
<1>. QED  BY <1>1, <1>2 DEF Init, TypeInv, TypeOK, RepliesFit

\* Who holds the lock can give it to the next in the queue.
LEMMA QueueMoves ==
  ASSUME TypeOK, lock # <<>>
  PROVE  Tail(lock) \in Seq(Caller \cup {Init0})
BY DEF TypeOK

LEMMA PokeType ==
  ASSUME TypeInv, NEW k \in Caller, Poke(k) \/ PokeStep(k)
  PROVE  TypeInv'
<1>. USE DEF TypeInv
<1>1. CASE Poke(k)
  <2>1. /\ lock' \in Seq(Caller \cup {Init0})
        /\ caller' \in [Caller -> {"idle", "lock", "drain"}]
        /\ init' \in {"off", "socket", "lock"}
    <3>1. Append(lock, k) \in Seq(Caller \cup {Init0})
      BY DEF TypeOK
    <3>. QED  BY <1>1, <3>1 DEF Poke, StartInitialize, TypeOK
  <2>. QED  BY <1>1, <2>1 DEF Poke, TypeOK, RepliesFit, wireVars, loopVars
<1>2. CASE Write(k)
  <2>1. lock' \in Seq(Caller \cup {Init0})
    BY <1>2, QueueMoves DEF Write, Leave, Holds, TypeOK
  <2>. QED  BY <1>2, <2>1 DEF Write, Leave, TypeOK, RepliesFit, loopVars
<1>3. CASE Drained(k) \/ PokeFails(k)
  <2>1. lock' \in Seq(Caller \cup {Init0})
    BY <1>3, QueueMoves DEF Drained, PokeFails, Leave, Holds, TypeOK
  <2>. QED  BY <1>3, <2>1 DEF Drained, PokeFails, Leave, StartInitialize, TypeOK, RepliesFit,
                              wireVars, loopVars
<1>. QED  BY <1>1, <1>2, <1>3 DEF PokeStep

LEMMA InitializeType ==
  ASSUME TypeInv, SocketFound \/ Open
  PROVE  TypeInv'
<1>. USE DEF TypeInv
<1>1. CASE SocketFound
  BY <1>1 DEF SocketFound, TypeOK, RepliesFit, wireVars, loopVars
<1>2. CASE Open
  <2>1. lock' \in Seq(Caller \cup {Init0})
    BY <1>2, QueueMoves DEF Open, Holds, TypeOK
  <2>. QED  BY <1>2, <2>1, PokeTypes DEF Open, TypeOK, RepliesFit, wireVars, loopVars
<1>. QED  BY <1>1, <1>2

LEMMA ScalerSideType ==
  ASSUME TypeInv, HandlePoke \/ ServerStep \/ LoopStep \/ ScalerDies \/ NexusRestart
  PROVE  TypeInv'
<1>. USE PokeTypes DEF TypeInv, TypeOK, RepliesFit, clientVars
<1>1. CASE HandlePoke
  BY <1>1 DEF HandlePoke
<1>2. CASE ServerStep
  BY <1>2 DEF ServerStep, RemoveSocket, Listen, ScalerStarts, wireVars, loopVars
<1>3. CASE LoopStep
  BY <1>3 DEF LoopStep, Wakes, TimesOut, RoundEnds, wireVars
<1>4. CASE ScalerDies
  <2>1. deaths' \in 0..MaxDeaths /\ 0 \in 0..(ReplyRoom + 1)
    BY <1>4 DEF ScalerDies
  <2>2. socket' \in {"absent", "stale", "listening"} /\ writer' \in {"none", "live", "broken"}
    BY <1>4 DEF ScalerDies
  <2>. QED  BY <1>4, <2>1, <2>2 DEF ScalerDies
<1>5. CASE NexusRestart
  <2>1. deaths' \in 0..MaxDeaths /\ 0 \in 0..(ReplyRoom + 1)
    BY <1>5 DEF NexusRestart
  <2>2. IPC_event' \in BOOLEAN /\ heard' \in BOOLEAN
    BY <1>5 DEF NexusRestart
  <2>3. /\ lock' \in Seq(Caller \cup {Init0})
        /\ caller' \in [Caller -> {"idle", "lock", "drain"}]
    BY <1>5 DEF NexusRestart
  <2>. QED  BY <1>5, <2>1, <2>2, <2>3 DEF NexusRestart
<1>. QED  BY <1>1, <1>2, <1>3, <1>4, <1>5

LEMMA NextTypeInv == TypeInv /\ [Next]_vars => TypeInv'
<1>1. TypeInv /\ Next => TypeInv'
  BY PokeType, InitializeType, ScalerSideType DEF Next
<1>2. TypeInv /\ UNCHANGED vars => TypeInv'
  BY DEF TypeInv, TypeOK, RepliesFit, vars, clientVars, wireVars, loopVars
<1>. QED  BY <1>1, <1>2

\* Type correctness; handle_poke is never more than one reply ahead of the connection.
THEOREM PokeTypeCorrect == Spec => []TypeOK
<1>1. TypeInv => TypeOK
  BY DEF TypeInv
<1>. QED  BY <1>1, InitTypeInv, NextTypeInv, PTL DEF Spec

\* The event that a poke has set is consumed by the round it starts, or stays: the wait
\* that times out does not clear it, and no death leaves the one without the other.
THEOREM PokesHeard == Spec => []NoPokeLost
<1>1. Init => NoPokeLost
  BY DEF Init, NoPokeLost
<1>2. NoPokeLost /\ [Next]_vars => NoPokeLost'
  <2>. SUFFICES ASSUME NoPokeLost, [Next]_vars
                PROVE  NoPokeLost'
    OBVIOUS
  <2>1. CASE HandlePoke \/ ScalerDies \/ NexusRestart
    BY <2>1 DEF HandlePoke, ScalerDies, NexusRestart, NoPokeLost
  <2>2. CASE Wakes \/ TimesOut
    BY <2>2 DEF Wakes, TimesOut, NoPokeLost
  <2>3. CASE RoundEnds
    BY <2>3 DEF RoundEnds, NoPokeLost
  <2>4. CASE UNCHANGED loopVars
    BY <2>4 DEF loopVars, NoPokeLost
  <2>. QED  BY <2>1, <2>2, <2>3, <2>4
            DEF Next, LoopStep, Poke, PokeStep, Write, Drained, PokeFails, SocketFound, Open, ServerStep,
                RemoveSocket, Listen, ScalerStarts, vars
<1>. QED  BY <1>1, <1>2, PTL DEF Spec
=============================================================================
