-------------------------- MODULE ArmControlProofs --------------------------
(***************************************************************************)
(* For every set of arms, recordings and loops: one owner per arm, and no  *)
(* command stream past its owner's lease.  And of what the arms' motion is *)
(* recorded into (module Recordings): a shutdown leaves none of the        *)
(* episodes it found at work half recorded, whatever requests, faults and  *)
(* tasks are about; and, with one operator and any number of polling       *)
(* pages, the row matches the files and no finalized episode's files go    *)
(* before the Hub has them, unless its manifest could not be read.         *)
(***************************************************************************)
EXTENDS ArmControl, Recordings, FiniteSetTheorems, NaturalsInduction, WellFoundedInduction, TLAPS

(* Whose token is whose.                                                   *)
TokensOf(r) == {TeleopToken(r, n) : n \in Nonces}
TokenTypes ==
    /\ leases \subseteq TeleopTokens \cup {LoopToken(i) : i \in Loops}
                        \cup {JogToken(a) : a \in Arms} \cup {SetupToken(S) : S \in SetupScopes}
    /\ stream \in [Arms -> SUBSET (Recordings \cup Loops)]
    /\ \A r \in Recordings :
        rigToken[r] \subseteq TokensOf(r) /\ \A p \in pending[r] : p.token \in TokensOf(r)

(* Streams stay where their owner commands, and start with its lease.      *)
StreamsInPlace ==
    \A a \in Arms :
        /\ \A r \in Recordings : r \in stream[a] => a = Follower[r]
        /\ \A i \in Loops : i \in stream[a] => a = LoopArm[i] /\ loop[i] \in {"running", "settling", "blocked"}

(* A runtime's token is active; while its task runs nobody is about to     *)
(* release it, and without its task the pair is not synchronized.          *)
TeleopHolds ==
    \A r \in Recordings :
        /\ rigToken[r] \subseteq leases
        /\ sync[r] # "off" => teleop[r] = "run"
        /\ teleop[r] = "run" => rigToken[r] # {} /\ \A p \in pending[r] : p.token \notin rigToken[r]

(* So is the token of every loop, jog and setup operation under way.       *)
OthersHold ==
    /\ \A i \in Loops : loop[i] \notin {"new", "done"} => LoopToken(i) \in leases
    /\ \A a \in jog : JogToken(a) \in leases
    /\ setup # {} => SetupToken(setup) \in leases

(* Only the runtime's own token is active for a recording.                 *)
TokenKnown == \A r \in Recordings : \A t \in leases : t.id = r => t \in rigToken[r]

(* A lease nothing runs under is being released or known to be kept.       *)
Accounted ==
    \A r \in Recordings : \A t \in leases :
        t.id = r => \/ teleop[r] = "run" \/ t \in uncertain
                    \/ \E p \in pending[r] : p.token = t

IInv ==
    /\ TypeOK
    /\ TokenTypes
    /\ OneOwnerPerArm
    /\ StreamIsOwned
    /\ StreamsInPlace
    /\ TeleopHolds
    /\ OthersHold
    /\ TokenKnown
    /\ Accounted

-----------------------------------------------------------------------------
(* Tokens *)

ActiveTokens == TeleopTokens \cup {LoopToken(i) : i \in Loops}
                  \cup {JogToken(a) : a \in Arms} \cup {SetupToken(S) : S \in SetupScopes}

LEMMA TokenIds ==
    /\ \A r \in Recordings : \A t \in TokensOf(r) : t.id = r /\ t \in TeleopTokens
    /\ \A i \in Loops : LoopToken(i).id = i
    /\ \A a \in Arms : JogToken(a).id = a
    /\ \A S \in SetupScopes : SetupToken(S).id = "setup"
    /\ \A r \in Recordings : \A t \in ActiveTokens : t.id = r => t \in TokensOf(r)
    /\ \A i \in Loops : \A t \in ActiveTokens : t.id = i => t = LoopToken(i)
  BY ModesAssumption DEF TokensOf, TeleopTokens, TeleopToken, LoopToken, JogToken, SetupToken,
     LeaseToken, ActiveTokens

LEMMA TokenArms ==
    /\ \A r \in Recordings : \A t \in TokensOf(r) : t.resources = Pair(r) /\ Controls(t) = Pair(r)
    /\ \A i \in Loops : Controls(LoopToken(i)) = {LoopArm[i]}
    /\ \A a \in Arms : Controls(JogToken(a)) = {a}
  BY PairsAssumption, ScopesAssumption DEF TokensOf, TeleopToken, LoopToken, JogToken, LeaseToken,
     Controls, Pair

(* Resources that do not conflict are disjoint sets of arms.               *)
LEMMA FreeMeansDisjoint ==
    ASSUME NEW t, Free(t.resources)
    PROVE  \A u \in leases : Controls(t) \cap Controls(u) = {} 
  BY DEF Free, ResourcesConflict, Controls

-----------------------------------------------------------------------------
(* What a step does to the leases and streams, whoever takes it *)

LEMMA TakingKeepsOwners ==
    ASSUME OneOwnerPerArm, NEW t, Acquire(t)
    PROVE  OneOwnerPerArm'
  BY FreeMeansDisjoint DEF OneOwnerPerArm, Acquire, Controls

LEMMA GivingKeepsOwners ==
    ASSUME OneOwnerPerArm, leases' \subseteq leases
    PROVE  OneOwnerPerArm'
  BY DEF OneOwnerPerArm, Controls

LEMMA RevokingKeepsStreams ==
    ASSUME StreamIsOwned, leases \subseteq leases', \A a \in Arms : stream'[a] \subseteq stream[a]
    PROVE  StreamIsOwned'
  BY DEF StreamIsOwned, Controls

LEMMA ReleasingKeepsStreams ==
    ASSUME StreamIsOwned, NEW t, Release(t),
           \A a \in Arms : stream'[a] \subseteq stream[a] /\ t.id \notin stream'[a]
    PROVE  StreamIsOwned'
  BY DEF StreamIsOwned, Release, Controls

LEMMA CommandKeepsStreams ==
    ASSUME StreamIsOwned, stream \in [Arms -> SUBSET (Recordings \cup Loops)],
           NEW b \in Arms, NEW who, Streams(b, who), UNCHANGED leases,
           NEW t \in leases, t.id = who, b \in Controls(t)
    PROVE  StreamIsOwned'
  <1> SUFFICES ASSUME NEW a \in Arms, NEW w \in stream'[a]
               PROVE  \E u \in leases' : u.id = w /\ a \in Controls(u)
    BY DEF StreamIsOwned, Controls
  <1>1. CASE a = b
    BY <1>1 DEF Streams
  <1>2. CASE a # b
    BY <1>2 DEF Streams, StreamIsOwned
  <1> QED BY <1>1, <1>2

-----------------------------------------------------------------------------
(* The release of a pair, whenever it comes and whoever else has been there*)

LEMMA PairRelease ==
    ASSUME IInv, NEW r \in Recordings, NEW t \in TokensOf(r), ReleasePair(r, t)
    PROVE  /\ leases' \subseteq leases /\ leases \ {t} \subseteq leases'
           /\ t \in leases /\ t \notin leases' => rigToken'[r] = {}
           /\ \A x \in Recordings : rigToken'[x] \subseteq rigToken[x]
           /\ \A x \in Recordings \ {r} : rigToken'[x] = rigToken[x]
           /\ stream' \in [Arms -> SUBSET (Recordings \cup Loops)]
           /\ \A a \in Arms : stream'[a] \subseteq stream[a]
           /\ OneOwnerPerArm' /\ StreamIsOwned'
  <1>0. /\ rigToken \in [Recordings -> SUBSET TeleopTokens]
        /\ stream \in [Arms -> SUBSET (Recordings \cup Loops)]
    BY DEF IInv, TypeOK
  <1>1. /\ leases' \subseteq leases /\ leases \ {t} \subseteq leases'
        /\ t \in leases /\ t \notin leases' => rigToken'[r] = {}
        /\ \A x \in Recordings : rigToken'[x] \subseteq rigToken[x]
        /\ \A x \in Recordings \ {r} : rigToken'[x] = rigToken[x]
    BY <1>0 DEF ReleasePair, ReleaseMotion, KeepMotion, Release
  <1>2. /\ stream' \in [Arms -> SUBSET (Recordings \cup Loops)]
        /\ \A a \in Arms : stream'[a] \subseteq stream[a]
    BY <1>0 DEF ReleasePair, ReleaseMotion, KeepMotion, SafeIdle, LatchFault, Unconfirmed, Revoke
  <1>3. OneOwnerPerArm'
    BY <1>1, GivingKeepsOwners DEF IInv
  <1>4. StreamIsOwned'
    <2>1. CASE KeepMotion({Follower[r]})
      BY <1>2, <2>1, RevokingKeepsStreams DEF IInv, KeepMotion
    <2>2. CASE ReleaseMotion({Follower[r]}, t)
      <3>1. t.id = r
        BY TokenIds
      <3>2. \A a \in Arms : r \notin stream'[a]
        BY <1>0, <1>2, <2>2 DEF ReleaseMotion, SafeIdle, LatchFault, Revoke, IInv, StreamsInPlace
      <3> QED BY <1>2, <2>2, <3>1, <3>2, ReleasingKeepsStreams DEF IInv, ReleaseMotion
    <2> QED BY <2>1, <2>2 DEF ReleasePair
  <1> QED BY <1>1, <1>2, <1>3, <1>4

(* A command is only given by who holds the arm.                           *)
LEMMA HolderCommands ==
    ASSUME IInv, NEW r \in Recordings, NEW t \in rigToken[r], Streams(Follower[r], r), UNCHANGED leases
    PROVE  StreamIsOwned'
  <1>1. t \in TokensOf(r) /\ t \in leases
    BY DEF IInv, TokenTypes, TeleopHolds
  <1>2. t.id = r /\ Follower[r] \in Controls(t) /\ Follower[r] \in Arms
    BY <1>1, TokenIds, TokenArms, PairsAssumption DEF Pair
  <1> QED BY <1>1, <1>2, CommandKeepsStreams DEF IInv, TokenTypes

LEMMA SafeStep ==
    ASSUME IInv, Next
    PROVE  OneOwnerPerArm' /\ StreamIsOwned'
  <1> DEFINE Safe == OneOwnerPerArm /\ StreamIsOwned
  <1>0. /\ OneOwnerPerArm /\ StreamIsOwned
        /\ stream \in [Arms -> SUBSET (Recordings \cup Loops)]
    BY DEF IInv, TokenTypes
  <1>q. ASSUME leases' = leases, \A a \in Arms : stream'[a] \subseteq stream[a]
        PROVE  Safe'
    BY <1>0, <1>q, GivingKeepsOwners, RevokingKeepsStreams
  <1>n. ASSUME UNCHANGED rigVars PROVE Safe'
    BY <1>n, <1>q DEF rigVars
  <1>t. ASSUME NEW t, Acquire(t), UNCHANGED stream PROVE Safe'
    <2>1. leases \subseteq leases' /\ \A a \in Arms : stream'[a] \subseteq stream[a]
      BY <1>t DEF Acquire
    <2> QED BY <1>0, <1>t, <2>1, TakingKeepsOwners, RevokingKeepsStreams
  <1>g. ASSUME NEW t, Release(t), \A a \in Arms : stream'[a] \subseteq stream[a] /\ t.id \notin stream'[a]
        PROVE  Safe'
    <2>1. leases' \subseteq leases
      BY <1>g DEF Release
    <2> QED BY <1>0, <1>g, <2>1, GivingKeepsOwners, ReleasingKeepsStreams
  <1>p. ASSUME NEW r \in Recordings, NEW t \in TokensOf(r), ReleasePair(r, t) PROVE Safe'
    BY <1>p, PairRelease
  <1>1. ASSUME NEW r \in Recordings, TeleopNext(r) PROVE Safe'
    <2>0. rigToken[r] \subseteq TokensOf(r) /\ \A p \in pending[r] : p.token \in TokensOf(r)
      BY DEF IInv, TokenTypes
    <2>1. CASE StartTeleop(r)
      BY <2>1, <1>t DEF StartTeleop
    <2>2. CASE EnableSync(r)
      BY <2>2, <1>n DEF EnableSync
    <2>3. CASE SyncStep(r)
      <3>1. PICK t \in rigToken[r] : TRUE
        BY <2>3 DEF SyncStep, HoldsPair
      <3>2. StreamIsOwned'
        BY <2>3, <3>1, HolderCommands DEF SyncStep
      <3> QED BY <1>0, <2>3, <3>2, GivingKeepsOwners DEF SyncStep
    <2>4. CASE TeleopStep(r)
      <3>1. PICK t \in rigToken[r] : TRUE
        BY <2>4 DEF TeleopStep, IInv, TeleopHolds
      <3>2. StreamIsOwned'
        BY <2>4, <3>1, HolderCommands DEF TeleopStep
      <3> QED BY <1>0, <2>4, <3>2, GivingKeepsOwners DEF TeleopStep
    <2>5. CASE TeleopFails(r)
      BY <2>0, <2>5, <1>n, <1>p DEF TeleopFails
    <2>6. CASE SyncFails(r)
      BY <2>6, <1>n DEF SyncFails
    <2>7. CASE DisableSync(r)
      BY <1>0, <2>7, <1>n, <1>q DEF DisableSync, TriesIdle, SafeIdle, Unconfirmed, LatchFault, Revoke
    <2>8. CASE DisableSyncEnds(r)
      BY <1>0, <2>8, <1>q DEF DisableSyncEnds, TriesIdle, SafeIdle, Unconfirmed, LatchFault, Revoke
    <2>9. CASE StopTeleop(r)
      BY <2>9, <1>n DEF StopTeleop
    <2>10. CASE Compensate(r)
      BY <2>0, <2>10, <1>n, <1>p DEF Compensate
    <2>11. CASE CloseEnds(r)
      BY <2>0, <2>11, <1>p DEF CloseEnds
    <2> QED BY <1>1, <2>1, <2>2, <2>3, <2>4, <2>5, <2>6, <2>7, <2>8, <2>9, <2>10, <2>11 DEF TeleopNext
  <1>2. CASE Shutdown
    BY <1>2, <1>n DEF Shutdown
  <1>3. ASSUME NEW i \in Loops, LoopNext(i) PROVE Safe'
    <2>0. LoopToken(i).id = i /\ Controls(LoopToken(i)) = {LoopArm[i]} /\ LoopArm[i] \in Arms
      BY TokenIds, TokenArms, PairsAssumption
    <2>1. CASE LoopStart(i)
      BY <2>1, <1>t DEF LoopStart
    <2>2. CASE LoopReady(i)
      BY <2>2, <1>n DEF LoopReady
    <2>3. CASE LoopAborts(i)
      <3>1. \A a \in Arms : i \notin stream[a]
        BY <2>3 DEF LoopAborts, LoopGoes, IInv, StreamsInPlace
      <3> QED BY <2>0, <2>3, <3>1, <1>g DEF LoopAborts
    <2>4. CASE LoopApplies(i)
      <3>1. LoopToken(i) \in leases
        BY <2>4 DEF LoopApplies, IInv, OthersHold
      <3>2. StreamIsOwned'
        BY <1>0, <2>0, <2>4, <3>1, CommandKeepsStreams DEF LoopApplies
      <3> QED BY <1>0, <2>4, <3>2, GivingKeepsOwners DEF LoopApplies
    <2>5. CASE LoopStops(i)
      BY <2>5, <1>n DEF LoopStops
    <2>6. CASE LoopReleases(i)
      <3>1. CASE KeepMotion({LoopArm[i]})
        BY <1>0, <3>1, <1>q DEF KeepMotion, Unconfirmed, LatchFault, Revoke
      <3>2. CASE ReleaseMotion({LoopArm[i]}, LoopToken(i))
        <4>1. \A a \in Arms : stream'[a] \subseteq stream[a] /\ i \notin stream'[a]
          BY <1>0, <3>2 DEF ReleaseMotion, SafeIdle, LatchFault, Revoke, IInv, StreamsInPlace
        <4> QED BY <2>0, <3>2, <4>1, <1>g DEF ReleaseMotion
      <3> QED BY <2>6, <3>1, <3>2 DEF LoopReleases
    <2> QED BY <1>3, <2>1, <2>2, <2>3, <2>4, <2>5, <2>6 DEF LoopNext
  <1>4. ASSUME NEW a \in Followers, JogStart(a) \/ JogEnds(a) \/ IdleTimer(a) \/ DriverFaults(a) PROVE Safe'
    <2>0. a \in Arms
      BY PairsAssumption DEF Followers
    <2>1. CASE JogStart(a)
      BY <2>1, <1>t DEF JogStart
    <2>2. CASE JogEnds(a)
      <3>1. \A b \in Arms : JogToken(a).id \notin stream[b]
        BY <1>0, <2>0, TokenIds, ModesAssumption
      <3> QED BY <2>2, <3>1, <1>g DEF JogEnds
    <2>3. CASE IdleTimer(a)
      BY <1>0, <2>3, <1>q DEF IdleTimer, SafeIdle, LatchFault, Revoke
    <2>4. CASE DriverFaults(a)
      BY <1>0, <2>4, <1>q DEF DriverFaults, LatchFault, Revoke
    <2> QED BY <1>4, <2>1, <2>2, <2>3, <2>4
  <1>5. ASSUME NEW S \in SetupScopes, SetupStart(S) PROVE Safe'
    BY <1>5, <1>t DEF SetupStart
  <1>6. CASE SetupEnds
    <2>1. setup \in SetupScopes
      BY <1>6 DEF SetupEnds, IInv, TypeOK
    <2>2. \A b \in Arms : SetupToken(setup).id \notin stream[b]
      BY <1>0, <2>1, TokenIds, ModesAssumption
    <2>3. \A b \in Arms : stream'[b] \subseteq stream[b]
      BY <1>0, <1>6 DEF SetupEnds, Revoke
    <2> QED BY <1>6, <2>2, <2>3, <1>g DEF SetupEnds
  <1> QED BY <1>1, <1>2, <1>3, <1>4, <1>5, <1>6 DEF Next

-----------------------------------------------------------------------------
(* Types *)

LEMMA InitIInv == Init => IInv
<1> SUFFICES ASSUME Init PROVE IInv
  OBVIOUS
<1>1. TypeOK /\ TokenTypes
  BY DEF Init, TypeOK, TokenTypes, TeleopPc, SyncPc, LoopPc, Closer
<1>2. OneOwnerPerArm /\ StreamIsOwned /\ StreamsInPlace
  BY DEF Init, OneOwnerPerArm, StreamIsOwned, StreamsInPlace
<1>3. TeleopHolds /\ OthersHold
  BY DEF Init, TeleopHolds, OthersHold
<1>4. TokenKnown /\ Accounted
  BY DEF Init, TokenKnown, Accounted
<1> QED
  BY <1>1, <1>2, <1>3, <1>4, Zenon DEF IInv

RigTypes ==
    /\ leases \subseteq ActiveTokens
    /\ stream \in [Arms -> SUBSET (Recordings \cup Loops)]
    /\ latched \subseteq Arms
TaskTypes ==
    /\ teleop \in [Recordings -> TeleopPc]
    /\ sync \in [Recordings -> SyncPc]
    /\ idling \subseteq Recordings
    /\ shuttingDown \in BOOLEAN
OwnTokens ==
    /\ rigToken \in [Recordings -> SUBSET TeleopTokens]
    /\ pending \in [Recordings -> SUBSET [by : Closer, token : TeleopTokens]]
    /\ uncertain \subseteq TeleopTokens
    /\ \A r \in Recordings :
        rigToken[r] \subseteq TokensOf(r) /\ \A p \in pending[r] : p.token \in TokensOf(r)
OtherTypes ==
    /\ loop \in [Loops -> LoopPc]
    /\ jog \subseteq Arms
    /\ setup \in SetupScopes \cup {{}}

LEMMA TypeParts ==
    TypeOK /\ TokenTypes <=> RigTypes /\ TaskTypes /\ OwnTokens /\ OtherTypes
  BY DEF TypeOK, TokenTypes, RigTypes, TaskTypes, OwnTokens, OtherTypes, ActiveTokens

LEMMA RigTypeStep ==
    ASSUME IInv, Next
    PROVE  RigTypes'
  <1>0. RigTypes /\ TypeOK
    BY TypeParts DEF IInv
  <1>n. UNCHANGED rigVars => RigTypes'
    BY <1>0 DEF RigTypes, rigVars
  <1>r. ASSUME NEW S \in SUBSET Arms, SafeIdle(S) \/ LatchFault(S) \/ Unconfirmed(S)
        PROVE  /\ stream' \in [Arms -> SUBSET (Recordings \cup Loops)]
               /\ latched' \subseteq Arms
    BY <1>0, <1>r DEF RigTypes, SafeIdle, LatchFault, Unconfirmed, Revoke
  <1>s. ASSUME NEW a \in Arms, NEW who \in Recordings \cup Loops, Streams(a, who), UNCHANGED leases
        PROVE  RigTypes'
    BY <1>0, <1>s DEF RigTypes, Streams
  <1>p. ASSUME NEW r \in Recordings, NEW t, ReleasePair(r, t) PROVE RigTypes'
    <2>1. {Follower[r]} \in SUBSET Arms
      BY PairsAssumption
    <2>2. leases' \subseteq leases
      BY <1>p DEF ReleasePair, ReleaseMotion, KeepMotion, Release
    <2> QED BY <1>0, <1>p, <1>r, <2>1, <2>2 DEF RigTypes, ReleasePair, ReleaseMotion, KeepMotion
  <1>1. ASSUME NEW r \in Recordings, TeleopNext(r) PROVE RigTypes'
    <2>0. Follower[r] \in Arms /\ {Follower[r]} \in SUBSET Arms
      BY PairsAssumption
    <2>1. CASE StartTeleop(r)
      BY <1>0, <2>1 DEF StartTeleop, Acquire, RigTypes, ActiveTokens, TeleopTokens
    <2>2. CASE SyncStep(r) \/ TeleopStep(r)
      BY <2>0, <2>2, <1>s DEF SyncStep, TeleopStep
    <2>3. CASE EnableSync(r) \/ SyncFails(r) \/ StopTeleop(r)
      BY <2>3, <1>n DEF EnableSync, SyncFails, StopTeleop
    <2>4. CASE TeleopFails(r) \/ Compensate(r) \/ CloseEnds(r)
      BY <2>4, <1>n, <1>p DEF TeleopFails, Compensate, CloseEnds
    <2>5. CASE DisableSync(r) \/ DisableSyncEnds(r)
      BY <1>0, <2>0, <2>5, <1>n, <1>r DEF DisableSync, DisableSyncEnds, TriesIdle, RigTypes
    <2> QED BY <1>1, <2>1, <2>2, <2>3, <2>4, <2>5 DEF TeleopNext
  <1>2. CASE Shutdown
    BY <1>2, <1>n DEF Shutdown
  <1>3. ASSUME NEW i \in Loops, LoopNext(i) PROVE RigTypes'
    <2>0. LoopArm[i] \in Arms /\ {LoopArm[i]} \in SUBSET Arms
      BY PairsAssumption
    <2>1. CASE LoopStart(i)
      BY <1>0, <2>1 DEF LoopStart, Acquire, RigTypes, ActiveTokens
    <2>2. CASE LoopReady(i) \/ LoopStops(i)
      BY <2>2, <1>n DEF LoopReady, LoopStops
    <2>3. CASE LoopAborts(i)
      BY <1>0, <2>3 DEF LoopAborts, Release, RigTypes
    <2>4. CASE LoopApplies(i)
      BY <2>0, <2>4, <1>s DEF LoopApplies
    <2>5. CASE LoopReleases(i)
      BY <1>0, <2>0, <2>5, <1>r DEF LoopReleases, ReleaseMotion, KeepMotion, Release, RigTypes
    <2> QED BY <1>3, <2>1, <2>2, <2>3, <2>4, <2>5 DEF LoopNext
  <1>4. ASSUME NEW a \in Followers, JogStart(a) \/ JogEnds(a) \/ IdleTimer(a) \/ DriverFaults(a)
        PROVE  RigTypes'
    <2>0. a \in Arms /\ {a} \in SUBSET Arms
      BY PairsAssumption DEF Followers
    <2>1. CASE JogStart(a)
      BY <1>0, <2>0, <2>1 DEF JogStart, Acquire, RigTypes, ActiveTokens
    <2>2. CASE JogEnds(a)
      BY <1>0, <2>2 DEF JogEnds, Release, RigTypes
    <2>3. CASE IdleTimer(a) \/ DriverFaults(a)
      BY <1>0, <2>0, <2>3, <1>r DEF IdleTimer, DriverFaults, RigTypes
    <2> QED BY <1>4, <2>1, <2>2, <2>3
  <1>5. ASSUME NEW S \in SetupScopes, SetupStart(S) PROVE RigTypes'
    BY <1>0, <1>5 DEF SetupStart, Acquire, RigTypes, ActiveTokens
  <1>6. CASE SetupEnds
    <2>1. Controls(SetupToken(setup)) \subseteq Arms
      <3>1. setup \in SetupScopes
        BY <1>0, <1>6 DEF SetupEnds, TypeOK
      <3> QED BY <3>1, ScopesAssumption DEF Controls, SetupToken, LeaseToken
    <2>2. leases' \subseteq leases /\ latched' \subseteq Arms
      BY <1>0, <1>6, <2>1 DEF SetupEnds, Release, RigTypes
    <2>3. stream' \in [Arms -> SUBSET (Recordings \cup Loops)]
      BY <1>0, <1>6 DEF SetupEnds, Revoke, RigTypes
    <2> QED BY <1>0, <2>2, <2>3 DEF RigTypes
  <1> QED BY <1>1, <1>2, <1>3, <1>4, <1>5, <1>6 DEF Next

LEMMA TaskTypeStep ==
    ASSUME TaskTypes, OtherTypes, Next
    PROVE  TaskTypes' /\ OtherTypes'
  <1> USE DEF TaskTypes, OtherTypes, TeleopPc, SyncPc, LoopPc
  <1>1. ASSUME NEW r \in Recordings, TeleopNext(r) PROVE TaskTypes'
    <2>1. CASE StartTeleop(r) \/ EnableSync(r) \/ SyncStep(r) \/ TeleopStep(r)
      BY <2>1 DEF StartTeleop, EnableSync, SyncStep, TeleopStep, teleopVars
    <2>2. CASE TeleopFails(r) \/ SyncFails(r) \/ DisableSync(r) \/ DisableSyncEnds(r)
      BY <2>2 DEF TeleopFails, SyncFails, DisableSync, DisableSyncEnds
    <2>3. Detached(r) \in TeleopPc
      BY DEF Detached
    <2>4. CASE StopTeleop(r) \/ Compensate(r)
      BY <2>3, <2>4 DEF StopTeleop, Compensate
    <2>5. CASE CloseEnds(r)
      BY <2>5 DEF CloseEnds
    <2> QED BY <1>1, <2>1, <2>2, <2>4, <2>5 DEF TeleopNext
  <1>2. ASSUME NEW r \in Recordings, TeleopNext(r) PROVE OtherTypes'
    BY <1>2 DEF TeleopNext, StartTeleop, EnableSync, SyncStep, TeleopStep, TeleopFails, SyncFails,
       DisableSync, DisableSyncEnds, StopTeleop, Compensate, CloseEnds
  <1>3. CASE Shutdown
    BY <1>3 DEF Shutdown
  <1>4. ASSUME NEW i \in Loops, LoopNext(i) PROVE TaskTypes' /\ OtherTypes'
    BY <1>4 DEF LoopNext, LoopStart, LoopReady, LoopAborts, LoopApplies, LoopStops, LoopReleases,
       LoopGoes, teleopVars
  <1>5. ASSUME NEW a \in Followers, JogStart(a) \/ JogEnds(a) \/ IdleTimer(a) \/ DriverFaults(a)
        PROVE  TaskTypes' /\ OtherTypes'
    <2>1. a \in Arms
      BY PairsAssumption DEF Followers
    <2> QED BY <1>5, <2>1 DEF JogStart, JogEnds, IdleTimer, DriverFaults, teleopVars
  <1>6. ASSUME NEW S \in SetupScopes, SetupStart(S) PROVE TaskTypes' /\ OtherTypes'
    BY <1>6 DEF SetupStart, teleopVars
  <1>7. CASE SetupEnds
    BY <1>7 DEF SetupEnds, teleopVars
  <1> QED BY <1>1, <1>2, <1>3, <1>4, <1>5, <1>6, <1>7 DEF Next

LEMMA OwnTokenStep ==
    ASSUME IInv, Next
    PROVE  OwnTokens'
  <1>0. OwnTokens
    BY TypeParts DEF IInv
  <1>n. UNCHANGED <<rigToken, pending, uncertain>> => OwnTokens'
    BY <1>0 DEF OwnTokens
  <1>c. ASSUME NEW r \in Recordings, NEW by \in Closer, Close(r, by), UNCHANGED <<rigToken, uncertain>>
        PROVE  OwnTokens'
    <2>1. pending' \in [Recordings -> SUBSET [by : Closer, token : TeleopTokens]]
      BY <1>0, <1>c DEF OwnTokens, Close
    <2>2. \A x \in Recordings : \A p \in pending'[x] : p.token \in TokensOf(x)
      BY <1>0, <1>c DEF OwnTokens, Close
    <2> QED BY <1>0, <1>c, <2>1, <2>2 DEF OwnTokens
  <1>p. ASSUME NEW r \in Recordings, NEW t \in TokensOf(r), ReleasePair(r, t)
        PROVE  /\ rigToken' \in [Recordings -> SUBSET TeleopTokens]
               /\ uncertain' \subseteq TeleopTokens
               /\ \A x \in Recordings : rigToken'[x] \subseteq TokensOf(x)
    <2>1. t \in TeleopTokens
      BY TokenIds
    <2> QED BY <1>0, <1>p, <2>1 DEF OwnTokens, ReleasePair
  <1>1. ASSUME NEW r \in Recordings, TeleopNext(r) PROVE OwnTokens'
    <2>0. rigToken[r] \subseteq TokensOf(r) /\ \A p \in pending[r] : p.token \in TokensOf(r)
      BY <1>0 DEF OwnTokens
    <2>1. CASE StartTeleop(r)
      <3>1. PICK n \in Nonces : rigToken' = [rigToken EXCEPT ![r] = {TeleopToken(r, n)}]
        BY <2>1 DEF StartTeleop
      <3>2. TeleopToken(r, n) \in TokensOf(r) /\ TeleopToken(r, n) \in TeleopTokens
        BY DEF TokensOf, TeleopTokens
      <3> QED BY <1>0, <2>1, <3>1, <3>2 DEF StartTeleop, OwnTokens
    <2>2. CASE EnableSync(r) \/ SyncStep(r) \/ TeleopStep(r) \/ DisableSync(r) \/ DisableSyncEnds(r)
      BY <2>2, <1>n DEF EnableSync, SyncStep, TeleopStep, DisableSync, DisableSyncEnds, teleopVars
    <2>3. CASE TeleopFails(r) \/ Compensate(r)
      <3>1. CASE \E t \in rigToken[r] : ReleasePair(r, t) /\ UNCHANGED pending
        BY <1>0, <2>0, <3>1, <1>p DEF OwnTokens
      <3>2. CASE (Close(r, "failure") \/ Close(r, "compensate")) /\ UNCHANGED <<rigToken, uncertain>>
        BY <3>2, <1>c DEF Closer
      <3>3. \/ \E s \in rigToken[r] : ReleasePair(r, s) /\ UNCHANGED pending
            \/ (Close(r, "failure") \/ Close(r, "compensate")) /\ UNCHANGED <<rigVars, rigToken, uncertain>>
        <4>1. TeleopFails(r) => ((\E s \in rigToken[r] : ReleasePair(r, s)) /\ UNCHANGED pending)
                                 \/ (Close(r, "failure") /\ UNCHANGED <<rigVars, rigToken, uncertain>>)
          BY ZenonT(30) DEF TeleopFails
        <4>2. Compensate(r) => ((\E s \in rigToken[r] : ReleasePair(r, s)) /\ UNCHANGED pending)
                                \/ (Close(r, "compensate") /\ UNCHANGED <<rigVars, rigToken, uncertain>>)
          BY ZenonT(30) DEF Compensate
        <4> QED BY <2>3, <4>1, <4>2
      <3> QED BY <3>1, <3>2, <3>3
    <2>4. CASE SyncFails(r) \/ StopTeleop(r)
      BY <2>4, <1>c DEF SyncFails, StopTeleop, Closer
    <2>5. CASE CloseEnds(r)
      <3>1. PICK p \in pending[r] : pending' = [pending EXCEPT ![r] = @ \ {p}] /\ ReleasePair(r, p.token)
        BY <2>5 DEF CloseEnds
      <3>2. /\ pending' \in [Recordings -> SUBSET [by : Closer, token : TeleopTokens]]
            /\ \A x \in Recordings : \A q \in pending'[x] : q.token \in TokensOf(x)
        BY <1>0, <3>1 DEF OwnTokens
      <3> QED BY <2>0, <3>1, <3>2, <1>p DEF OwnTokens
    <2> QED BY <1>1, <2>1, <2>2, <2>3, <2>4, <2>5 DEF TeleopNext
  <1>2. CASE Shutdown
    <2>1. /\ pending' \in [Recordings -> SUBSET [by : Closer, token : TeleopTokens]]
          /\ \A x \in Recordings : \A p \in pending'[x] : p.token \in TokensOf(x)
      BY <1>0, <1>2 DEF Shutdown, OwnTokens, Closer
    <2> QED BY <1>0, <1>2, <2>1 DEF Shutdown, OwnTokens
  <1>3. ASSUME NEW i \in Loops, LoopNext(i) PROVE OwnTokens'
    BY <1>3, <1>n DEF LoopNext, LoopStart, LoopReady, LoopAborts, LoopApplies, LoopStops,
       LoopReleases, teleopVars
  <1>4. ASSUME NEW a \in Followers, JogStart(a) \/ JogEnds(a) \/ IdleTimer(a) \/ DriverFaults(a)
        PROVE  OwnTokens'
    BY <1>4, <1>n DEF JogStart, JogEnds, IdleTimer, DriverFaults, teleopVars
  <1>5. ASSUME NEW S \in SetupScopes, SetupStart(S) \/ SetupEnds PROVE OwnTokens'
    BY <1>5, <1>n DEF SetupStart, SetupEnds, teleopVars
  <1>6. SetupEnds => OwnTokens'
    BY <1>n DEF SetupEnds, teleopVars
  <1> QED BY <1>1, <1>2, <1>3, <1>4, <1>5, <1>6 DEF Next

-----------------------------------------------------------------------------
(* Who holds what *)

LEMMA TokensDiffer ==
    /\ \A r \in Recordings : \A t \in TokensOf(r) :
        /\ \A x \in Recordings : t \in TokensOf(x) => x = r
        /\ \A i \in Loops : t # LoopToken(i)
        /\ \A a \in Arms : t # JogToken(a)
        /\ \A S \in SetupScopes : t # SetupToken(S)
    /\ \A i, j \in Loops : LoopToken(i) = LoopToken(j) => i = j
    /\ \A a, b \in Arms : JogToken(a) = JogToken(b) => a = b
    /\ \A i \in Loops : \A a \in Arms : LoopToken(i) # JogToken(a)
    /\ \A i \in Loops : \A S \in SetupScopes : LoopToken(i) # SetupToken(S)
    /\ \A a \in Arms : \A S \in SetupScopes : JogToken(a) # SetupToken(S)
  BY DEF TokensOf, TeleopToken, LoopToken, JogToken, SetupToken, LeaseToken

(* What is released is the releaser's own.                                 *)
PairGives(r, t) ==
    /\ TeleopNext(r) /\ leases \ {t} \subseteq leases'
    /\ t \in leases /\ t \notin leases' => rigToken'[r] = {}
LoopGives(i) == LoopNext(i) /\ loop'[i] = "done" /\ leases \ {LoopToken(i)} \subseteq leases'
JogGives(a) == JogEnds(a) /\ leases \ {JogToken(a)} \subseteq leases'
SetupGives == SetupEnds /\ leases \ {SetupToken(setup)} \subseteq leases'

LEMMA LeasesKept ==
    ASSUME IInv, Next
    PROVE  \/ leases \subseteq leases'
           \/ \E r \in Recordings : \E t \in TokensOf(r) : PairGives(r, t)
           \/ \E i \in Loops : LoopGives(i)
           \/ \E a \in Arms : JogGives(a)
           \/ SetupGives
  <1>1. ASSUME NEW r \in Recordings, TeleopNext(r)
        PROVE  leases \subseteq leases' \/ \E t \in TokensOf(r) : PairGives(r, t)
    <2>0. rigToken[r] \subseteq TokensOf(r) /\ \A p \in pending[r] : p.token \in TokensOf(r)
      BY DEF IInv, TokenTypes
    <2>p. ASSUME NEW t \in TokensOf(r), ReleasePair(r, t) PROVE PairGives(r, t)
      BY <1>1, <2>p, PairRelease DEF PairGives
    <2>1. CASE TeleopFails(r) \/ Compensate(r)
      BY <2>0, <2>1, <2>p DEF TeleopFails, Compensate, rigVars
    <2>2. CASE CloseEnds(r)
      BY <2>0, <2>2, <2>p DEF CloseEnds
    <2>3. CASE StartTeleop(r) \/ EnableSync(r) \/ SyncStep(r) \/ TeleopStep(r) \/ SyncFails(r)
               \/ DisableSync(r) \/ DisableSyncEnds(r) \/ StopTeleop(r)
      BY <2>3 DEF StartTeleop, EnableSync, SyncStep, TeleopStep, SyncFails, DisableSync,
         DisableSyncEnds, StopTeleop, Acquire, rigVars
    <2> QED BY <1>1, <2>1, <2>2, <2>3 DEF TeleopNext
  <1>2. ASSUME NEW i \in Loops, LoopNext(i)
        PROVE  leases \subseteq leases' \/ LoopGives(i)
    <2>0. loop \in [Loops -> LoopPc]
      BY DEF IInv, TypeOK
    <2>1. CASE LoopStart(i) \/ LoopReady(i) \/ LoopApplies(i) \/ LoopStops(i)
      BY <2>1 DEF LoopStart, LoopReady, LoopApplies, LoopStops, Acquire, rigVars
    <2>2. CASE LoopAborts(i) \/ LoopReleases(i)
      BY <1>2, <2>0, <2>2 DEF LoopAborts, LoopReleases, LoopGoes, ReleaseMotion, KeepMotion, Release, LoopGives
    <2> QED BY <1>2, <2>1, <2>2 DEF LoopNext
  <1>3. ASSUME NEW a \in Followers, JogStart(a) \/ JogEnds(a) \/ IdleTimer(a) \/ DriverFaults(a)
        PROVE  leases \subseteq leases' \/ \E b \in Arms : JogGives(b)
    <2>1. a \in Arms
      BY PairsAssumption DEF Followers
    <2> QED BY <1>3, <2>1 DEF JogStart, JogEnds, IdleTimer, DriverFaults, Acquire, Release, JogGives
  <1>4. Shutdown => leases \subseteq leases'
    BY DEF Shutdown, rigVars
  <1>5. ASSUME NEW S \in SetupScopes, SetupStart(S) PROVE leases \subseteq leases'
    BY <1>5 DEF SetupStart, Acquire
  <1>6. SetupEnds => SetupGives
    BY DEF SetupEnds, SetupGives, Release
  <1> QED BY <1>1, <1>2, <1>3, <1>4, <1>5, <1>6 DEF Next

(* A runtime's token stays active until the runtime forgets it.            *)
LEMMA RigTokensActive ==
    ASSUME IInv, Next
    PROVE  \A r \in Recordings : rigToken'[r] \subseteq leases'
  <1>0. OwnTokens /\ OwnTokens' /\ \A r \in Recordings : rigToken[r] \subseteq leases
    BY TypeParts, OwnTokenStep DEF IInv, TeleopHolds
  <1>1. SUFFICES ASSUME NEW r \in Recordings, NEW t \in rigToken'[r]
                 PROVE  t \in leases'
    OBVIOUS
  <1>2. t \in TokensOf(r)
    BY <1>0 DEF OwnTokens
  <1>3. t \in leases \cup leases'
    <2>1. CASE t \in rigToken[r]
      BY <1>0, <2>1
    <2>2. CASE t \notin rigToken[r]
      <3>1. ASSUME NEW x \in Recordings, TeleopNext(x) PROVE StartTeleop(x) \/ t \in rigToken[r]
        <4>1. ASSUME NEW u \in TokensOf(x), ReleasePair(x, u) PROVE t \in rigToken[r]
          BY <4>1, PairRelease
        <4>2. rigToken[x] \subseteq TokensOf(x) /\ \A p \in pending[x] : p.token \in TokensOf(x)
          BY <1>0 DEF OwnTokens
        <4>3. CASE TeleopFails(x) \/ Compensate(x) \/ CloseEnds(x)
          BY <4>1, <4>2, <4>3 DEF TeleopFails, Compensate, CloseEnds
        <4>4. CASE EnableSync(x) \/ SyncStep(x) \/ TeleopStep(x) \/ SyncFails(x)
                   \/ DisableSync(x) \/ DisableSyncEnds(x) \/ StopTeleop(x)
          BY <4>4 DEF EnableSync, SyncStep, TeleopStep, SyncFails, DisableSync, DisableSyncEnds,
             StopTeleop, teleopVars
        <4> QED BY <3>1, <4>3, <4>4 DEF TeleopNext
      <3>2. CASE \E x \in Recordings : StartTeleop(x)
        BY <1>0, <2>2, <3>2 DEF StartTeleop, Acquire, OwnTokens
      <3>3. CASE rigToken' = rigToken
        BY <2>2, <3>3
      <3>4. (\E x \in Recordings : TeleopNext(x)) \/ rigToken' = rigToken
        BY DEF Next, Shutdown, LoopNext, LoopStart, LoopReady, LoopAborts, LoopApplies, LoopStops,
           LoopReleases, JogStart, JogEnds, IdleTimer, DriverFaults, SetupStart, SetupEnds, teleopVars
      <3> QED BY <2>2, <3>1, <3>2, <3>3, <3>4
    <2> QED BY <2>1, <2>2
  <1>4. CASE \E x \in Recordings : \E u \in TokensOf(x) : PairGives(x, u)
    BY <1>1, <1>2, <1>3, <1>4, TokensDiffer DEF PairGives
  <1>5. CASE \E i \in Loops : LoopGives(i)
    BY <1>2, <1>3, <1>5, TokensDiffer DEF LoopGives
  <1>6. CASE \E a \in Arms : JogGives(a)
    BY <1>2, <1>3, <1>6, TokensDiffer DEF JogGives
  <1>7. CASE SetupGives
    <2>1. setup \in SetupScopes
      BY <1>7 DEF SetupGives, SetupEnds, IInv, TypeOK
    <2> QED BY <1>2, <1>3, <1>7, <2>1, TokensDiffer DEF SetupGives
  <1> QED BY <1>3, <1>4, <1>5, <1>6, <1>7, LeasesKept

(* The rest of TeleopHolds.                                                *)
Unthreatened(r) ==
    /\ sync[r] # "off" => teleop[r] = "run"
    /\ teleop[r] = "run" => rigToken[r] # {} /\ \A p \in pending[r] : p.token \notin rigToken[r]

LEMMA UnthreatenedStep ==
    ASSUME IInv, Next
    PROVE  \A x \in Recordings : Unthreatened(x)'
  <1>0. /\ TaskTypes /\ OwnTokens /\ \A x \in Recordings : Unthreatened(x)
        /\ \A x \in Recordings : rigToken[x] \subseteq leases
    BY TypeParts DEF IInv, TeleopHolds, Unthreatened
  <1>n. UNCHANGED <<teleop, sync, rigToken, pending>> => \A x \in Recordings : Unthreatened(x)'
    BY <1>0 DEF Unthreatened
  <1>1. ASSUME NEW r \in Recordings, TeleopNext(r), NEW x \in Recordings PROVE Unthreatened(x)'
    <2>0. /\ teleop \in [Recordings -> TeleopPc] /\ sync \in [Recordings -> SyncPc]
          /\ rigToken \in [Recordings -> SUBSET TeleopTokens]
          /\ pending \in [Recordings -> SUBSET [by : Closer, token : TeleopTokens]]
          /\ rigToken[r] \subseteq TokensOf(r) /\ \A p \in pending[r] : p.token \in TokensOf(r)
      BY <1>0 DEF TaskTypes, OwnTokens
    <2>1. CASE StartTeleop(r)
      <3>1. PICK n \in Nonces : ~Referenced(TeleopToken(r, n)) /\ rigToken' = [rigToken EXCEPT ![r] = {TeleopToken(r, n)}]
        BY <2>1 DEF StartTeleop
      <3>2. \A p \in pending[r] : p.token # TeleopToken(r, n)
        BY <3>1 DEF Referenced
      <3> QED BY <1>0, <2>0, <2>1, <3>1, <3>2 DEF StartTeleop, Unthreatened
    <2>2. CASE EnableSync(r) \/ SyncStep(r) \/ TeleopStep(r) \/ DisableSync(r) \/ DisableSyncEnds(r)
      BY <1>0, <2>0, <2>2 DEF EnableSync, SyncStep, TeleopStep, DisableSync, DisableSyncEnds,
         teleopVars, Unthreatened
    <2>3. CASE SyncFails(r) \/ StopTeleop(r)
      <3>1. teleop'[r] # "run" /\ sync'[r] = "off"
        BY <2>0, <2>3 DEF SyncFails, StopTeleop, Detached
      <3>2. x # r => /\ teleop'[x] = teleop[x] /\ sync'[x] = sync[x]
                     /\ rigToken'[x] = rigToken[x] /\ pending'[x] = pending[x]
        BY <2>0, <2>3 DEF SyncFails, StopTeleop, Close
      <3> QED BY <1>0, <3>1, <3>2 DEF Unthreatened
    <2>4. CASE TeleopFails(r) \/ Compensate(r)
      <3>1. teleop'[r] # "run" /\ sync'[r] = "off"
        BY <2>0, <2>4 DEF TeleopFails, Compensate, Detached
      <3>2. x # r => teleop'[x] = teleop[x] /\ sync'[x] = sync[x] /\ pending'[x] = pending[x]
        BY <2>0, <2>4 DEF TeleopFails, Compensate, Close
      <3>3. x # r => rigToken'[x] = rigToken[x]
        BY <2>0, <2>4, PairRelease DEF TeleopFails, Compensate
      <3> QED BY <1>0, <3>1, <3>2, <3>3 DEF Unthreatened
    <2>5. CASE CloseEnds(r)
      <3>1. PICK p \in pending[r] :
              /\ pending' = [pending EXCEPT ![r] = @ \ {p}] /\ ReleasePair(r, p.token)
              /\ teleop' = [teleop EXCEPT ![r] = IF @ = "detached" /\ p.by # "failure" THEN "off" ELSE @]
        BY <2>5 DEF CloseEnds
      <3>2. sync' = sync /\ teleop'[x] \in {teleop[x], "off"} /\ (teleop[x] = "run" => teleop'[x] = "run")
        BY <2>0, <2>5, <3>1 DEF CloseEnds
      <3>3. x # r => rigToken'[x] = rigToken[x] /\ pending'[x] = pending[x]
        BY <2>0, <3>1, PairRelease
      <3>4. teleop[r] = "run" => p.token \notin leases
        <4>1. p.token.id = r
          BY <2>0, TokenIds
        <4> QED BY <1>0, <4>1 DEF Unthreatened, IInv, TokenKnown
      <3>5. teleop[r] = "run" => rigToken'[r] = rigToken[r]
        BY <2>0, <3>1, <3>4 DEF ReleasePair
      <3>6. pending'[r] \subseteq pending[r]
        BY <2>0, <3>1
      <3> QED BY <1>0, <3>2, <3>3, <3>5, <3>6 DEF Unthreatened
    <2> QED BY <1>1, <2>1, <2>2, <2>3, <2>4, <2>5 DEF TeleopNext
  <1>2. CASE Shutdown
    BY <1>0, <1>2 DEF Shutdown, Unthreatened
  <1>3. (\E r \in Recordings : TeleopNext(r)) \/ Shutdown \/ UNCHANGED <<teleop, sync, rigToken, pending>>
    BY DEF Next, LoopNext, LoopStart, LoopReady, LoopAborts, LoopApplies, LoopStops,
       LoopReleases, JogStart, JogEnds, IdleTimer, DriverFaults, SetupStart, SetupEnds, teleopVars
  <1> QED BY <1>n, <1>1, <1>2, <1>3

LEMMA OthersHoldStep ==
    ASSUME IInv, Next
    PROVE  OthersHold'
  <1>0. TypeOK /\ OthersHold
    BY DEF IInv
  <1>1. ASSUME NEW i \in Loops, loop'[i] \notin {"new", "done"} PROVE LoopToken(i) \in leases'
    <2>1. LoopToken(i) \in leases \/ LoopStart(i)
      <3>1. CASE loop'[i] = loop[i]
        BY <1>0, <1>1, <3>1 DEF OthersHold
      <3>2. CASE loop'[i] # loop[i]
        <4>1. LoopNext(i)
          <5>1. \A j \in Loops : LoopNext(j) => j = i
            BY <1>0, <3>2 DEF LoopNext, LoopStart, LoopReady, LoopAborts, LoopApplies, LoopStops,
               LoopReleases, LoopGoes, TypeOK
          <5>2. \E j \in Loops : LoopNext(j)
            BY <3>2 DEF Next, TeleopNext, StartTeleop, EnableSync, SyncStep, TeleopStep, TeleopFails,
               SyncFails, DisableSync, DisableSyncEnds, StopTeleop, Compensate, CloseEnds, Shutdown,
               JogStart, JogEnds, IdleTimer, DriverFaults, SetupStart, SetupEnds
          <5> QED BY <5>1, <5>2
        <4> QED BY <1>0, <4>1 DEF LoopNext, LoopReady, LoopAborts, LoopApplies, LoopStops,
               LoopReleases, LoopGoes, OthersHold
      <3> QED BY <3>1, <3>2
    <2>2. CASE LoopStart(i)
      BY <2>2 DEF LoopStart, Acquire
    <2>3. CASE LoopToken(i) \in leases
      <3>1. CASE \E r \in Recordings : \E t \in TokensOf(r) : PairGives(r, t)
        BY <2>3, <3>1, TokensDiffer DEF PairGives
      <3>2. CASE \E j \in Loops : LoopGives(j)
        BY <1>1, <2>3, <3>2, TokensDiffer DEF LoopGives
      <3>3. CASE \E a \in Arms : JogGives(a)
        BY <2>3, <3>3, TokensDiffer DEF JogGives
      <3>4. CASE SetupGives
        BY <1>0, <2>3, <3>4, TokensDiffer DEF SetupGives, SetupEnds, TypeOK
      <3> QED BY <2>3, <3>1, <3>2, <3>3, <3>4, LeasesKept
    <2> QED BY <2>1, <2>2, <2>3
  <1>2. ASSUME NEW a \in jog' PROVE JogToken(a) \in leases'
    <2>0. a \in Arms /\ jog \subseteq Arms
      BY <1>0, <1>2, TaskTypeStep, TypeParts DEF IInv, OtherTypes
    <2>1. a \in jog \/ JogStart(a)
      BY <1>2 DEF Next, TeleopNext, StartTeleop, EnableSync, SyncStep, TeleopStep, TeleopFails,
         SyncFails, DisableSync, DisableSyncEnds, StopTeleop, Compensate, CloseEnds, Shutdown,
         LoopNext, LoopStart, LoopReady, LoopAborts, LoopApplies, LoopStops, LoopReleases,
         JogStart, JogEnds, IdleTimer, DriverFaults, SetupStart, SetupEnds
    <2>2. CASE JogStart(a)
      BY <2>2 DEF JogStart, Acquire
    <2>3. CASE a \in jog
      <3>0. JogToken(a) \in leases
        BY <1>0, <2>3 DEF OthersHold
      <3>1. CASE \E r \in Recordings : \E t \in TokensOf(r) : PairGives(r, t)
        BY <2>0, <3>0, <3>1, TokensDiffer DEF PairGives
      <3>2. CASE \E i \in Loops : LoopGives(i)
        BY <2>0, <3>0, <3>2, TokensDiffer DEF LoopGives
      <3>3. CASE \E b \in Arms : JogGives(b)
        BY <1>2, <2>0, <3>0, <3>3, TokensDiffer DEF JogGives, JogEnds
      <3>4. CASE SetupGives
        BY <1>0, <2>0, <3>0, <3>4, TokensDiffer DEF SetupGives, SetupEnds, TypeOK
      <3> QED BY <3>0, <3>1, <3>2, <3>3, <3>4, LeasesKept
    <2> QED BY <2>1, <2>2, <2>3
  <1>3. ASSUME setup' # {} PROVE SetupToken(setup') \in leases'
    <2>1. (setup # {} /\ setup' = setup) \/ \E S \in SetupScopes : SetupStart(S)
      BY <1>3 DEF Next, TeleopNext, StartTeleop, EnableSync, SyncStep, TeleopStep, TeleopFails,
         SyncFails, DisableSync, DisableSyncEnds, StopTeleop, Compensate, CloseEnds, Shutdown,
         LoopNext, LoopStart, LoopReady, LoopAborts, LoopApplies, LoopStops, LoopReleases,
         JogStart, JogEnds, IdleTimer, DriverFaults, SetupStart, SetupEnds
    <2>2. CASE \E S \in SetupScopes : SetupStart(S)
      BY <2>2 DEF SetupStart, Acquire
    <2>3. CASE setup # {} /\ setup' = setup
      <3>0. SetupToken(setup) \in leases /\ setup \in SetupScopes
        BY <1>0, <2>3 DEF OthersHold, TypeOK
      <3>1. CASE \E r \in Recordings : \E t \in TokensOf(r) : PairGives(r, t)
        BY <2>3, <3>0, <3>1, TokensDiffer DEF PairGives
      <3>2. CASE \E i \in Loops : LoopGives(i)
        BY <2>3, <3>0, <3>2, TokensDiffer DEF LoopGives
      <3>3. CASE \E b \in Arms : JogGives(b)
        BY <2>3, <3>0, <3>3, TokensDiffer DEF JogGives
      <3>4. CASE SetupGives
        BY <2>3, <3>4 DEF SetupGives, SetupEnds
      <3> QED BY <2>3, <3>0, <3>1, <3>2, <3>3, <3>4, LeasesKept
    <2> QED BY <2>1, <2>2, <2>3
  <1> QED BY <1>1, <1>2, <1>3 DEF OthersHold

LEMMA StreamsInPlaceStep ==
    ASSUME IInv, Next
    PROVE  StreamsInPlace'
  <1>0. RigTypes /\ RigTypes' /\ OtherTypes /\ StreamsInPlace
    BY TypeParts, RigTypeStep DEF IInv
  <1>q. ASSUME \A a \in Arms : stream'[a] \subseteq stream[a], UNCHANGED loop PROVE StreamsInPlace'
    BY <1>0, <1>q DEF StreamsInPlace
  <1>1. ASSUME NEW r \in Recordings, TeleopNext(r) PROVE StreamsInPlace'
    <2>0. rigToken[r] \subseteq TokensOf(r) /\ \A p \in pending[r] : p.token \in TokensOf(r)
      BY DEF IInv, TokenTypes
    <2>1. CASE SyncStep(r) \/ TeleopStep(r)
      BY <1>0, <2>1, ModesAssumption DEF SyncStep, TeleopStep, Streams, StreamsInPlace, RigTypes
    <2>2. CASE StartTeleop(r) \/ EnableSync(r) \/ SyncFails(r) \/ StopTeleop(r)
      BY <2>2, <1>q DEF StartTeleop, EnableSync, SyncFails, StopTeleop, rigVars
    <2>3. CASE TeleopFails(r) \/ Compensate(r) \/ CloseEnds(r)
      BY <2>0, <2>3, <1>q, PairRelease DEF TeleopFails, Compensate, CloseEnds, rigVars
    <2>4. CASE DisableSync(r) \/ DisableSyncEnds(r)
      BY <1>0, <2>4, <1>q DEF DisableSync, DisableSyncEnds, TriesIdle, SafeIdle, Unconfirmed,
         LatchFault, Revoke, RigTypes, rigVars
    <2> QED BY <1>1, <2>1, <2>2, <2>3, <2>4 DEF TeleopNext
  <1>2. CASE Shutdown
    BY <1>2, <1>q DEF Shutdown, rigVars
  <1>3. ASSUME NEW i \in Loops, LoopNext(i) PROVE StreamsInPlace'
    <2>0. loop \in [Loops -> LoopPc]
      BY <1>0 DEF OtherTypes
    <2>1. CASE LoopStart(i) \/ LoopReady(i) \/ LoopAborts(i) \/ LoopStops(i)
      BY <1>0, <2>0, <2>1 DEF LoopStart, LoopReady, LoopAborts, LoopStops, LoopGoes, StreamsInPlace, rigVars
    <2>2. CASE LoopApplies(i)
      BY <1>0, <2>0, <2>2, ModesAssumption DEF LoopApplies, Streams, StreamsInPlace, RigTypes
    <2>3. CASE LoopReleases(i)
      <3>1. \A a \in Arms : stream'[a] \subseteq stream[a]
        BY <1>0, <2>3 DEF LoopReleases, ReleaseMotion, KeepMotion, SafeIdle, LatchFault, Unconfirmed,
           Revoke, RigTypes
      <3>2. loop'[i] = "done" => \A a \in Arms : i \notin stream'[a]
        BY <1>0, <2>0, <2>3 DEF LoopReleases, LoopGoes, ReleaseMotion, SafeIdle, LatchFault,
           Revoke, RigTypes, StreamsInPlace
      <3>3. loop'[i] \in {"done", "blocked"} /\ \A j \in Loops \ {i} : loop'[j] = loop[j]
        BY <2>0, <2>3 DEF LoopReleases, LoopGoes
      <3> QED BY <1>0, <3>1, <3>2, <3>3 DEF StreamsInPlace
    <2> QED BY <1>3, <2>1, <2>2, <2>3 DEF LoopNext
  <1>4. ASSUME NEW a \in Followers, JogStart(a) \/ JogEnds(a) \/ IdleTimer(a) \/ DriverFaults(a)
        PROVE  StreamsInPlace'
    BY <1>0, <1>4, <1>q DEF JogStart, JogEnds, IdleTimer, DriverFaults, SafeIdle, LatchFault,
       Revoke, RigTypes
  <1>5. ASSUME NEW S \in SetupScopes, SetupStart(S) PROVE StreamsInPlace'
    BY <1>5, <1>q DEF SetupStart
  <1>6. SetupEnds => StreamsInPlace'
    BY <1>0, <1>q DEF SetupEnds, Revoke, RigTypes
  <1> QED BY <1>1, <1>2, <1>3, <1>4, <1>5, <1>6 DEF Next

(* No recording ever has a second token, and its runtime knows the first.  *)
LEMMA TokenKnownStep ==
    ASSUME IInv, Next
    PROVE  TokenKnown'
  <1>0. /\ RigTypes /\ OwnTokens /\ TokenKnown
        /\ \A r \in Recordings : \A t \in TokensOf(r) : t.id = r
    BY TypeParts, TokenIds DEF IInv
  <1>n. ASSUME leases' \subseteq leases, UNCHANGED rigToken PROVE TokenKnown'
    BY <1>0, <1>n DEF TokenKnown
  <1>t. ASSUME NEW t, Acquire(t), t.id \notin Recordings, UNCHANGED rigToken PROVE TokenKnown'
    BY <1>0, <1>t DEF TokenKnown, Acquire
  <1>p. ASSUME NEW r \in Recordings, NEW t \in TokensOf(r), ReleasePair(r, t) PROVE TokenKnown'
    <2>1. SUFFICES ASSUME NEW x \in Recordings, NEW u \in leases', u.id = x
                   PROVE  u \in rigToken'[x]
      BY DEF TokenKnown
    <2>2. u \in leases /\ u \in rigToken[x]
      BY <1>0, <1>p, <2>1, PairRelease DEF TokenKnown
    <2>3. CASE x # r
      BY <1>p, <2>2, <2>3, PairRelease
    <2>4. CASE x = r
      <3>1. t \in leases /\ t \notin leases' => FALSE
        <4>1. SUFFICES ASSUME t \in leases, t \notin leases' PROVE FALSE
          OBVIOUS
        <4>2. u # t
          BY <2>1, <4>1
        <4>3. u \in TokensOf(r)
          BY <2>2, <2>4, <1>0 DEF OwnTokens
        <4>4. Leader[r] \in Controls(t) \cap Controls(u)
          BY <4>3, <1>p, TokenArms DEF Pair
        <4> QED BY <2>2, <4>1, <4>2, <4>4 DEF IInv, OneOwnerPerArm
      <3>2. rigToken'[r] = rigToken[r]
        BY <1>0, <1>p, <3>1 DEF ReleasePair, ReleaseMotion, Release, OwnTokens
      <3> QED BY <2>2, <2>4, <3>2
    <2> QED BY <2>3, <2>4
  <1>1. ASSUME NEW r \in Recordings, TeleopNext(r) PROVE TokenKnown'
    <2>0. rigToken[r] \subseteq TokensOf(r) /\ \A p \in pending[r] : p.token \in TokensOf(r)
      BY <1>0 DEF OwnTokens
    <2>1. CASE StartTeleop(r)
      <3>1. PICK n \in Nonces : /\ Acquire(TeleopToken(r, n))
                                /\ rigToken' = [rigToken EXCEPT ![r] = {TeleopToken(r, n)}]
        BY <2>1 DEF StartTeleop
      <3>2. TeleopToken(r, n) \in TokensOf(r)
        BY DEF TokensOf
      <3>3. ASSUME NEW u \in leases, u.id = r PROVE FALSE
        <4>1. u \in TokensOf(r)
          BY <1>0, <3>3, TokenIds DEF RigTypes
        <4>2. Leader[r] \in Controls(u) \cap Controls(TeleopToken(r, n))
          BY <4>1, <3>2, TokenArms DEF Pair
        <4> QED BY <3>1, <3>3, <4>2, FreeMeansDisjoint DEF Acquire
      <3> QED BY <1>0, <3>1, <3>2, <3>3 DEF TokenKnown, Acquire, OwnTokens
    <2>2. CASE EnableSync(r) \/ SyncStep(r) \/ TeleopStep(r) \/ SyncFails(r) \/ StopTeleop(r)
               \/ DisableSync(r) \/ DisableSyncEnds(r)
      BY <2>2, <1>n DEF EnableSync, SyncStep, TeleopStep, SyncFails, StopTeleop, DisableSync,
         DisableSyncEnds, teleopVars, rigVars
    <2>3. CASE TeleopFails(r) \/ Compensate(r) \/ CloseEnds(r)
      BY <2>0, <2>3, <1>n, <1>p DEF TeleopFails, Compensate, CloseEnds, rigVars
    <2> QED BY <1>1, <2>1, <2>2, <2>3 DEF TeleopNext
  <1>2. CASE Shutdown
    BY <1>2, <1>n DEF Shutdown, rigVars
  <1>3. ASSUME NEW i \in Loops, LoopNext(i) PROVE TokenKnown'
    <2>1. CASE LoopStart(i)
      BY <2>1, <1>t, TokenIds, ModesAssumption DEF LoopStart, teleopVars
    <2>2. CASE LoopReady(i) \/ LoopAborts(i) \/ LoopApplies(i) \/ LoopStops(i) \/ LoopReleases(i)
      BY <2>2, <1>n DEF LoopReady, LoopAborts, LoopApplies, LoopStops, LoopReleases, Release,
         ReleaseMotion, KeepMotion, teleopVars, rigVars
    <2> QED BY <1>3, <2>1, <2>2 DEF LoopNext
  <1>4. ASSUME NEW a \in Followers, JogStart(a) \/ JogEnds(a) \/ IdleTimer(a) \/ DriverFaults(a)
        PROVE  TokenKnown'
    <2>0. a \in Arms
      BY PairsAssumption DEF Followers
    <2>1. CASE JogStart(a)
      BY <2>0, <2>1, <1>t, TokenIds, ModesAssumption DEF JogStart, teleopVars
    <2>2. CASE JogEnds(a) \/ IdleTimer(a) \/ DriverFaults(a)
      BY <2>2, <1>n DEF JogEnds, IdleTimer, DriverFaults, Release, teleopVars
    <2> QED BY <1>4, <2>1, <2>2
  <1>5. ASSUME NEW S \in SetupScopes, SetupStart(S) PROVE TokenKnown'
    BY <1>5, <1>t, TokenIds, ModesAssumption DEF SetupStart, teleopVars
  <1>6. SetupEnds => TokenKnown'
    BY <1>n DEF SetupEnds, Release, teleopVars
  <1> QED BY <1>1, <1>2, <1>3, <1>4, <1>5, <1>6 DEF Next

LEMMA Closing ==
    ASSUME TaskTypes, OwnTokens, NEW r \in Recordings, NEW by, Close(r, by), NEW t \in rigToken[r]
    PROVE  \E p \in pending'[r] : p.token = t
  <1>1. [by |-> by, token |-> t] \in pending'[r]
    BY DEF Close, OwnTokens
  <1>2. [by |-> by, token |-> t].token = t
    OBVIOUS
  <1> QED BY <1>1, <1>2

LEMMA AccountedStep ==
    ASSUME IInv, Next
    PROVE  Accounted'
  <1>0. /\ RigTypes /\ OwnTokens /\ TaskTypes /\ TokenKnown /\ Accounted
        /\ \A r \in Recordings : \A t \in TokensOf(r) : t.id = r
        /\ \A r \in Recordings : \A t \in leases : t.id = r => t \in TokensOf(r)
    BY TypeParts, TokenIds DEF IInv, RigTypes
  <1>u. ASSUME NEW r \in Recordings, NEW t \in leases, t.id = r, NEW s \in rigToken[r] PROVE s = t
    <2>1. s \in leases /\ s \in TokensOf(r) /\ t \in TokensOf(r)
      BY <1>0, <1>u DEF IInv, TeleopHolds, OwnTokens
    <2>2. Leader[r] \in Controls(s) \cap Controls(t)
      BY <2>1, TokenArms DEF Pair
    <2> QED BY <2>1, <2>2 DEF IInv, OneOwnerPerArm
  <1>n. ASSUME \A r \in Recordings : \A t \in leases' : t.id = r => t \in leases,
               UNCHANGED <<teleop, uncertain, pending>>
        PROVE  Accounted'
    BY <1>0, <1>n DEF Accounted
  <1>1. ASSUME NEW r \in Recordings, TeleopNext(r),
               NEW x \in Recordings, NEW t \in leases', t.id = x
        PROVE  teleop'[x] = "run" \/ t \in uncertain' \/ \E p \in pending'[x] : p.token = t
    <2>0. /\ teleop \in [Recordings -> TeleopPc]
          /\ pending \in [Recordings -> SUBSET [by : Closer, token : TeleopTokens]]
          /\ rigToken[r] \subseteq TokensOf(r) /\ \A p \in pending[r] : p.token \in TokensOf(r)
      BY <1>0 DEF TaskTypes, OwnTokens
    <2>1. CASE StartTeleop(r)
      <3>1. CASE x = r
        BY <2>0, <2>1, <3>1 DEF StartTeleop
      <3>2. CASE x # r
        <4>1. t \in leases
          <5>1. PICK n \in Nonces : Acquire(TeleopToken(r, n)) /\ TeleopToken(r, n) \in TokensOf(r)
            BY <2>1 DEF StartTeleop, TokensOf
          <5> QED BY <1>0, <1>1, <3>2, <5>1 DEF Acquire
        <4> QED BY <1>0, <1>1, <2>0, <2>1, <3>2, <4>1 DEF StartTeleop, Accounted
      <3> QED BY <3>1, <3>2
    <2>2. CASE EnableSync(r) \/ SyncStep(r) \/ TeleopStep(r) \/ DisableSync(r) \/ DisableSyncEnds(r)
      BY <1>0, <1>1, <2>2 DEF EnableSync, SyncStep, TeleopStep, DisableSync, DisableSyncEnds,
         teleopVars, rigVars, Accounted
    <2>p. ASSUME NEW s \in TokensOf(r), ReleasePair(r, s), t # s, t \in leases
          PROVE  t \in uncertain => t \in uncertain'
      BY <2>p DEF ReleasePair
    <2>k. ASSUME NEW s \in TokensOf(r), ReleasePair(r, s) PROVE t \in leases /\ (t = s => t \in uncertain')
      BY <1>1, <2>k, PairRelease DEF ReleasePair, ReleaseMotion, KeepMotion, Release
    <2>3. CASE TeleopFails(r) \/ Compensate(r)
      <3>1. CASE \E s \in rigToken[r] : ReleasePair(r, s) /\ UNCHANGED pending
        <4>1. PICK s \in rigToken[r] : ReleasePair(r, s) /\ UNCHANGED pending
          BY <3>1
        <4>2. CASE x = r
          <5>1. s \in TokensOf(r) /\ t.id = r
            BY <1>1, <2>0, <4>1, <4>2
          <5>2. t \in leases /\ (t = s => t \in uncertain')
            BY <2>k, <4>1, <5>1
          <5>3. s = t
            BY <1>1, <1>u, <4>1, <5>1, <5>2
          <5> QED BY <5>2, <5>3
        <4>3. CASE x # r
          <5>1. t \in leases /\ t # s
            BY <1>0, <1>1, <2>0, <2>k, <4>1, <4>3
          <5>2. teleop'[x] = teleop[x]
            BY <2>0, <2>3, <4>3 DEF TeleopFails, Compensate
          <5> QED BY <1>0, <1>1, <2>0, <2>p, <4>1, <5>1, <5>2 DEF Accounted
        <4> QED BY <4>2, <4>3
      <3>2. CASE (Close(r, "failure") \/ Close(r, "compensate")) /\ UNCHANGED <<rigVars, rigToken, uncertain>>
        <4>1. CASE x = r
          <5>1. t \in rigToken[r]
            BY <1>0, <1>1, <3>2, <4>1 DEF TokenKnown, rigVars
          <5> QED BY <1>0, <3>2, <4>1, <5>1, Closing
        <4>2. CASE x # r
          <5>1. teleop'[x] = teleop[x]
            BY <2>0, <2>3, <4>2 DEF TeleopFails, Compensate
          <5> QED BY <1>0, <1>1, <2>0, <3>2, <4>2, <5>1 DEF Close, Accounted, rigVars
        <4> QED BY <4>1, <4>2
      <3>3. \/ \E s \in rigToken[r] : ReleasePair(r, s) /\ UNCHANGED pending
            \/ (Close(r, "failure") \/ Close(r, "compensate")) /\ UNCHANGED <<rigVars, rigToken, uncertain>>
        <4>1. TeleopFails(r) => ((\E s \in rigToken[r] : ReleasePair(r, s)) /\ UNCHANGED pending)
                                 \/ (Close(r, "failure") /\ UNCHANGED <<rigVars, rigToken, uncertain>>)
          BY ZenonT(30) DEF TeleopFails
        <4>2. Compensate(r) => ((\E s \in rigToken[r] : ReleasePair(r, s)) /\ UNCHANGED pending)
                                \/ (Close(r, "compensate") /\ UNCHANGED <<rigVars, rigToken, uncertain>>)
          BY ZenonT(30) DEF Compensate
        <4> QED BY <2>3, <4>1, <4>2
      <3> QED BY <3>1, <3>2, <3>3
    <2>4. CASE SyncFails(r) \/ StopTeleop(r)
      <3>1. CASE x = r
        <4>1. t \in rigToken[r]
          BY <1>0, <1>1, <2>4, <3>1 DEF TokenKnown, rigVars, SyncFails, StopTeleop
        <4> QED BY <1>0, <2>4, <3>1, <4>1, Closing DEF SyncFails, StopTeleop
      <3>2. CASE x # r
        BY <1>0, <1>1, <2>0, <2>4, <3>2 DEF SyncFails, StopTeleop, Close, Accounted, rigVars
      <3> QED BY <3>1, <3>2
    <2>5. CASE CloseEnds(r)
      <3>1. PICK p \in pending[r] :
              /\ pending' = [pending EXCEPT ![r] = @ \ {p}] /\ ReleasePair(r, p.token)
              /\ teleop' = [teleop EXCEPT ![r] = IF @ = "detached" /\ p.by # "failure" THEN "off" ELSE @]
        BY <2>5 DEF CloseEnds
      <3>2. teleop[x] = "run" => teleop'[x] = "run"
        BY <2>0, <3>1
      <3>3. CASE t = p.token
        BY <2>0, <2>k, <3>1, <3>3
      <3>4. CASE t # p.token
        <4>1. t \in leases
          BY <2>0, <2>k, <3>1
        <4>2. t \in uncertain => t \in uncertain'
          BY <2>0, <2>p, <3>1, <3>4, <4>1
        <4>3. \A q \in pending[x] : q.token = t => q \in pending'[x]
          BY <2>0, <3>1, <3>4
        <4> QED BY <1>0, <1>1, <3>2, <4>1, <4>2, <4>3 DEF Accounted
      <3> QED BY <3>3, <3>4
    <2> QED BY <1>1, <2>1, <2>2, <2>3, <2>4, <2>5 DEF TeleopNext
  <1>2. CASE Shutdown
    <2> SUFFICES ASSUME NEW r \in Recordings, NEW t \in leases', t.id = r
                 PROVE  \E p \in pending'[r] : p.token = t
      BY DEF Accounted
    <2>1. t \in rigToken[r]
      BY <1>0, <1>2 DEF Shutdown, TokenKnown, rigVars
    <2>2. [by |-> "shutdown", token |-> t] \in pending'[r]
      BY <1>2, <2>1 DEF Shutdown
    <2>3. [by |-> "shutdown", token |-> t].token = t
      OBVIOUS
    <2> QED BY <2>2, <2>3
  <1>3. ASSUME NEW i \in Loops, LoopNext(i) PROVE Accounted'
    BY <1>3, <1>n, TokenIds, ModesAssumption DEF LoopNext, LoopStart, LoopReady, LoopAborts, LoopApplies,
       LoopStops, LoopReleases, Acquire, Release, ReleaseMotion, KeepMotion, teleopVars, rigVars
  <1>4. ASSUME NEW a \in Followers, JogStart(a) \/ JogEnds(a) \/ IdleTimer(a) \/ DriverFaults(a)
        PROVE  Accounted'
    <2>0. a \in Arms
      BY PairsAssumption DEF Followers
    <2> QED BY <1>4, <1>n, <2>0, TokenIds, ModesAssumption DEF JogStart, JogEnds, IdleTimer,
         DriverFaults, Acquire, Release, teleopVars
  <1>5. ASSUME NEW S \in SetupScopes, SetupStart(S) PROVE Accounted'
    BY <1>5, <1>n, TokenIds, ModesAssumption DEF SetupStart, Acquire, teleopVars
  <1>6. SetupEnds => Accounted'
    BY <1>n DEF SetupEnds, Release, teleopVars
  <1>7. ASSUME NEW r \in Recordings, TeleopNext(r) PROVE Accounted'
    BY <1>1, <1>7 DEF Accounted
  <1> QED BY <1>2, <1>3, <1>4, <1>5, <1>6, <1>7 DEF Next

-----------------------------------------------------------------------------
(* The invariant *)

LEMMA InductiveStep == IInv /\ [Next]_vars => IInv'
  <1>1. ASSUME IInv, Next PROVE IInv'
    <2>1. RigTypes' /\ TaskTypes' /\ OwnTokens' /\ OtherTypes'
      BY <1>1, TypeParts, RigTypeStep, TaskTypeStep, OwnTokenStep DEF IInv
    <2>2. TypeOK' /\ TokenTypes'
      BY <2>1, TypeParts DEF TypeOK, TokenTypes, RigTypes, TaskTypes, OwnTokens, OtherTypes, ActiveTokens
    <2>3. TeleopHolds'
      BY <1>1, RigTokensActive, UnthreatenedStep DEF TeleopHolds, Unthreatened
    <2> QED BY <1>1, <2>2, <2>3, SafeStep, StreamsInPlaceStep, OthersHoldStep, TokenKnownStep,
               AccountedStep DEF IInv
  <1>2. ASSUME IInv, UNCHANGED vars PROVE IInv'
    BY <1>2 DEF IInv, vars, rigVars, teleopVars, TypeOK, TokenTypes, OneOwnerPerArm, StreamIsOwned,
       StreamsInPlace, TeleopHolds, OthersHold, TokenKnown, Accounted, Controls
  <1> QED BY <1>1, <1>2

(* The invariant of the arms is inductive. *)
THEOREM Inductive == Spec => []IInv
  BY InitIInv, InductiveStep, PTL DEF Spec

(* Every token, stream and task state stays of its type.                   *)
THEOREM TypeCorrect == Spec => []TypeOK
  <1>1. IInv => TypeOK
    BY DEF IInv
  <1> QED BY <1>1, Inductive, PTL

(* RigLease never hands an arm to two owners (OneOwnerPerArm).             *)
THEOREM Exclusion == Spec => []OneOwnerPerArm
  <1>1. IInv => OneOwnerPerArm
    BY DEF IInv
  <1> QED BY <1>1, Inductive, PTL

(* Nothing streams to an arm past its own lease (StreamIsOwned).           *)
THEOREM StreamOwnership == Spec => []StreamIsOwned
  <1>1. IInv => StreamIsOwned
    BY DEF IInv
  <1> QED BY <1>1, Inductive, PTL

(* Jogs and setup only meet arms that follow nobody (HandsOffStreams).     *)
THEOREM HandsOff == Spec => []HandsOffStreams
  <1>1. IInv => HandsOffStreams
    <2> SUFFICES ASSUME IInv, NEW a \in Arms, NEW who \in stream[a],
                        a \in jog \/ (setup # {} /\ a \in Controls(SetupToken(setup)))
                 PROVE  FALSE
      BY DEF HandsOffStreams
    <2>1. who \in Recordings \cup Loops
      BY DEF IInv, TypeOK
    <2>2. PICK t \in leases : t.id = who /\ a \in Controls(t)
      BY DEF IInv, StreamIsOwned
    <2>3. CASE a \in jog
      <3>1. JogToken(a) \in leases /\ JogToken(a).id = a /\ a \in Controls(JogToken(a))
        BY <2>3, TokenIds, TokenArms DEF IInv, OthersHold
      <3>2. t = JogToken(a)
        BY <2>2, <3>1 DEF IInv, OneOwnerPerArm
      <3> QED BY <2>1, <2>2, <3>1, <3>2, ModesAssumption
    <2>4. CASE setup # {} /\ a \in Controls(SetupToken(setup))
      <3>1. setup \in SetupScopes /\ SetupToken(setup) \in leases
        BY <2>4 DEF IInv, TypeOK, OthersHold
      <3>2. t = SetupToken(setup)
        BY <2>2, <2>4, <3>1 DEF IInv, OneOwnerPerArm
      <3>3. SetupToken(setup).id = "setup"
        BY <3>1, TokenIds
      <3> QED BY <2>1, <2>2, <3>2, <3>3, ModesAssumption
    <2> QED BY <2>3, <2>4
  <1> QED BY <1>1, Inductive, PTL

(* A teleoperation lease is never lost (NoLeaseForgotten).                 *)
THEOREM NothingForgotten == Spec => []NoLeaseForgotten
  <1>1. IInv => NoLeaseForgotten
    <2> SUFFICES ASSUME IInv, NEW r \in Recordings, NEW t \in leases, t.id = r
                 PROVE  /\ rigToken[r] = {t}
                        /\ \/ teleop[r] = "run" \/ t \in uncertain
                           \/ \E p \in pending[r] : p.token = t
      BY DEF NoLeaseForgotten
    <2>1. t \in rigToken[r]
      BY DEF IInv, TokenKnown
    <2>2. ASSUME NEW s \in rigToken[r] PROVE s = t
      <3>1. s \in leases /\ s \in TokensOf(r) /\ t \in TokensOf(r)
        BY <2>1, <2>2 DEF IInv, TeleopHolds, TokenTypes
      <3>2. Leader[r] \in Controls(s) \cap Controls(t)
        BY <3>1, TokenArms DEF Pair
      <3> QED BY <3>1, <3>2 DEF IInv, OneOwnerPerArm
    <2> QED BY <2>1, <2>2 DEF IInv, Accounted
  <1> QED BY <1>1, Inductive, PTL

-----------------------------------------------------------------------------
(* The refinement: every step takes, commands, quiets or gives arms        *)

OwnerOf == [a \in Arms |-> {t.id : t \in {u \in leases : a \in Controls(u)}}]

Takes(t) == Acquire(t) /\ t \in ActiveTokens /\ UNCHANGED stream
Commands(a, t) == Streams(a, t.id) /\ t \in leases /\ a \in Controls(t) /\ UNCHANGED leases
Quiets(S) == Revoke(S) /\ UNCHANGED leases
GivesBack(t, S) == t \in ActiveTokens /\ Release(t) /\ Revoke(S)

Effect ==
    \/ \E t \in ActiveTokens : Takes(t)
    \/ \E a \in Arms : \E t \in leases : Commands(a, t)
    \/ \E S \in SUBSET Arms : Quiets(S)
    \/ \E S \in SUBSET Arms : \E t \in ActiveTokens : GivesBack(t, S)

LEMMA StepEffect ==
    ASSUME IInv, Next
    PROVE  Effect
  <1>0. /\ RigTypes /\ OwnTokens
        /\ \A r \in Recordings : TokensOf(r) \subseteq ActiveTokens
        /\ {} \in SUBSET Arms
    BY TypeParts, TokenIds DEF IInv, ActiveTokens
  <1>r. UNCHANGED stream => Revoke({})
    BY <1>0 DEF RigTypes, Revoke
  <1>n. UNCHANGED rigVars => Effect
    BY <1>0, <1>r DEF rigVars, Effect, Quiets
  <1>p. ASSUME NEW r \in Recordings, NEW t \in TokensOf(r), ReleasePair(r, t) PROVE Effect
    <2>1. {Follower[r]} \in SUBSET Arms
      BY PairsAssumption
    <2>2. t \in ActiveTokens
      BY <1>0
    <2>3. CASE ReleaseMotion({Follower[r]}, t)
      <3>1. GivesBack(t, {Follower[r]})
        BY <2>2, <2>3 DEF ReleaseMotion, SafeIdle, LatchFault, GivesBack
      <3> QED BY <2>1, <2>2, <3>1 DEF Effect
    <2>4. CASE KeepMotion({Follower[r]})
      <3>1. PICK S \in SUBSET {Follower[r]} : LatchFault(S) /\ UNCHANGED leases
        BY <2>4 DEF KeepMotion, Unconfirmed
      <3>2. Quiets(S) /\ S \in SUBSET Arms
        BY <2>1, <3>1 DEF LatchFault, Quiets
      <3> QED BY <3>2 DEF Effect
    <2> QED BY <1>p, <2>3, <2>4 DEF ReleasePair
  <1>i. ASSUME NEW a \in Arms, SafeIdle({a}) \/ LatchFault({a}) \/ Unconfirmed({a}), UNCHANGED leases
        PROVE  Effect
    <2>1. PICK S \in SUBSET {a} : Revoke(S)
      BY <1>i DEF SafeIdle, LatchFault, Unconfirmed
    <2>2. Quiets(S) /\ S \in SUBSET Arms
      BY <1>i, <2>1 DEF Quiets
    <2> QED BY <2>2 DEF Effect
  <1>t. ASSUME NEW t \in ActiveTokens, Acquire(t), UNCHANGED stream PROVE Effect
    BY <1>t DEF Takes, Effect
  <1>g. ASSUME NEW t \in ActiveTokens, Release(t), UNCHANGED stream PROVE Effect
    BY <1>0, <1>g, <1>r DEF GivesBack, Effect
  <1>1. ASSUME NEW r \in Recordings, TeleopNext(r) PROVE Effect
    <2>0. /\ rigToken[r] \subseteq TokensOf(r) /\ \A p \in pending[r] : p.token \in TokensOf(r)
          /\ Follower[r] \in Arms
      BY <1>0, PairsAssumption DEF OwnTokens
    <2>1. CASE StartTeleop(r)
      <3>1. PICK n \in Nonces : Acquire(TeleopToken(r, n))
        BY <2>1 DEF StartTeleop
      <3>2. TeleopToken(r, n) \in ActiveTokens
        BY <1>0 DEF TokensOf
      <3> QED BY <2>1, <1>t, <3>1, <3>2 DEF StartTeleop
    <2>2. CASE EnableSync(r) \/ SyncFails(r) \/ StopTeleop(r)
      BY <2>2, <1>n DEF EnableSync, SyncFails, StopTeleop
    <2>3. CASE SyncStep(r) \/ TeleopStep(r)
      <3>1. rigToken[r] # {} /\ rigToken[r] \subseteq leases
        BY <2>3 DEF SyncStep, HoldsPair, TeleopStep, IInv, TeleopHolds
      <3>2. PICK t \in rigToken[r] : t \in leases
        BY <3>1
      <3>3. t.id = r /\ Follower[r] \in Controls(t)
        BY <2>0, <3>2, TokenIds, TokenArms DEF Pair
      <3>4. Commands(Follower[r], t)
        BY <2>3, <3>2, <3>3 DEF SyncStep, TeleopStep, Commands
      <3> QED BY <2>0, <3>2, <3>4 DEF Effect
    <2>4. CASE TeleopFails(r)
      BY <2>0, <2>4, <1>n, <1>p DEF TeleopFails
    <2>5. CASE Compensate(r)
      BY <2>0, <2>5, <1>n, <1>p DEF Compensate
    <2>6. CASE CloseEnds(r)
      BY <2>0, <2>6, <1>p DEF CloseEnds
    <2>7. CASE DisableSync(r)
      BY <2>0, <2>7, <1>n, <1>i DEF DisableSync, TriesIdle
    <2>8. CASE DisableSyncEnds(r)
      BY <2>0, <2>8, <1>i DEF DisableSyncEnds, TriesIdle
    <2> QED BY <1>1, <2>1, <2>2, <2>3, <2>4, <2>5, <2>6, <2>7, <2>8 DEF TeleopNext
  <1>2. CASE Shutdown
    BY <1>2, <1>n DEF Shutdown
  <1>3. ASSUME NEW i \in Loops, LoopNext(i) PROVE Effect
    <2>0. LoopToken(i) \in ActiveTokens /\ LoopArm[i] \in Arms
      BY PairsAssumption DEF ActiveTokens
    <2>1. CASE LoopStart(i)
      BY <2>0, <2>1, <1>t DEF LoopStart
    <2>2. CASE LoopReady(i) \/ LoopStops(i)
      BY <2>2, <1>n DEF LoopReady, LoopStops
    <2>3. CASE LoopAborts(i)
      BY <2>0, <2>3, <1>g DEF LoopAborts
    <2>4. CASE LoopApplies(i)
      <3>1. LoopToken(i) \in leases /\ LoopToken(i).id = i /\ LoopArm[i] \in Controls(LoopToken(i))
        BY <2>4, TokenIds, TokenArms DEF LoopApplies, IInv, OthersHold
      <3>2. Commands(LoopArm[i], LoopToken(i))
        BY <2>4, <3>1 DEF LoopApplies, Commands
      <3> QED BY <2>0, <3>1, <3>2 DEF Effect
    <2>5. CASE LoopReleases(i)
      <3>1. CASE ReleaseMotion({LoopArm[i]}, LoopToken(i))
        <4>1. GivesBack(LoopToken(i), {LoopArm[i]})
          BY <2>0, <3>1 DEF ReleaseMotion, SafeIdle, LatchFault, GivesBack
        <4> QED BY <2>0, <4>1 DEF Effect
      <3>2. CASE KeepMotion({LoopArm[i]})
        BY <2>0, <3>2, <1>i DEF KeepMotion
      <3> QED BY <2>5, <3>1, <3>2 DEF LoopReleases
    <2> QED BY <1>3, <2>1, <2>2, <2>3, <2>4, <2>5 DEF LoopNext
  <1>4. ASSUME NEW a \in Followers, JogStart(a) \/ JogEnds(a) \/ IdleTimer(a) \/ DriverFaults(a)
        PROVE  Effect
    <2>0. a \in Arms /\ JogToken(a) \in ActiveTokens
      BY PairsAssumption DEF Followers, ActiveTokens
    <2>1. CASE JogStart(a)
      BY <2>0, <2>1, <1>t DEF JogStart
    <2>2. CASE JogEnds(a)
      BY <2>0, <2>2, <1>g DEF JogEnds
    <2>3. CASE IdleTimer(a) \/ DriverFaults(a)
      BY <2>0, <2>3, <1>i DEF IdleTimer, DriverFaults
    <2> QED BY <1>4, <2>1, <2>2, <2>3
  <1>5. ASSUME NEW S \in SetupScopes, SetupStart(S) PROVE Effect
    BY <1>5, <1>t DEF SetupStart, ActiveTokens
  <1>6. CASE SetupEnds
    <2>1. setup \in SetupScopes
      BY <1>6 DEF SetupEnds, IInv, TypeOK
    <2>2. Controls(SetupToken(setup)) \in SUBSET Arms /\ SetupToken(setup) \in ActiveTokens
      BY <2>1, ScopesAssumption DEF Controls, SetupToken, LeaseToken, ActiveTokens
    <2>3. GivesBack(SetupToken(setup), Controls(SetupToken(setup)))
      BY <1>6, <2>2 DEF SetupEnds, GivesBack
    <2> QED BY <2>2, <2>3 DEF Effect
  <1> QED BY <1>1, <1>2, <1>3, <1>4, <1>5, <1>6 DEF Next

LEMMA ActiveModes ==
    ASSUME NEW t \in ActiveTokens
    PROVE  t.id \in Modes /\ Controls(t) \in SUBSET Arms
  BY PairsAssumption, ScopesAssumption DEF ActiveTokens, TeleopTokens, TeleopToken, LoopToken, JogToken,
     SetupToken, LeaseToken, Controls, Modes, Pair

(* An arm that a token controls belongs to the token's mode alone.         *)
LEMMA OwnerIsSole ==
    ASSUME OneOwnerPerArm, NEW t \in leases, NEW a \in Arms, a \in Controls(t)
    PROVE  OwnerOf[a] = {t.id}
  <1>1. \A u \in leases : a \in Controls(u) => u = t
    BY DEF OneOwnerPerArm
  <1> QED BY <1>1 DEF OwnerOf

LEMMA EffectRefines ==
    ASSUME IInv, IInv', Effect
    PROVE  Ownership!Next
  <1>0. /\ OneOwnerPerArm /\ OneOwnerPerArm' /\ StreamIsOwned' /\ leases \subseteq ActiveTokens
        /\ stream \in [Arms -> SUBSET (Recordings \cup Loops)]
    BY TypeParts DEF IInv, RigTypes
  <1>1. ASSUME NEW t \in ActiveTokens, Takes(t) PROVE Ownership!Next
    <2>1. \A a \in Controls(t) : OwnerOf[a] = {}
      <3>1. \A u \in leases : Controls(t) \cap Controls(u) = {}
        BY <1>1, FreeMeansDisjoint DEF Takes, Acquire
      <3>2. \A a \in Controls(t) : {u \in leases : a \in Controls(u)} = {}
        BY <3>1
      <3> QED BY <3>2, ActiveModes DEF OwnerOf
    <2>2. ASSUME NEW a \in Arms PROVE OwnerOf'[a] = IF a \in Controls(t) THEN {t.id} ELSE OwnerOf[a]
      <3>1. leases' = leases \cup {t}
        BY <1>1 DEF Takes, Acquire
      <3>2. CASE a \in Controls(t)
        <4>1. t \in leases' /\ a \in Controls(t)'
          BY <3>1, <3>2 DEF Controls
        <4>2. \A u \in leases' : a \in Controls(u) => u = t
          BY <1>0, <3>2, <4>1 DEF OneOwnerPerArm, Controls
        <4>3. {u \in leases' : a \in Controls(u)} = {t}
          BY <3>2, <4>1, <4>2
        <4> QED BY <3>2, <4>3 DEF OwnerOf, Controls
      <3>3. CASE a \notin Controls(t)
        <4>1. {u \in leases' : a \in Controls(u)} = {u \in leases : a \in Controls(u)}
          BY <3>1, <3>3
        <4> QED BY <3>3, <4>1 DEF OwnerOf, Controls
      <3> QED BY <3>2, <3>3
    <2>3. OwnerOf' = [a \in Arms |-> IF a \in Controls(t) THEN {t.id} ELSE OwnerOf[a]]
      BY <2>2 DEF OwnerOf
    <2>4. Ownership!Take(Controls(t), t.id)
      BY <1>1, <2>1, <2>3 DEF Takes, Ownership!Take, OwnerOf
    <2> QED BY <2>4, ActiveModes DEF Ownership!Next
  <1>2. ASSUME NEW a \in Arms, NEW t \in leases, Commands(a, t) PROVE Ownership!Next
    <2>1. OwnerOf[a] = {t.id} /\ t.id \in Modes
      BY <1>0, <1>2, OwnerIsSole, ActiveModes DEF Commands
    <2>2. OwnerOf' = OwnerOf
      BY <1>2 DEF Commands, OwnerOf, Controls
    <2>3. Ownership!Command(a, t.id)
      BY <1>2, <2>1, <2>2 DEF Commands, Streams, Ownership!Command, OwnerOf
    <2> QED BY <2>1, <2>3 DEF Ownership!Next
  <1>3. ASSUME NEW S \in SUBSET Arms, Quiets(S) PROVE Ownership!Next
    <2>1. OwnerOf' = OwnerOf
      BY <1>3 DEF Quiets, OwnerOf, Controls
    <2>2. Ownership!Quiet(S)
      BY <1>3, <2>1 DEF Quiets, Revoke, Ownership!Quiet, Ownership!Revoke, OwnerOf
    <2> QED BY <2>2 DEF Ownership!Next
  <1>4. ASSUME NEW S \in SUBSET Arms, NEW t \in ActiveTokens, GivesBack(t, S) PROVE Ownership!Next
    <2>g. PICK G \in SUBSET Arms : G = IF t \in leases THEN Controls(t) ELSE {}
      BY ActiveModes
    <2>0. G \in SUBSET Arms /\ leases' = leases \ {t} /\ G = IF t \in leases THEN Controls(t) ELSE {}
      BY <1>4, <2>g DEF GivesBack, Release
    <2>1. ASSUME NEW a \in G PROVE stream'[a] = {}
      <3> SUFFICES ASSUME NEW who \in stream'[a] PROVE FALSE
        <4>1. a \in Arms
          BY <2>0
        <4>2. stream'[a] \subseteq stream[a]
          BY <1>0, <1>4, <4>1 DEF GivesBack, Revoke
        <4> QED BY <4>2
      <3>1. PICK u \in leases' : a \in Controls(u)
        BY <1>0, <2>0 DEF StreamIsOwned, Controls
      <3>2. u # t /\ u \in leases /\ t \in leases /\ a \in Controls(t)
        BY <2>0, <2>1, <3>1
      <3> QED BY <1>0, <3>1, <3>2 DEF OneOwnerPerArm
    <2>2. ASSUME NEW a \in Arms PROVE OwnerOf'[a] = IF a \in G THEN {} ELSE OwnerOf[a]
      <3>1. CASE a \in G
        <4>0. t \in leases /\ a \in Controls(t)
          BY <2>0, <3>1
        <4>1. \A u \in leases : a \in Controls(u) => u = t
          BY <1>0, <4>0 DEF OneOwnerPerArm
        <4>2. {u \in leases' : a \in Controls(u)} = {}
          BY <2>0, <4>1
        <4>3. OwnerOf'[a] = {u.id : u \in {u \in leases' : a \in Controls(u)}}
          BY DEF OwnerOf, Controls
        <4> QED BY <3>1, <4>2, <4>3
      <3>2. CASE a \notin G
        <4>1. {u \in leases' : a \in Controls(u)} = {u \in leases : a \in Controls(u)}
          BY <2>0, <3>2
        <4> QED BY <3>2, <4>1 DEF OwnerOf, Controls
      <3> QED BY <3>1, <3>2
    <2>3. OwnerOf' = [a \in Arms |-> IF a \in G THEN {} ELSE OwnerOf[a]]
      BY <2>2 DEF OwnerOf
    <2>4. Ownership!Give(G, S)
      BY <1>4, <2>1, <2>3 DEF GivesBack, Revoke, Ownership!Give, Ownership!Revoke, OwnerOf
    <2> QED BY <2>4 DEF Ownership!Next
  <1> QED BY <1>0, <1>1, <1>2, <1>3, <1>4 DEF Effect

(* Arm by arm, the program implements the promised ownership.              *)
THEOREM Refinement == Spec => ImplementsOwnership
  <1>1. Init => Ownership!Init
    BY DEF Init, Ownership!Init
  <1>2. IInv /\ [Next]_vars => [Ownership!Next]_(Ownership!vars)
    <2>1. ASSUME IInv, Next PROVE Ownership!Next
      <3>1. IInv'
        BY <2>1, InductiveStep
      <3> QED BY <2>1, <3>1, StepEffect, EffectRefines
    <2>2. ASSUME UNCHANGED vars PROVE UNCHANGED Ownership!vars
      BY <2>2 DEF vars, rigVars, Ownership!vars, Controls
    <2> QED BY <2>1, <2>2
  <1> QED BY <1>1, <1>2, Inductive, PTL DEF Spec, ImplementsOwnership, Ownership!Spec

-----------------------------------------------------------------------------
(* The episodes of a recording (Recordings), for any bounds and any requests at once. *)

\* The values of the row, the runtime, the directories and the requests.
Statuses == {"draft", "ready", "teleop", "recording", "failed", "uploading", "uploaded"}
Rows == [status : Statuses, count : Nat, eps : SUBSET Episodes,
         upload : {"none", "untargeted", "uploading", "failed", "uploaded"}]
Runtimes == [teleop : {"off", "on", "closing", "stopping"},
             episode : Episodes \cup {None}, final : Episodes \cup {None},
             task : BOOLEAN, count : Nat, status : Statuses, err : {"none", "other", "persist"}]
Directories == [Episodes -> {"absent", "open", "renamed", "kept"}]
Places == {"free", "scan", "merge", "stopping", "closing", "naming", "settled", "confirm",
           "broken", "failRow", "convert", "look", "create", "mark", "send", "collided",
           "sent", "cleaning"}
Waiting == [at : Places, kind : Kinds \cup Statuses \cup {"none"}, copy : Rows,
            eps : SUBSET Episodes, trusted : BOOLEAN]

\* A request that reconciles is of a kind, an upload's has the status before, and a
\* finalization is about one episode.
Sound(w) ==
    /\ w.at \in {"scan", "merge"} => w.kind \in Kinds
    /\ w.at \in {"convert", "look", "create", "mark", "send", "collided"} => w.kind \in Statuses
    /\ w.at \in {"closing", "naming", "settled", "broken"} =>
          \E e \in Episodes : w.eps = {e}

EpisodesTypeOK ==
    /\ row \in Rows /\ rt \in Runtimes /\ dir \in Directories
    /\ dropping \in SUBSET Episodes
    /\ req \in [Requests -> Waiting] /\ \A q \in Requests : Sound(req[q])
    /\ sd \in {"up", "closing", "down"} /\ taken \in SUBSET Episodes

\* An episode that is open is the one that is recorded, one that a task is to remove, or
\* one whose finalization has not got further, or has failed.
Finalizes(q, e) == req[q].at \in {"closing", "broken"} /\ req[q].eps = {e}
OpenIsKnown ==
    \A e \in Episodes : dir[e] = "open" =>
        \/ e = rt.episode \/ e \in dropping
        \/ \E q \in Requests : Finalizes(q, e)

\* Once the process shuts down nothing moves, nothing is recorded, and in the end nothing
\* it took over is open.
NoneRecorded == sd # "up" => rt.episode = None /\ rt.teleop # "on"
TakenIsClosed == sd = "down" => \A e \in taken : dir[e] # "open"

EpisodesInv == EpisodesTypeOK /\ OpenIsKnown /\ NoneRecorded /\ TakenIsClosed

-----------------------------------------------------------------------------
\* An episode's number is never that of none.
LEMMA EpisodesAreNumbers ==
    Episodes \subseteq Nat /\ None \notin Episodes
BY RecordingBounds DEF Episodes, None

\* Any of them has a first.
LEMMA LeastOf ==
    ASSUME NEW T \in SUBSET Nat, T # {}
    PROVE  Min(T) \in T
<1> DEFINE R == {ss \in Nat \X Nat : ss[1] < ss[2]}
<1>1. IsWellFoundedOn(R, Nat)
  BY NatLessThanWellFounded DEF OpToRel
<1>2. PICK x \in T : \A y \in T : ~(<<y, x>> \in R)
  BY <1>1, WFMin, Zenon
<1>3. \A y \in T : x <= y
  <2> TAKE y \in T
  <2>1. y < x => <<y, x>> \in R
    OBVIOUS
  <2> QED BY <2>1, <1>2
<1> QED BY <1>3 DEF Min

\* There are finitely many, so any of them can be counted.
LEMMA EpisodesCounted ==
    ASSUME NEW E \in SUBSET Episodes
    PROVE  Cardinality(E) \in Nat
<1>1. IsFiniteSet(Episodes)
  BY RecordingBounds, FS_Interval DEF Episodes
<1> QED BY <1>1, FS_Subset, FS_CardinalityType

\* What a request writes into the row.
LEMMA RowsStored ==
    ASSUME NEW r \in Rows, NEW c \in Rows, NEW n \in Rows
    PROVE  Stored(r, c, n) \in Rows
BY DEF Stored, Rows

LEMMA RowsCommitted ==
    ASSUME NEW r \in Rows, NEW c \in Rows, NEW n \in Rows,
           Commits(r, c, n) \/ CommitFails(r, c, n)
    PROVE  row' \in Rows
BY RowsStored DEF Commits, CommitFails

LEMMA RowsChanged ==
    ASSUME NEW c \in Rows
    PROVE  /\ \A status \in Statuses : With(c, status) \in Rows
           /\ Interrupted(c) \in Rows
           /\ \A found \in SUBSET Episodes : Merged(c, found) \in Rows
<1>1. \A status \in Statuses : With(c, status) \in Rows
  BY DEF With, Rows
<1>2. Interrupted(c) \in Rows
  BY DEF Interrupted, Broken, Rows, Statuses
<1>3. ASSUME NEW found \in SUBSET Episodes
      PROVE  Merged(c, found) \in Rows
  <2>1. c.eps \cup found \in SUBSET Episodes /\ Cardinality(c.eps \cup found) \in Nat
    BY EpisodesCounted DEF Rows
  <2> QED BY <2>1 DEF Merged, Rows, Statuses
<1> QED BY <1>1, <1>2, <1>3

\* What the runtime becomes, and of which episode it stays.
SameMotion(t, u) == u \in Runtimes /\ u.episode = t.episode /\ u.teleop = t.teleop

LEMMA RuntimeEnsured ==
    ASSUME NEW t \in Runtimes, NEW c \in Rows
    PROVE  SameMotion(t, Ensured(t, c)) /\ SameMotion(t, Refreshed(t, c))
<1>1. SameMotion(t, Ensured(t, c))
  BY DEF SameMotion, Ensured, Runtimes, Rows, Statuses
<1>2. SameMotion(t, Refreshed(t, c))
  BY DEF SameMotion, Refreshed, Runtimes, Rows
<1> QED BY <1>1, <1>2

LEMMA RuntimeSettled ==
    ASSUME NEW t \in Runtimes, NEW c \in Rows
    PROVE  SameMotion(t, Finalized(t)) /\ SameMotion(t, Confirmed(t, c))
<1>1. SameMotion(t, Finalized(t))
  BY DEF SameMotion, Finalized, Fails, Runtimes, Statuses
<1>2. SameMotion(t, Confirmed(t, c))
  BY DEF SameMotion, Confirmed, Fails, Runtimes, Rows, Statuses
<1> QED BY <1>1, <1>2

LEMMA RuntimeCompensated ==
    ASSUME NEW t \in Runtimes
    PROVE  /\ Compensated(t) \in Runtimes /\ Compensated(t).episode = None
           /\ Compensated(t).teleop # "on"
BY DEF Compensated, Runtimes, Statuses

\* What a request waits for.
LEMMA WaitingAt ==
    ASSUME NEW at \in Places, NEW kind \in Kinds \cup Statuses \cup {"none"},
           NEW c \in Rows,
           NEW E \in SUBSET Episodes
    PROVE  At(at, kind, c, E) \in Waiting
BY DEF At, Waiting

LEMMA NothingAsked ==
    /\ Blank \in Rows /\ Unused \in Waiting
    /\ Sound(Unused) /\ Unused.at = "free"
BY DEF Blank, Rows, Statuses, Unused, At, Waiting, Places, Sound

-----------------------------------------------------------------------------
(* What a step of a request does with what is open *)

AccountedFor(q) ==
    /\ UNCHANGED <<sd, taken>> /\ dropping \subseteq dropping'
    /\ \A p \in Requests : p # q => req'[p] = req[p]
    /\ \A e \in Episodes : dir'[e] = "open" =>
          dir[e] = "open" \/ (sd = "up" /\ e \in {rt'.episode} \cup dropping')
    /\ \A e \in Episodes : e = rt.episode =>
          e = rt'.episode \/ e \in dropping' \/ Finalizes(q, e)'
    /\ \A e \in Episodes : Finalizes(q, e) => dir'[e] # "open" \/ Finalizes(q, e)'
    /\ rt'.episode \notin {None, rt.episode} => sd = "up" /\ rt'.teleop = "on"
    /\ rt'.teleop = "on" => rt.teleop = "on" \/ sd = "up"

EpisodesStep == /\ EpisodesTypeOK' /\ OpenIsKnown'
        /\ NoneRecorded' /\ TakenIsClosed'

LEMMA AccountedForStep ==
    ASSUME EpisodesInv, NEW q \in Requests, EpisodesTypeOK', AccountedFor(q)
    PROVE  EpisodesStep
<1>1. ASSUME NEW e \in Episodes, dir'[e] = "open"
      PROVE  e = rt'.episode \/ e \in dropping' \/ \E p \in Requests : Finalizes(p, e)'
  <2>1. CASE e = rt'.episode \/ e \in dropping'
    BY <2>1
  <2>2. CASE dir[e] = "open" /\ e = rt.episode
    BY <2>2 DEF AccountedFor
  <2>3. CASE dir[e] = "open" /\ e \in dropping
    BY <2>3 DEF AccountedFor
  <2>4. ASSUME dir[e] = "open", NEW p \in Requests, Finalizes(p, e)
        PROVE  \E r \in Requests : Finalizes(r, e)'
    <3>1. CASE p = q
      BY <1>1, <2>4, <3>1 DEF AccountedFor
    <3>2. CASE p # q
      BY <2>4, <3>2 DEF AccountedFor, Finalizes
    <3> QED BY <3>1, <3>2
  <2> QED BY <1>1, <2>1, <2>2, <2>3, <2>4 DEF AccountedFor, EpisodesInv, OpenIsKnown
<1>2. OpenIsKnown'
  BY <1>1 DEF OpenIsKnown
<1>3. NoneRecorded'
  BY DEF AccountedFor, EpisodesInv, NoneRecorded
<1>4. TakenIsClosed'
  <2>1. ASSUME sd' = "down", NEW e \in taken', dir'[e] = "open"
        PROVE  FALSE
    BY <1>3, <2>1, EpisodesAreNumbers DEF AccountedFor, EpisodesInv, EpisodesTypeOK,
       NoneRecorded, TakenIsClosed
  <2> QED BY <2>1 DEF TakenIsClosed
<1> QED BY <1>2, <1>3, <1>4 DEF EpisodesStep


\* A request goes on from where it stands.
LEMMA Taken ==
    ASSUME EpisodesInv, NEW q \in Requests, NEW w \in Waiting, Sound(w),
           req' = [req EXCEPT ![q] = w]
    PROVE  /\ req' \in [Requests -> Waiting] /\ \A p \in Requests : Sound(req'[p])
           /\ req'[q] = w /\ \A p \in Requests : p # q => req'[p] = req[p]
BY DEF EpisodesInv, EpisodesTypeOK

LEMMA Gone ==
    ASSUME EpisodesInv, NEW q \in Requests, NEW at \in Places,
           NEW kind \in Kinds \cup Statuses \cup {"none"}, NEW c \in Rows,
           NEW E \in SUBSET Episodes, Sound(At(at, kind, c, E)),
           Goes(q, at, kind, c, E)
    PROVE  /\ req' \in [Requests -> Waiting] /\ \A p \in Requests : Sound(req'[p])
           /\ req'[q] = At(at, kind, c, E) /\ \A p \in Requests : p # q => req'[p] = req[p]
BY WaitingAt, Taken DEF Goes

LEMMA Ended ==
    ASSUME EpisodesInv, NEW q \in Requests, Ends(q)
    PROVE  /\ req' \in [Requests -> Waiting] /\ \A p \in Requests : Sound(req'[p])
           /\ req'[q].at = "free" /\ \A p \in Requests : p # q => req'[p] = req[p]
BY NothingAsked, Taken DEF Ends

\* The request's own part of the state apart, little has to be shown of a step of one that
\* is not about an episode.
Others(q) ==
    /\ req' \in [Requests -> Waiting] /\ \A p \in Requests : Sound(req'[p])
    /\ \A p \in Requests : p # q => req'[p] = req[p]
Aside(q) == req[q].at \notin {"closing", "broken"}
Handled(q) == EpisodesTypeOK' /\ AccountedFor(q)

LEMMA StillStep ==
    ASSUME EpisodesInv, NEW q \in Requests, Aside(q), Others(q), row' \in Rows,
           SameMotion(rt, rt'), UNCHANGED <<sd, taken>>, dropping' = dropping,
           dir' \in Directories, \A e \in Episodes : dir'[e] = "open" => dir[e] = "open"
    PROVE  Handled(q)
BY DEF EpisodesInv, EpisodesTypeOK, Aside, Others, SameMotion, Handled, AccountedFor,
   Finalizes

LEMMA CompensatedStep ==
    ASSUME EpisodesInv, NEW q \in Requests, Aside(q), Others(q),
           row' \in Rows,
           NEW t \in Runtimes, Compensates(t), UNCHANGED <<sd, taken>>,
           rt.episode \in {None, t.episode},
           dir' \in Directories,
           \A e \in Episodes : dir'[e] = "open" => dir[e] = "open"
    PROVE  Handled(q)
<1>1. /\ rt' \in Runtimes /\ rt'.episode = None /\ rt'.teleop # "on"
      /\ dropping' = dropping \cup ({t.episode} \ {None})
      /\ t.episode \in Episodes \cup {None}
  BY RuntimeCompensated DEF Compensates, Runtimes
<1>2. dropping' \in SUBSET Episodes
  BY <1>1 DEF EpisodesInv, EpisodesTypeOK
<1> QED BY <1>1, <1>2, EpisodesAreNumbers
    DEF EpisodesInv, EpisodesTypeOK, Aside, Others, Handled, AccountedFor, Finalizes

-----------------------------------------------------------------------------
(* The handlers *)

LEMMA RefuseStep ==
    ASSUME EpisodesInv, NEW q \in Requests, Aside(q), NEW r \in Rows, NEW t,
           SameMotion(rt, t),
           UNCHANGED <<sd, taken>>, Refuse(q, r, t)
    PROVE  Handled(q)
BY Ended, StillStep DEF Refuse, disk, Others, EpisodesInv, EpisodesTypeOK

LEMMA ShowStateStep ==
    ASSUME EpisodesInv, NEW q \in Requests, Aside(q), NEW c \in Rows,
           NEW r \in Rows,
           NEW t, SameMotion(rt, t), UNCHANGED <<sd, taken>>, ShowState(q, c, r, t)
    PROVE  Handled(q)
<1>1. SameMotion(rt, Ensured(t, c)) /\ Ensured(t, c).status \in Statuses
  BY RuntimeEnsured DEF SameMotion, Runtimes
<1>2. row' \in Rows
  BY <1>1, RowsChanged, RowsCommitted DEF ShowState
<1> QED BY <1>1, <1>2, Ended, StillStep DEF ShowState, disk, Others,
           EpisodesInv, EpisodesTypeOK

LEMMA StartTeleopStep ==
    ASSUME EpisodesInv, NEW q \in Requests, Aside(q), NEW c \in Rows,
           NEW r \in Rows,
           NEW t, SameMotion(rt, t), UNCHANGED <<sd, taken>>, TeleopStarts(q, c, r, t)
    PROVE  Handled(q)
<1> DEFINE now == Ensured(t, c)
           on == Teleoperates(now)
<1>1. SameMotion(rt, now)
  BY RuntimeEnsured DEF SameMotion
<1>2. on \in Runtimes /\ on.episode = rt.episode
  BY <1>1 DEF Teleoperates, SameMotion, Runtimes, Statuses
<1>3. CASE Refuse(q, r, now)
  BY <1>1, <1>3, RefuseStep
<1>4. ASSUME MayTeleop(now), Ends(q), UNCHANGED <<dir, remote>>,
             \/ Commits(r, c, With(c, "teleop")) /\ rt' = on /\ UNCHANGED dropping
             \/ CommitFails(r, c, With(c, "teleop")) /\ Compensates(on)
      PROVE  Handled(q)
  <2>1. row' \in Rows /\ Others(q) /\ dir' \in Directories
    BY <1>4, Ended, RowsChanged, RowsCommitted DEF Others, Statuses, EpisodesInv,
       EpisodesTypeOK
  <2>2. CASE rt' = on /\ UNCHANGED dropping
    BY <1>2, <1>4, <2>1, <2>2
       DEF EpisodesInv, EpisodesTypeOK, Aside, Others, Handled, AccountedFor, Finalizes,
          MayTeleop
  <2>3. CASE Compensates(on)
    BY <1>2, <1>4, <2>1, <2>3, CompensatedStep
  <2> QED BY <1>4, <2>2, <2>3
<1> QED BY <1>3, <1>4 DEF TeleopStarts

LEMMA StopTeleopStep ==
    ASSUME EpisodesInv, NEW q \in Requests, Aside(q), NEW c \in Rows,
           NEW r \in Rows,
           NEW t, SameMotion(rt, t), UNCHANGED <<sd, taken>>, TeleopStops(q, c, r, t)
    PROVE  Handled(q)
<1> DEFINE now == Ensured(t, c)
<1>1. SameMotion(rt, now)
  BY RuntimeEnsured DEF SameMotion
<1>2. CASE Refuse(q, r, now)
  BY <1>1, <1>2, RefuseStep
<1>3. ASSUME MayStopTeleop(now), rt' = Stopping(now),
             Goes(q, "stopping", "none", c, {}),
             row' = r, UNCHANGED <<disk, remote>>
      PROVE  Handled(q)
  <2>1. rt' \in Runtimes /\ rt'.teleop = "stopping" /\ rt'.episode = rt.episode
    BY <1>1, <1>3 DEF Stopping, SameMotion, Runtimes, Statuses
  <2>2. Others(q)
    <3>1. Sound(At("stopping", "none", c, {})) /\ "stopping" \in Places
      BY DEF Sound, At, Places
    <3> QED BY <1>3, <3>1, Gone DEF Others
  <2> QED BY <1>3, <2>1, <2>2
      DEF disk, EpisodesInv, EpisodesTypeOK, Aside, Others, Handled, AccountedFor,
         Finalizes
<1> QED BY <1>2, <1>3 DEF TeleopStops

LEMMA StartEpisodeStep ==
    ASSUME EpisodesInv, NEW q \in Requests, Aside(q), NEW c \in Rows,
           NEW r \in Rows,
           NEW t, SameMotion(rt, t), UNCHANGED <<sd, taken>>, NEW scanning,
           StartEpisode(q, c, r, t, scanning)
    PROVE  Handled(q)
<1> DEFINE now == Ensured(t, c)
<1>1. SameMotion(rt, now)
  BY RuntimeEnsured DEF SameMotion
<1>2. CASE Refuse(q, r, now)
  BY <1>1, <1>2, RefuseStep
<1>3. ASSUME MayRecord(now), Available(now) # {}, Ends(q), UNCHANGED remote,
             NEW e, e = Min(Available(now)), dir' = Opened(e),
             \/ /\ Commits(r, c, With(c, "recording")) /\ UNCHANGED dropping
                /\ rt' = [now EXCEPT !.episode = e, !.status = "recording"]
             \/ /\ CommitFails(r, c, With(c, "recording"))
                /\ Compensates([now EXCEPT !.episode = e, !.status = "recording"])
      PROVE  Handled(q)
  <2> DEFINE on == [now EXCEPT !.episode = e, !.status = "recording"]
  <2>1. e \in Episodes
    <3>1. Available(now) \subseteq Episodes /\ Available(now) \subseteq Nat
      BY EpisodesAreNumbers DEF Available
    <3> QED BY <1>3, <3>1, LeastOf
  <2>2. /\ on \in Runtimes /\ on.episode = e /\ on.teleop = "on"
        /\ rt.episode = None /\ rt.teleop = "on"
    BY <1>1, <1>3, <2>1 DEF MayRecord, SameMotion, Runtimes, Statuses
  <2>3. row' \in Rows /\ Others(q)
    BY <1>3, Ended, RowsChanged, RowsCommitted DEF Others, Statuses, EpisodesInv,
       EpisodesTypeOK
  <2>4. /\ dir' \in Directories
        /\ \A f \in Episodes : dir'[f] = "open" => dir[f] = "open" \/ f = e
    BY <1>3, <2>1 DEF Opened, EpisodesInv, EpisodesTypeOK, Directories
  <2>5. sd = "up"
    BY <2>2 DEF EpisodesInv, NoneRecorded
  <2>6. CASE rt' = on /\ UNCHANGED dropping
    BY <2>1, <2>2, <2>3, <2>4, <2>5, <2>6, EpisodesAreNumbers
       DEF EpisodesInv, EpisodesTypeOK, Aside, Others, Handled, AccountedFor, Finalizes
  <2>7. CASE Compensates(on)
    <3>1. /\ rt' \in Runtimes /\ rt'.episode = None /\ dropping' = dropping \cup {e}
      BY <2>1, <2>2, <2>7, RuntimeCompensated, EpisodesAreNumbers DEF Compensates
    <3> QED BY <2>1, <2>2, <2>3, <2>4, <2>5, <3>1, EpisodesAreNumbers
        DEF EpisodesInv, EpisodesTypeOK, Aside, Others, Handled, AccountedFor, Finalizes
  <2> QED BY <1>3, <2>6, <2>7
<1> QED BY <1>2, <1>3 DEF StartEpisode

LEMMA StopEpisodeStep ==
    ASSUME EpisodesInv, NEW q \in Requests, Aside(q), NEW c \in Rows,
           NEW r \in Rows,
           NEW t, SameMotion(rt, t), UNCHANGED <<sd, taken>>, StopEpisode(q, c, r, t)
    PROVE  Handled(q)
<1> DEFINE now == Ensured(t, c)
<1>1. SameMotion(rt, now)
  BY RuntimeEnsured DEF SameMotion
<1>2. CASE now.episode = None
  BY <1>1, <1>2, RefuseStep DEF StopEpisode
<1>3. CASE now.episode # None
  <2>1. /\ rt' = Finalizing(now) /\ Goes(q, "closing", "none", c, {now.episode})
        /\ row' = r /\ UNCHANGED disk
    BY <1>3 DEF StopEpisode
  <2>2. rt.episode \in Episodes /\ now.episode = rt.episode
    BY <1>1, <1>3 DEF SameMotion, Runtimes
  <2>3. rt' \in Runtimes /\ rt'.teleop = rt.teleop /\ rt'.episode = None
    BY <1>1, <2>1, <2>2 DEF Finalizing, SameMotion, Runtimes
  <2>4. /\ Others(q) /\ req'[q].at = "closing" /\ req'[q].eps = {rt.episode}
    <3>1. Sound(At("closing", "none", c, {rt.episode})) /\ "closing" \in Places
      BY <2>2 DEF Sound, At, Places
    <3>2. Goes(q, "closing", "none", c, {rt.episode}) /\ {rt.episode} \in SUBSET Episodes
      BY <2>1, <2>2
    <3>3. /\ Others(q) /\ req'[q] = At("closing", "none", c, {rt.episode})
      BY <3>1, <3>2, Gone DEF Others
    <3> QED BY <3>3 DEF At
  <2> QED BY <2>1, <2>2, <2>3, <2>4
      DEF disk, EpisodesInv, EpisodesTypeOK, Aside, Others, Handled, AccountedFor,
         Finalizes
<1> QED BY <1>2, <1>3

LEMMA UploadStep ==
    ASSUME EpisodesInv, NEW q \in Requests, Aside(q), NEW c \in Rows,
           NEW r \in Rows,
           NEW t, SameMotion(rt, t), UNCHANGED <<sd, taken>>, Upload(q, c, r, t)
    PROVE  Handled(q)
<1> DEFINE now == Ensured(t, c)
           intent == [c EXCEPT !.status = "uploading", !.upload = "uploading"]
           upload == [At("convert", c.status, intent, {})
                         EXCEPT !.trusted = HasTarget(c)]
<1>1. SameMotion(rt, now)
  BY RuntimeEnsured DEF SameMotion
<1>2. intent \in Rows
  BY DEF Rows, Statuses
<1>3. upload \in Waiting /\ Sound(upload)
  BY <1>2 DEF HasTarget, At, Waiting, Sound, Places, Rows
<1>4. CASE Refuse(q, r, now)
  BY <1>1, <1>4, RefuseStep
<1>5. ASSUME rt' = now, UNCHANGED disk,
             \/ Commits(r, c, intent) /\ req' = [req EXCEPT ![q] = upload]
             \/ CommitFails(r, c, intent) /\ Ends(q)
      PROVE  Handled(q)
  <2>1. row' \in Rows
    BY <1>2, <1>5, RowsCommitted
  <2>2. Others(q)
    BY <1>3, <1>5, Taken, Ended DEF Others
  <2> QED BY <1>1, <1>5, <2>1, <2>2, StillStep DEF disk, EpisodesInv, EpisodesTypeOK
<1> HIDE DEF intent, upload
<1> QED BY <1>4, <1>5 DEF Upload, intent, upload

LEMMA HandlesStep ==
    ASSUME EpisodesInv, NEW q \in Requests, Aside(q), NEW c \in Rows,
           NEW r \in Rows,
           NEW t, SameMotion(rt, t), UNCHANGED <<sd, taken>>, NEW kind \in Kinds, NEW scanning,
           Handles(q, kind, c, r, t, scanning)
    PROVE  Handled(q)
BY RefuseStep, ShowStateStep, StartTeleopStep, StopTeleopStep, StartEpisodeStep,
   StopEpisodeStep, UploadStep DEF Handles, LookUp, Kinds

LEMMA ServesStep ==
    ASSUME EpisodesInv, NEW q \in Requests, Aside(q), NEW c \in Rows,
           NEW r \in Rows,
           NEW t, SameMotion(rt, t), UNCHANGED <<sd, taken>>, NEW kind \in Kinds, NEW scanning,
           Serves(q, kind, c, r, t, scanning)
    PROVE  Handled(q)
<1>1. Interrupted(c) \in Rows /\ Stored(r, c, Interrupted(c)) \in Rows
  BY RowsChanged, RowsStored
<1>2. CASE Handles(q, kind, c, r, t, scanning)
  BY <1>2, HandlesStep
<1>3. CASE /\ CommitFails(r, c, Interrupted(c)) /\ rt' = t
           /\ Ends(q) /\ UNCHANGED <<disk, remote>>
  BY <1>1, <1>3, RowsCommitted, Ended, StillStep DEF disk, Others, EpisodesInv,
     EpisodesTypeOK
<1>4. CASE Handles(q, kind, Interrupted(c), Stored(r, c, Interrupted(c)), t,
                   scanning)
  BY <1>1, <1>4, HandlesStep
<1> QED BY <1>2, <1>3, <1>4 DEF Serves

-----------------------------------------------------------------------------
(* The steps of a request *)

LEMMA ScanStep ==
    ASSUME EpisodesInv, NEW q \in Requests, Scan(q)
    PROVE  Handled(q)
<1>1. /\ req[q].at = "scan" /\ req[q] \in Waiting /\ Sound(req[q])
      /\ req[q].kind \in Kinds
      /\ req[q].copy \in Rows
  BY DEF Scan, EpisodesInv, EpisodesTypeOK, Waiting, Sound
<1>2. Others(q)
  <2>1. PICK found \in SUBSET Kept : Goes(q, "merge", req[q].kind, req[q].copy, found)
    BY DEF Scan
  <2>2. found \in SUBSET Episodes /\ "merge" \in Places
    BY DEF Kept, Places
  <2>3. Sound(At("merge", req[q].kind, req[q].copy, found))
    BY <1>1 DEF Sound, At
  <2> QED BY <1>1, <2>1, <2>2, <2>3, Gone DEF Others
<1>3. dir' \in Directories /\ \A e \in Episodes : dir'[e] = "open" => dir[e] = "open"
  BY DEF Scan, Scanned, EpisodesInv, EpisodesTypeOK, Directories
<1> QED BY <1>1, <1>2, <1>3, StillStep
    DEF Scan, process, Aside, SameMotion, EpisodesInv, EpisodesTypeOK

LEMMA ArriveStep ==
    ASSUME EpisodesInv, NEW q \in Requests, NEW kind \in Kinds,
           Arrive(q, kind)
    PROVE  Handled(q)
<1>1. /\ Aside(q) /\ UNCHANGED <<sd, taken>> /\ row \in Rows /\ SameMotion(rt, rt)
  BY DEF Arrive, Aside, process, EpisodesInv, EpisodesTypeOK, SameMotion
<1>2. CASE busy
  BY <1>1, <1>2, ServesStep DEF Arrive
<1>3. CASE ~busy
  <2>1. Goes(q, "scan", kind, row, InUse) /\ UNCHANGED <<row, dir, dropping, rt>>
    BY <1>3 DEF Arrive
  <2>2. InUse \in SUBSET Episodes
    BY DEF InUse, EpisodesInv, EpisodesTypeOK, Runtimes
  <2>3. Others(q)
    BY <1>1, <2>1, <2>2, Gone DEF Others, Sound, At, Places
  <2> QED BY <1>1, <2>1, <2>3, StillStep DEF EpisodesInv, EpisodesTypeOK
<1> QED BY <1>2, <1>3

LEMMA MergeStep ==
    ASSUME EpisodesInv, NEW q \in Requests, Merge(q)
    PROVE  Handled(q)
<1> DEFINE c == req[q].copy
           n == Merged(c, req[q].eps)
<1>1. /\ Aside(q) /\ UNCHANGED <<sd, taken>> /\ row \in Rows /\ rt \in Runtimes /\ req[q].kind \in Kinds
      /\ c \in Rows /\ req[q].eps \in SUBSET Episodes
  BY DEF Merge, Aside, process, EpisodesInv, EpisodesTypeOK, Waiting, Sound
<1>2. n \in Rows
  BY <1>1, RowsChanged
<1>3. Stored(row, c, n) \in Rows /\ SameMotion(rt, Refreshed(rt, n))
  BY <1>1, <1>2, RowsStored, RuntimeEnsured
<1>4. CASE /\ CommitFails(row, c, n) /\ Ends(q)
           /\ UNCHANGED <<rt, dir, dropping, remote>>
  <2>1. row' \in Rows
    BY <1>1, <1>2, <1>4, RowsCommitted
  <2> QED BY <1>1, <1>4, <2>1, Ended, StillStep DEF Others, EpisodesInv, EpisodesTypeOK,
             SameMotion
<1>5. CASE Serves(q, req[q].kind, n, Stored(row, c, n), Refreshed(rt, n), FALSE)
  BY <1>1, <1>2, <1>3, <1>5, ServesStep
<1> QED BY <1>4, <1>5 DEF Merge

LEMMA TeleopStoppedStep ==
    ASSUME EpisodesInv, NEW q \in Requests, TeleopStopped(q)
    PROVE  Handled(q)
<1> DEFINE c == req[q].copy
           clean == [rt EXCEPT !.teleop = "off", !.status = Counted(rt), !.err = "none"]
<1>1. /\ Aside(q) /\ UNCHANGED <<sd, taken>> /\ row \in Rows /\ rt \in Runtimes /\ c \in Rows
      /\ Others(q) /\ dir' \in Directories /\ UNCHANGED dir
  BY Ended DEF TeleopStopped, Aside, Others, process, EpisodesInv,
     EpisodesTypeOK, Waiting
<1>2. /\ clean \in Runtimes /\ clean.episode = rt.episode /\ clean.teleop = "off"
      /\ clean.status \in Statuses
  BY <1>1 DEF Counted, Runtimes, Statuses
<1>3. row' \in Rows
  BY <1>1, <1>2, RowsChanged, RowsCommitted DEF TeleopStopped
<1>4. CASE rt' = clean /\ UNCHANGED dropping
  BY <1>1, <1>2, <1>3, <1>4 DEF EpisodesInv, EpisodesTypeOK, Aside, Others, Handled,
     AccountedFor, Finalizes
<1>5. CASE Compensates(clean)
  BY <1>1, <1>2, <1>3, <1>5, CompensatedStep
<1>6. CASE rt' = [rt EXCEPT !.teleop = "off"] /\ UNCHANGED <<row, dropping>>
  <2>1. rt' \in Runtimes /\ rt'.episode = rt.episode /\ rt'.teleop = "off"
    BY <1>1, <1>6 DEF Runtimes
  <2> QED BY <1>1, <1>3, <1>6, <2>1
      DEF EpisodesInv, EpisodesTypeOK, Aside, Others, Handled, AccountedFor, Finalizes
<1> QED BY <1>4, <1>5, <1>6 DEF TeleopStopped

\* The subject of a finalization, and where it goes.
LEMMA SubjectOf ==
    ASSUME EpisodesInv, NEW q \in Requests,
           req[q].at \in {"closing", "naming", "settled", "broken"}
    PROVE  /\ Subject(q) \in Episodes /\ req[q].eps = {Subject(q)}
           /\ req[q] \in Waiting
<1>1. PICK e \in Episodes : req[q].eps = {e}
  BY DEF EpisodesInv, EpisodesTypeOK, Sound
<1>2. Subject(q) = e
  BY <1>1 DEF Subject
<1> QED BY <1>1, <1>2 DEF EpisodesInv, EpisodesTypeOK

LEMMA Proceeded ==
    ASSUME EpisodesInv, NEW q \in Requests, NEW at \in Places,
           Sound([req[q] EXCEPT !.at = at]),
           Proceeds(q, at)
    PROVE  /\ Others(q) /\ req'[q] = [req[q] EXCEPT !.at = at] /\ req'[q].eps = req[q].eps
           /\ req'[q].at = at
<1>1. req[q] \in Waiting /\ [req[q] EXCEPT !.at = at] \in Waiting
  BY DEF EpisodesInv, EpisodesTypeOK, Waiting
<1>2. req' = [req EXCEPT ![q] = [req[q] EXCEPT !.at = at]]
  BY DEF Proceeds
<1> QED BY <1>1, <1>2, Taken DEF Others, Waiting

LEMMA RenamesStep ==
    ASSUME EpisodesInv, NEW q \in Requests, Renames(q)
    PROVE  Handled(q)
<1>1. /\ req[q].at = "closing" /\ UNCHANGED <<row, rt, dropping>> /\ UNCHANGED <<sd, taken>>
      /\ Subject(q) \in Episodes /\ req[q].eps = {Subject(q)}
      /\ req[q] \in Waiting
  BY SubjectOf DEF Renames, process
<1>2. Sound([req[q] EXCEPT !.at = "naming"]) /\ Sound([req[q] EXCEPT !.at = "broken"])
  BY <1>1 DEF Sound, Waiting
<1>3. CASE dir' = [dir EXCEPT ![Subject(q)] = "renamed"] /\ Proceeds(q, "naming")
  <2>1. /\ dir' \in Directories /\ dir'[Subject(q)] # "open"
        /\ \A e \in Episodes : dir'[e] = "open" => dir[e] = "open"
    BY <1>1, <1>3 DEF EpisodesInv, EpisodesTypeOK, Directories
  <2>2. Others(q)
    BY <1>2, <1>3, Proceeded DEF Places
  <2> QED BY <1>1, <2>1, <2>2 DEF EpisodesInv, EpisodesTypeOK, Others, Handled,
             AccountedFor, Finalizes
<1>4. CASE UNCHANGED dir /\ Proceeds(q, "broken")
  <2>1. Others(q) /\ req'[q].eps = req[q].eps /\ req'[q].at = "broken"
    BY <1>2, <1>4, Proceeded DEF Places
  <2> QED BY <1>1, <1>4, <2>1 DEF EpisodesInv, EpisodesTypeOK, Others, Handled,
             AccountedFor, Finalizes
<1> QED BY <1>3, <1>4 DEF Renames

LEMMA PublishesStep ==
    ASSUME EpisodesInv, NEW q \in Requests, Publishes(q)
    PROVE  Handled(q)
<1>1. /\ req[q].at = "naming" /\ UNCHANGED <<row, rt, dropping>> /\ UNCHANGED <<sd, taken>>
      /\ Subject(q) \in Episodes /\ req[q].eps = {Subject(q)}
      /\ req[q] \in Waiting
  BY SubjectOf DEF Publishes
<1>2. Sound([req[q] EXCEPT !.at = "settled"]) /\ Sound([req[q] EXCEPT !.at = "broken"])
  BY <1>1 DEF Sound, Waiting
<1>3. Others(q)
  BY <1>2, Proceeded DEF Publishes, Places
<1>4. dir' \in Directories /\ \A e \in Episodes : dir'[e] = "open" => dir[e] = "open"
  BY <1>1 DEF Publishes, EpisodesInv, EpisodesTypeOK, Directories
<1> QED BY <1>1, <1>3, <1>4, StillStep DEF Aside, SameMotion, EpisodesInv, EpisodesTypeOK

LEMMA StopSettlesStep ==
    ASSUME EpisodesInv, NEW q \in Requests, StopSettles(q)
    PROVE  Handled(q)
<1> DEFINE c == req[q].copy
           over == Finalized(rt)
           n == [c EXCEPT !.status = over.status, !.count = @ + 1, !.eps = @ \cup req[q].eps]
<1>1. /\ Aside(q) /\ UNCHANGED <<sd, taken>> /\ row \in Rows /\ rt \in Runtimes /\ c \in Rows
      /\ dir' \in Directories /\ UNCHANGED dir /\ req[q].eps \in SUBSET Episodes
  BY DEF StopSettles, Aside, process, EpisodesInv, EpisodesTypeOK, Waiting
<1>2. SameMotion(rt, over) /\ over \in Runtimes /\ over.status \in Statuses
  BY <1>1, RuntimeSettled DEF SameMotion, Runtimes
<1>3. n \in Rows
  <2>1. c.count + 1 \in Nat /\ c.eps \cup req[q].eps \in SUBSET Episodes
    BY <1>1 DEF Rows
  <2> QED BY <1>1, <1>2, <2>1 DEF Rows
<1> HIDE DEF n, over
<1>4. CASE /\ Commits(row, c, n) /\ rt' = over /\ UNCHANGED dropping
           /\ Goes(q, "confirm", "none", n, {})
  <2>1. Sound(At("confirm", "none", n, {})) /\ "confirm" \in Places
    BY DEF Sound, At, Places
  <2>2. Others(q)
    <3>1. Goes(q, "confirm", "none", n, {}) /\ {} \in SUBSET Episodes
      BY <1>4
    <3> QED BY <1>3, <2>1, <3>1, Gone DEF Others
  <2> QED BY <1>1, <1>2, <1>3, <1>4, <2>2, RowsCommitted, StillStep
<1>5. CASE CommitFails(row, c, n) /\ Compensates(over) /\ Ends(q)
  <2>1. row' \in Rows /\ Others(q)
    BY <1>1, <1>3, <1>5, RowsCommitted, Ended DEF Others
  <2> QED BY <1>1, <1>2, <1>5, <2>1, CompensatedStep DEF SameMotion
<1> QED BY <1>4, <1>5 DEF StopSettles, over, n

LEMMA StopConfirmsStep ==
    ASSUME EpisodesInv, NEW q \in Requests, StopConfirms(q)
    PROVE  Handled(q)
<1> DEFINE c == req[q].copy
           now == Confirmed(rt, c)
<1>1. /\ Aside(q) /\ UNCHANGED <<sd, taken>> /\ row \in Rows /\ rt \in Runtimes /\ c \in Rows
      /\ dir' \in Directories /\ UNCHANGED dir /\ Others(q)
  BY Ended DEF StopConfirms, Aside, Others, process, EpisodesInv,
     EpisodesTypeOK, Waiting
<1>2. SameMotion(rt, now) /\ now \in Runtimes /\ now.status \in Statuses
  BY <1>1, RuntimeSettled DEF SameMotion, Runtimes
<1>3. row' \in Rows
  BY <1>1, <1>2, RowsChanged, RowsCommitted DEF StopConfirms
<1>4. CASE rt' = now /\ UNCHANGED dropping
  BY <1>1, <1>2, <1>3, <1>4, StillStep
<1>5. CASE Compensates(now)
  BY <1>1, <1>2, <1>3, <1>5, CompensatedStep DEF SameMotion
<1> QED BY <1>4, <1>5 DEF StopConfirms

\* An abort leaves nothing open of what it is about and opens nothing.
LEMMA AbortsClose ==
    ASSUME dir \in Directories, NEW E, Aborts(E)
    PROVE  /\ dir' \in Directories /\ \A e \in Episodes : dir'[e] = "open" => dir[e] = "open"
           /\ \A e \in E : e \in Episodes => dir'[e] # "open"
BY DEF Aborts, Without, Directories

LEMMA StopAbortsStep ==
    ASSUME EpisodesInv, NEW q \in Requests, StopAborts(q)
    PROVE  Handled(q)
<1>1. /\ req[q].at = "broken" /\ UNCHANGED <<sd, taken>> /\ row' = row /\ row \in Rows /\ rt \in Runtimes
      /\ req[q].copy \in Rows /\ Compensates(rt) /\ Aborts(req[q].eps)
      /\ Goes(q, "failRow", "none", req[q].copy, {})
  BY DEF StopAborts, process, EpisodesInv, EpisodesTypeOK, Waiting
<1>2. /\ dir' \in Directories /\ \A e \in Episodes : dir'[e] = "open" => dir[e] = "open"
      /\ \A e \in req[q].eps : e \in Episodes => dir'[e] # "open"
  BY <1>1, AbortsClose DEF EpisodesInv, EpisodesTypeOK
<1>3. Others(q)
  <2>1. Sound(At("failRow", "none", req[q].copy, {})) /\ "failRow" \in Places
    BY DEF Sound, At, Places
  <2> QED BY <1>1, <2>1, Gone DEF Others
<1>4. /\ rt' \in Runtimes /\ rt'.episode = None /\ rt'.teleop # "on"
      /\ dropping' = dropping \cup ({rt.episode} \ {None})
      /\ rt.episode \in Episodes \cup {None}
  BY <1>1, RuntimeCompensated DEF Compensates, Runtimes
<1> QED BY <1>1, <1>2, <1>3, <1>4, EpisodesAreNumbers
    DEF EpisodesInv, EpisodesTypeOK, Others, Handled, AccountedFor, Finalizes

LEMMA FailsRowStep ==
    ASSUME EpisodesInv, NEW q \in Requests, FailsRow(q)
    PROVE  Handled(q)
<1>1. /\ Aside(q) /\ UNCHANGED <<sd, taken>> /\ row \in Rows /\ req[q].copy \in Rows /\ Others(q)
      /\ UNCHANGED <<rt, dir, dropping>>
  BY Ended DEF FailsRow, Aside, Others, process, disk, EpisodesInv,
     EpisodesTypeOK, Waiting
<1>2. row' \in Rows
  BY <1>1, RowsChanged, RowsCommitted DEF FailsRow, Statuses
<1> QED BY <1>1, <1>2, StillStep DEF SameMotion, EpisodesInv, EpisodesTypeOK

\* An upload, from its thread on: what it changes of the directories is to remove them all.
LEMMA UploadingStep ==
    ASSUME EpisodesInv, NEW q \in Requests,
           req[q].at \in {"convert", "look", "create", "mark", "send", "collided", "sent",
                           "cleaning"},
           Others(q), row' \in Rows, UNCHANGED <<rt, dropping, sd, taken>>,
           UNCHANGED dir \/ Removed(dir)
    PROVE  Handled(q)
<1>1. /\ dir' \in Directories /\ \A e \in Episodes : dir'[e] = "open" => dir[e] = "open"
  BY DEF Removed, EpisodesInv, EpisodesTypeOK, Directories
<1> QED BY <1>1, StillStep DEF Aside, SameMotion, EpisodesInv, EpisodesTypeOK

LEMMA ConvertsStep ==
    ASSUME EpisodesInv, NEW q \in Requests,
           Converts(q) \/ Looks(q) \/ Creates(q) \/ Marks(q)
    PROVE  Handled(q)
<1>1. /\ req[q].at \in {"convert", "look", "create", "mark"} /\ req[q] \in Waiting
      /\ req[q].kind \in Statuses /\ row \in Rows /\ UNCHANGED <<row, rt, dir, dropping, sd, taken>>
  BY DEF Converts, Looks, Creates, Marks, Quietly, disk,
     process, EpisodesInv, EpisodesTypeOK, Sound
<1>2. PICK at \in {"look", "create", "collided", "send", "mark"} : Proceeds(q, at)
  <2>1. CASE Looks(q)
    BY <2>1 DEF Looks
  <2>2. CASE Converts(q)
    BY <2>2 DEF Converts
  <2>3. CASE Creates(q)
    BY <2>3 DEF Creates
  <2>4. CASE Marks(q)
    BY <2>4 DEF Marks
  <2> QED BY <2>1, <2>2, <2>3, <2>4
<1>3. at \in Places /\ Sound([req[q] EXCEPT !.at = at])
  BY <1>1 DEF Places, Sound, Waiting
<1>4. Others(q)
  BY <1>2, <1>3, Proceeded
<1> QED BY <1>1, <1>4, UploadingStep

LEMMA UploadEndsStep ==
    ASSUME EpisodesInv, NEW q \in Requests,
           UploadSucceeds(q) \/ UploadFails(q) \/ UploadCollides(q)
    PROVE  Handled(q)
<1> DEFINE c == req[q].copy
<1>1. /\ req[q].at \in {"convert", "look", "create", "mark", "send", "collided"}
      /\ c \in Rows /\ req[q].kind \in Statuses /\ row \in Rows
      /\ UNCHANGED <<rt, dir, dropping, sd, taken>>
  BY DEF UploadSucceeds, UploadFails, UploadCollides, Gives, disk,
     process, EpisodesInv, EpisodesTypeOK, Waiting,
     Sound
<1>2. ASSUME NEW n \in Rows, Commits(row, c, n) \/ CommitFails(row, c, n), Others(q)
      PROVE  Handled(q)
  BY <1>1, <1>2, RowsCommitted, UploadingStep
<1>3. ASSUME NEW n \in Rows, Gives(q, n)
      PROVE  Handled(q)
  BY <1>2, <1>3, Ended DEF Gives, Releases, Others
<1>4. CASE UploadSucceeds(q)
  <2> DEFINE n == [c EXCEPT !.status = "uploaded", !.upload = "uploaded"]
  <2>1. n \in Rows
    BY <1>1 DEF Rows, Statuses
  <2>2. Others(q)
    <3>1. CASE Goes(q, "sent", "none", Blank, {})
      <4>1. /\ Sound(At("sent", "none", Blank, {})) /\ "sent" \in Places
            /\ {} \in SUBSET Episodes
        BY DEF Sound, At, Places
      <4> QED BY <3>1, <4>1, NothingAsked, Gone DEF Others
    <3>2. CASE Releases(q)
      BY <3>2, Ended DEF Releases, Others
    <3> QED BY <1>4, <3>1, <3>2 DEF UploadSucceeds
  <2> HIDE DEF n
  <2> QED BY <1>2, <1>4, <2>1, <2>2 DEF UploadSucceeds, n
<1>5. CASE UploadFails(q)
  <2>1. [c EXCEPT !.status = "failed", !.upload = "failed"] \in Rows
    BY <1>1 DEF Rows, Statuses
  <2> QED BY <1>3, <1>5, <2>1 DEF UploadFails
<1>6. CASE UploadCollides(q)
  <2>1. [c EXCEPT !.status = req[q].kind, !.upload = "none"] \in Rows
    BY <1>1 DEF Rows
  <2> QED BY <1>3, <1>6, <2>1 DEF UploadCollides
<1> QED BY <1>4, <1>5, <1>6

LEMMA CleansStep ==
    ASSUME EpisodesInv, NEW q \in Requests,
           CleanBegins(q) \/ CleanEnds(q)
    PROVE  Handled(q)
<1>1. /\ req[q].at \in {"sent", "cleaning"} /\ row' \in Rows /\ UNCHANGED <<rt, dropping, sd, taken>>
      /\ UNCHANGED dir \/ Removed(dir)
  BY DEF CleanBegins, CleanEnds, process, EpisodesInv, EpisodesTypeOK
<1>2. Others(q)
  <2>1. CASE Releases(q)
    BY <2>1, Ended DEF Releases, Others
  <2>2. CASE Goes(q, "cleaning", "none", Blank, {})
    <3>1. /\ Sound(At("cleaning", "none", Blank, {})) /\ "cleaning" \in Places
          /\ {} \in SUBSET Episodes
      BY DEF Sound, At, Places
    <3> QED BY <2>2, <3>1, NothingAsked, Gone DEF Others
  <2> QED BY <2>1, <2>2 DEF CleanBegins, CleanEnds
<1> QED BY <1>1, <1>2, UploadingStep

-----------------------------------------------------------------------------
(* The steps of the manager and of the process *)

LEMMA TeleopEndsStep ==
    ASSUME EpisodesInv, TeleopReleases \/ TeleopBreaks
    PROVE  EpisodesStep
<1>1. /\ rt \in Runtimes /\ UNCHANGED <<row, dir, req, sd, taken>> /\ dropping \subseteq dropping'
      /\ rt.episode \in {None, rt'.episode} \cup dropping'
      /\ dropping' \in SUBSET Episodes
  BY DEF TeleopReleases, TeleopBreaks, disk, process, EpisodesInv,
     EpisodesTypeOK, Runtimes
<1>2. rt' \in Runtimes /\ rt'.teleop # "on" /\ rt'.episode \in {None, rt.episode}
  BY <1>1 DEF TeleopReleases, TeleopBreaks, Runtimes, Statuses
<1>3. EpisodesTypeOK'
  BY <1>1, <1>2 DEF EpisodesInv, EpisodesTypeOK
<1>4. OpenIsKnown'
  BY <1>1, <1>2 DEF EpisodesInv, OpenIsKnown, Finalizes
<1>5. NoneRecorded' /\ TakenIsClosed'
  BY <1>1, <1>2 DEF EpisodesInv, EpisodesTypeOK, NoneRecorded, TakenIsClosed
<1> QED BY <1>3, <1>4, <1>5 DEF EpisodesStep

LEMMA DropsStep ==
    ASSUME EpisodesInv, NEW e \in Episodes, Drops(e)
    PROVE  EpisodesStep
<1>1. /\ UNCHANGED <<row, rt, req, sd, taken>> /\ dropping' = dropping \ {e}
      /\ Aborts({e})
  BY DEF Drops
<1>2. /\ dir' \in Directories /\ dir'[e] # "open"
      /\ \A f \in Episodes : dir'[f] = "open" => dir[f] = "open"
  BY <1>1, AbortsClose DEF EpisodesInv, EpisodesTypeOK
<1>3. EpisodesTypeOK'
  BY <1>1, <1>2 DEF EpisodesInv, EpisodesTypeOK
<1>4. OpenIsKnown'
  BY <1>1, <1>2 DEF EpisodesInv, OpenIsKnown, Finalizes
<1>5. NoneRecorded' /\ TakenIsClosed'
  BY <1>1, <1>2 DEF EpisodesInv, EpisodesTypeOK, NoneRecorded, TakenIsClosed
<1> QED BY <1>3, <1>4, <1>5 DEF EpisodesStep

LEMMA ShutdownStep ==
    ASSUME EpisodesInv, BeginShutdown \/ EndShutdown
    PROVE  EpisodesStep
<1>1. CASE BeginShutdown
  <2>1. /\ UNCHANGED <<row, dir, req>> /\ sd' = "closing" /\ taken' \in SUBSET Episodes
        /\ dropping' = dropping \cup ({rt.episode} \ {None})
    BY <1>1 DEF BeginShutdown, Held
  <2>2. rt' \in Runtimes /\ rt'.episode = None /\ rt'.teleop # "on"
    BY <1>1 DEF BeginShutdown, EpisodesInv, EpisodesTypeOK, Runtimes
  <2>3. EpisodesTypeOK'
    BY <2>1, <2>2 DEF EpisodesInv, EpisodesTypeOK, Runtimes
  <2>4. OpenIsKnown'
    BY <2>1, <2>2, EpisodesAreNumbers DEF EpisodesInv, OpenIsKnown, Finalizes
  <2> QED BY <2>1, <2>2, <2>3, <2>4 DEF EpisodesStep, NoneRecorded,
             TakenIsClosed
<1>2. CASE EndShutdown
  <2> DEFINE gone == UNION {req[q].eps : q \in {p \in Requests : req[p].at = "broken"}}
  <2>1. /\ UNCHANGED <<row, dropping, req, taken>> /\ sd' = "down" /\ sd = "closing"
        /\ dropping \cap taken = {} /\ Aborts(taken \cap gone)
        /\ \A q \in Requests : req[q].at = "closing" => req[q].eps \cap taken = {}
    BY <1>2 DEF EndShutdown
  <2>2. rt' \in Runtimes /\ rt'.episode = None /\ rt'.teleop # "on" /\ rt.episode = None
    BY <1>2, <2>1 DEF EndShutdown, EpisodesInv, EpisodesTypeOK, NoneRecorded, Runtimes
  <2>3. /\ dir' \in Directories /\ \A e \in Episodes : dir'[e] = "open" => dir[e] = "open"
        /\ \A e \in taken \cap gone : e \in Episodes => dir'[e] # "open"
    BY <2>1, AbortsClose DEF EpisodesInv, EpisodesTypeOK
  <2>4. EpisodesTypeOK'
    BY <2>1, <2>2, <2>3 DEF EpisodesInv, EpisodesTypeOK
  <2>5. OpenIsKnown'
    BY <2>1, <2>2, <2>3, EpisodesAreNumbers DEF EpisodesInv, OpenIsKnown, Finalizes
  <2>6. \A e \in taken : dir'[e] # "open"
    <3>1. ASSUME NEW e \in taken, dir'[e] = "open"
          PROVE  FALSE
      <4>1. PICK q \in Requests : req[q].at = "broken" /\ req[q].eps = {e}
        BY <2>1, <2>2, <2>3, <3>1, EpisodesAreNumbers DEF EpisodesInv, EpisodesTypeOK,
           OpenIsKnown, Finalizes
      <4> QED BY <2>3, <3>1, <4>1 DEF EpisodesInv, EpisodesTypeOK
    <3> QED BY <3>1
  <2> QED BY <2>1, <2>2, <2>4, <2>5, <2>6
      DEF EpisodesStep, NoneRecorded, TakenIsClosed
<1> QED BY <1>1, <1>2

LEMMA RestartStep ==
    ASSUME EpisodesInv, Restart
    PROVE  EpisodesStep
<1>1. row \in Rows /\ dir \in Directories
  BY DEF EpisodesInv, EpisodesTypeOK
<1>2. /\ sd' = "up" /\ taken' = {} /\ rt' = Quiet /\ dropping' = {}
      /\ req' = [q \in Requests |-> Unused]
  BY DEF Restart
<1>3. dir' \in Directories /\ \A e \in Episodes : dir'[e] # "open"
  BY <1>1 DEF Restart, Left, Removed, Scanned, Directories
<1>4. row' \in Rows
  <2>1. ASSUME NEW found \in SUBSET Kept
        PROVE  Recovered(found) \in Rows
    <3>1. row.eps \cup found \in SUBSET Episodes
      BY <1>1 DEF Rows, Kept
    <3>2. Cardinality(row.eps \cup found) \in Nat
      BY <3>1, EpisodesCounted
    <3> QED BY <1>1, <3>1, <3>2 DEF Recovered, Broken, Rows, Statuses
  <2> QED BY <1>1, <2>1 DEF Restart
<1>5. Quiet \in Runtimes
  BY DEF Quiet, Runtimes, Statuses
<1>6. EpisodesTypeOK'
  BY <1>2, <1>3, <1>4, <1>5, NothingAsked DEF EpisodesTypeOK
<1> QED BY <1>2, <1>3, <1>6 DEF EpisodesStep, OpenIsKnown, NoneRecorded,
           TakenIsClosed

-----------------------------------------------------------------------------
\* The invariant holds at first and is kept.
LEMMA EpisodesAtFirst ==
    ASSUME RecordingsInit
    PROVE  EpisodesInv
<1>1. Quiet \in Runtimes /\ Blank \in Rows /\ dir \in Directories
  BY NothingAsked DEF RecordingsInit, Quiet, Runtimes, Statuses, Directories
<1> QED BY <1>1, NothingAsked
    DEF RecordingsInit, EpisodesInv, EpisodesTypeOK, OpenIsKnown, NoneRecorded,
       TakenIsClosed

LEMMA EpisodesNext ==
    ASSUME EpisodesInv, [RecordingsNext]_recordingVars
    PROVE  EpisodesInv'
<1>1. CASE UNCHANGED recordingVars
  BY <1>1 DEF recordingVars, disk, process, remote, EpisodesInv, EpisodesTypeOK,
     OpenIsKnown, Finalizes, NoneRecorded,
     TakenIsClosed
<1>2. ASSUME NEW q \in Requests, Works(q)
      PROVE  Handled(q)
  BY <1>2, ScanStep, MergeStep, TeleopStoppedStep, RenamesStep, PublishesStep,
     StopSettlesStep,
     StopConfirmsStep, StopAbortsStep, FailsRowStep, ConvertsStep, UploadEndsStep, CleansStep
     DEF Works
<1>3. ASSUME NEW q \in Requests, NEW kind \in Asks(q), Arrive(q, kind)
      PROVE  Handled(q)
  <2>1. kind \in Kinds
    BY DEF Asks, Kinds
  <2> QED BY <1>3, <2>1, ArriveStep
<1>4. ASSUME NEW q \in Requests, Handled(q)
      PROVE  EpisodesStep
  BY <1>4, AccountedForStep DEF Handled
<1>5. CASE RecordingsNext
  <2>1. EpisodesStep
    BY <1>2, <1>3, <1>4, <1>5, TeleopEndsStep, DropsStep, ShutdownStep, RestartStep DEF
       RecordingsNext
  <2> QED BY <2>1 DEF EpisodesStep, EpisodesInv
<1> QED BY <1>1, <1>5

\* For any bounds and any number of requests at once: an episode that is open is the one
\* recorded, one some task is about to remove, or one whose finalization is under way or has
\* failed; once the process shuts down nothing is recorded, and what the shutdown took over
\* is closed when it returns.
THEOREM EpisodesInductive ==
    RecordingsSpec => []EpisodesInv
BY EpisodesAtFirst, EpisodesNext, PTL DEF RecordingsSpec

\* ShutdownClosesItsOwn: when shutdown is over no episode it found recorded or in
\* finalization is half recorded, and what else is open an abort or a finalization has that
\* a failure had taken before, however many requests were under way.
THEOREM ClosesItsOwn ==
    RecordingsSpec => []ShutdownClosesItsOwn
<1>1. EpisodesInv => ShutdownClosesItsOwn
  BY EpisodesAreNumbers DEF EpisodesInv, EpisodesTypeOK, OpenIsKnown, Finalizes, NoneRecorded,
     TakenIsClosed, ShutdownClosesItsOwn
<1> QED BY <1>1, EpisodesInductive, PTL

-----------------------------------------------------------------------------
(* What recordings keep: the invariant *)

\* One client at a time changes the recording, and any number of pages poll.
Operators == Requests \ Pollers
OneOperator == \A p, q \in Operators : p = q

\* What a waiting request is about: the row and the directories, a finalization, or an
\* upload; and the statuses only an upload leads to.
Reconciles(w) == w.at \in {"scan", "merge"}
Flies(w) == w.at \in {"closing", "naming", "settled", "broken"}
Sends(w) == w.at \in {"convert", "look", "create", "mark", "send", "collided"}
Uploads(w) == Sends(w) \/ w.at \in {"sent", "cleaning"}
Bad == {"uploading", "uploaded"}

\* Whether an episode is with a finalization, or past its publication; whether the
\* recorder is at work at all.
Flying(w, e) == \E q \in Requests : Flies(w[q]) /\ e \in w[q].eps
Settles(w, e) == \E q \in Requests : w[q].at = "settled" /\ e \in w[q].eps
AtWork(t, w) == t.episode # None \/ t.final # None \/ \E q \in Requests : Flies(w[q])

\* Everything has its type, and every request waits for what its kind waits for.
Typed(r, t, w) ==
    /\ r \in Rows /\ t \in Runtimes /\ w \in [Requests -> Waiting]
    /\ \A q \in Requests : Sound(w[q])
    /\ dir \in Directories

\* Pages reconcile and no more; an upload runs only with its reservation, and with the arms
\* at rest.
PlacesSound(t, w) ==
    /\ \A q \in Pollers : /\ w[q].at \in {"free", "scan", "merge"}
                          /\ Reconciles(w[q]) => w[q].kind = "state"
    /\ \A q \in Requests : Uploads(w[q]) => reserved /\ t.episode = None /\ t.teleop # "on"
    /\ \A q \in Requests : Sends(w[q]) =>
           /\ w[q].kind \in {"ready", "failed"}
           /\ w[q].copy.status = "uploading" /\ w[q].copy.upload = "uploading"
    /\ reserved => \E q \in Requests : Uploads(w[q])

\* The runtime knows whom it finalizes for, and records nothing new meanwhile.
MotionSound(t, w) ==
    /\ t.final # None => \E q \in Requests :
            \/ Flies(w[q]) /\ w[q].eps = {t.final}
            \/ w[q].at = "confirm"
    /\ \A q \in Requests : Flies(w[q]) =>
           t.episode = None /\ (sd # "down" => t.final \in w[q].eps /\ t.task)

\* While anything is recorded neither the row nor the runtime nor a copy says upload.
StatusSound(r, t, w) ==
    /\ t.teleop = "on" \/ AtWork(t, w) => t.status \notin Bad
    /\ AtWork(t, w) => /\ r.status \notin Bad
                       /\ \A q \in Requests : Reconciles(w[q]) => w[q].copy.status \notin Bad
    /\ \A q \in Operators : Reconciles(w[q]) /\ t.teleop = "on" /\ r.status \in Bad =>
           r.status = w[q].copy.status
    /\ \A q \in Requests : w[q].at = "confirm" => w[q].copy.status \notin Bad

\* What is kept is on the row, adrift, or about to be put there.
KeptSound(r, t, w) ==
    /\ \A e \in Kept : e \in r.eps \/ e \in adrift \/ Settles(w, e)
    /\ AtWork(t, w) => \A e \in Kept : e \in r.eps \/ Flying(w, e)
    /\ \A q \in Requests : w[q].at = "settled" => w[q].eps \subseteq Kept \cup adrift

\* A request about to scan excludes what is being recorded, and knows of the rest.
ScanSound(r, t, w, a) ==
    /\ {t.episode, t.final} \ {None} \subseteq a.eps
    /\ \A q \in Requests : Flies(w[q]) => w[q].eps \subseteq a.eps
    /\ a.eps # {} => Kept \subseteq a.copy.eps \cup a.eps
    /\ a.copy.eps \subseteq r.eps \cup adrift
    /\ r.eps \subseteq a.copy.eps \cup a.eps
    /\ a.copy.status \in Bad => a.eps = {}

\* A request about to merge has found what is kept and its copy lacks.
MergeSound(r, t, w, a) ==
    /\ a.eps \subseteq Kept \cup adrift
    /\ a.copy.eps \subseteq r.eps \cup adrift
    /\ a.eps \subseteq a.copy.eps \cup adrift
    /\ ~(a.eps \subseteq a.copy.eps) => r.eps \subseteq a.copy.eps /\ ~AtWork(t, w)
    /\ a.copy.status \in Bad => r.eps \subseteq a.copy.eps

\* The copies requests work from: the operator's is the row, a page's is no older than
\* what it may write.
CopiesSound(r, t, w) ==
    /\ \A q \in Requests : w[q].at = "scan" => ScanSound(r, t, w, w[q])
    /\ \A q \in Requests : w[q].at = "merge" => MergeSound(r, t, w, w[q])
    /\ \A q \in Operators : Reconciles(w[q]) =>
           /\ r.eps = w[q].copy.eps /\ r.count = w[q].copy.count
           /\ HasTarget(r) = HasTarget(w[q].copy)
    /\ \A q \in Operators : w[q].at = "scan" /\ t.teleop = "on" =>
           w[q].eps = {t.episode, t.final} \ {None}
    /\ \A q \in Requests : Flies(w[q]) =>
           /\ r.eps = w[q].copy.eps /\ HasTarget(r) = HasTarget(w[q].copy)
           /\ adrift = {} => r.count = w[q].copy.count
    /\ \A q \in Requests : Sends(w[q]) =>
           w[q].copy.eps \subseteq r.eps /\ r.eps \subseteq w[q].copy.eps \cup adrift
    /\ adrift = {} => \A q \in Requests : Reconciles(w[q]) \/ Flies(w[q]) =>
           w[q].copy.count = Cardinality(w[q].copy.eps)

\* Whoever says that the recording is uploaded is right.
SaysUploaded(r, t, w) ==
    \/ r.status = "uploaded" \/ t.status = "uploaded"
    \/ \E q \in Requests : Reconciles(w[q]) /\ w[q].copy.status = "uploaded"
    \/ \E q \in Requests : w[q].at \in {"sent", "cleaning"}
UploadedSound(r, t, w) ==
    SaysUploaded(r, t, w) => Kept \cup r.eps \subseteq hub \cup adrift

\* The row's list against what there is: in staging, in a dataset of ours, or over and done.
Remote(r, w) ==
    /\ HasTarget(r) /\ repo = "ours"
    /\ \A q \in Requests : Reconciles(w[q]) => HasTarget(w[q].copy)
    /\ \A q \in Requests : Sends(w[q]) => w[q].trusted
Over(r, t, w) ==
    /\ r.status = "uploaded" /\ t.err = "none" /\ t.teleop = "off"
    /\ t.episode = None /\ t.final = None
    /\ \A q \in Requests :
          \/ w[q].at = "free"
          \/ Reconciles(w[q]) /\ w[q].copy.status = "uploaded"
ListSound(r, t, w) == adrift = {} =>
    /\ t.episode \notin r.eps
    /\ \A q \in Requests : w[q].at \in {"closing", "naming", "settled"} => w[q].eps \cap r.eps = {}
    /\ r.eps \subseteq Kept \/ Remote(r, w) \/ Over(r, t, w)
    /\ r.eps \subseteq Kept \cup hub
    /\ r.count = Cardinality(r.eps)
    /\ \A q \in Requests : w[q].at \in {"send", "sent", "cleaning"} => repo = "ours"
    /\ \A q \in Requests : w[q].at = "create" => repo = "absent"
    /\ \A q \in Requests : Uploads(w[q]) => HasTarget(r)
    /\ \A q \in Requests : w[q].at = "collided" /\ w[q].trusted => repo # "ours"

\* Whom the repository belongs to, so long as at most one fault has come between.
TargetSound(r, t, w) == adrift = {} =>
    /\ faults = 0 /\ t.teleop = "closing" =>
          /\ sd # "up"
          /\ \A q \in Pollers : Reconciles(w[q]) => ~reserved
    /\ faults <= 1 =>
       /\ t.status = "uploading" => t.err = "none"
       /\ r.status = "uploading" => HasTarget(r)
       /\ t.teleop = "on" => r.status # "uploading"
       /\ \A q \in Requests : Reconciles(w[q]) /\ w[q].copy.status = "uploading" =>
              HasTarget(w[q].copy)
       /\ \A q \in Operators : Reconciles(w[q]) =>
              /\ r.status = "uploading" => w[q].copy.status = "uploading"
              /\ t.teleop = "on" \/ (faults = 0 /\ t.teleop = "closing") =>
                    w[q].copy.status # "uploading"
       /\ repo \in {"bare", "ours"} => HasTarget(r)
       /\ \A q \in Requests : w[q].at \in {"convert", "look"} /\ ~w[q].trusted =>
              repo \notin {"bare", "ours"}
       /\ \A q \in Requests : w[q].at = "collided" => repo \notin {"bare", "ours"}
QuietSound(t) == adrift = {} /\ faults = 0 /\ t.teleop = "closing" => t.status # "uploading"

\* One request at a time holds the directories, and the operator's finds all that is kept.
Holds(w) == w.at \in {"scan", "merge", "cleaning"}
TurnsSound ==
    /\ \A q \in Requests : Holds(req[q]) => busy
    /\ \A p, q \in Requests : Holds(req[p]) /\ Holds(req[q]) => p = q
    /\ \A q \in Operators : req[q].at = "merge" /\ rt.teleop = "on" /\ rt.episode = None =>
           Kept \subseteq req[q].copy.eps \cup req[q].eps

\* Agreement of a row, a runtime and the requests, as a handler has them midway; and the
\* invariant, which is about the present ones.
Fit(r, t, w) ==
    /\ Typed(r, t, w)
    /\ PlacesSound(t, w) /\ MotionSound(t, w) /\ StatusSound(r, t, w) /\ KeptSound(r, t, w)
    /\ CopiesSound(r, t, w) /\ UploadedSound(r, t, w) /\ ListSound(r, t, w)
    /\ TargetSound(r, t, w)
FilesInv == faults \in Nat /\ Fit(row, rt, req) /\ QuietSound(rt) /\ TurnsSound

-----------------------------------------------------------------------------
(* Consequences, and what ensure_session does *)

\* With one operator, all others poll.
LEMMA OthersPoll ==
    ASSUME OneOperator, NEW q \in Operators, NEW t, NEW w, PlacesSound(t, w)
    PROVE  \A p \in Requests : p # q => p \in Pollers /\ w[p].at \in {"free", "scan", "merge"}
BY DEF OneOperator, Operators, PlacesSound

\* ensure_session changes what the runtime says, not what it does.
SameWork(t, u) ==
    /\ u \in Runtimes /\ u.teleop = t.teleop /\ u.episode = t.episode /\ u.final = t.final
    /\ u.task = t.task /\ u.err = t.err

\* What ensure_session leaves of the runtime's work, and what it may make it say.
LEMMA EnsuredSays ==
    ASSUME NEW t \in Runtimes, NEW c \in Rows
    PROVE  /\ SameWork(t, Ensured(t, c))
           /\ Ensured(t, c).status \in {t.status, c.status, "ready", "draft"}
           /\ t.teleop = "on" \/ t.episode # None \/ t.final # None \/ t.err # "none" =>
                  Ensured(t, c).status = t.status
           /\ t.teleop # "on" /\ t.episode = None /\ t.final = None /\ t.err = "none"
                 /\ c.status \in Bad => Ensured(t, c).status = c.status
           /\ t.teleop # "on" /\ t.episode = None /\ t.final = None /\ t.err = "none" =>
                  Ensured(t, c).status \in {c.status, "ready", "draft"}
BY DEF SameWork, Ensured, Idle, Runtimes, Rows, Statuses, Bad

\* The runtime may say something else.
LEMMA SaysFit ==
    ASSUME NEW r, NEW t, NEW w, Fit(r, t, w), NEW u, SameWork(t, u),
           u.status \in Bad => u.status = t.status \/ (t.teleop # "on" /\ ~AtWork(t, w)),
           u.status = "uploaded" => SaysUploaded(r, t, w),
           adrift = {} /\ faults <= 1 /\ u.status = "uploading" => t.err = "none"
    PROVE  Fit(r, u, w)
<1>1. AtWork(u, w) = AtWork(t, w) /\ u \in Runtimes
  BY DEF AtWork, SameWork
<1>2. Typed(r, u, w) /\ PlacesSound(u, w) /\ MotionSound(u, w)
  BY <1>1 DEF Fit, Typed, PlacesSound, MotionSound, SameWork
<1>3. StatusSound(r, u, w) /\ KeptSound(r, u, w)
  BY <1>1 DEF Fit, StatusSound, KeptSound, SameWork
<1>4. CopiesSound(r, u, w)
  BY <1>1 DEF Fit, CopiesSound, ScanSound, MergeSound, SameWork
<1>5. UploadedSound(r, u, w)
  BY DEF Fit, UploadedSound, SaysUploaded
<1>6. ListSound(r, u, w)
  BY DEF Fit, ListSound, Over, SameWork
<1>7. TargetSound(r, u, w)
  BY DEF Fit, TargetSound, SameWork
<1> QED BY <1>2, <1>3, <1>4, <1>5, <1>6, <1>7 DEF Fit

\* A reconciliation that ensures the session from its copy keeps row, runtime and
\* requests in agreement.
LEMMA EnsuredFit ==
    ASSUME NEW r, NEW t, NEW w, Fit(r, t, w), NEW q \in Requests, w[q].at = "merge"
    PROVE  Fit(r, Ensured(t, w[q].copy), w)
<1> DEFINE c == w[q].copy
           u == Ensured(t, c)
<1>1. t \in Runtimes /\ c \in Rows /\ w[q] \in Waiting
  BY DEF Fit, Typed, Waiting
<1>2. Reconciles(w[q])
  BY DEF Reconciles
<1>3. u.status \in Bad => u.status = t.status \/ (t.teleop # "on" /\ ~AtWork(t, w))
  BY <1>1, <1>2, EnsuredSays DEF Fit, StatusSound, Bad
<1>4. u.status = "uploaded" => SaysUploaded(r, t, w)
  BY <1>1, <1>2, EnsuredSays DEF SaysUploaded
<1>5. adrift = {} /\ faults <= 1 /\ u.status = "uploading" => t.err = "none"
  BY <1>1, EnsuredSays DEF Fit, TargetSound
<1>6. SameWork(t, u)
  BY <1>1, EnsuredSays
<1> QED BY <1>3, <1>4, <1>5, <1>6, SaysFit

\* A request that has reconciled may leave.
LEMMA LeavesFit ==
    ASSUME NEW r, NEW t, NEW w, Fit(r, t, w), NEW q \in Requests, w[q].at = "merge"
    PROVE  Fit(r, t, [w EXCEPT ![q] = Unused])
<1> DEFINE v == [w EXCEPT ![q] = Unused]
<1>1. /\ v[q] = Unused /\ v[q].at = "free" /\ \A p \in Requests : p # q => v[p] = w[p]
      /\ v \in [Requests -> Waiting] /\ \A p \in Requests : Sound(v[p])
  BY NothingAsked DEF Fit, Typed
<1> HIDE DEF v
<1>2. AtWork(t, v) = AtWork(t, w) /\ \A e : Flying(v, e) = Flying(w, e) /\ Settles(v, e) = Settles(w, e)
  BY <1>1 DEF AtWork, Flies, Flying, Settles
<1>3. Typed(r, t, v) /\ PlacesSound(t, v) /\ MotionSound(t, v)
  <2>1. Typed(r, t, v)
    BY <1>1 DEF Fit, Typed
  <2>2. PlacesSound(t, v)
    <3>1. \A p \in Requests : Uploads(v[p]) = Uploads(w[p])
      BY <1>1 DEF Uploads, Sends
    <3>2. \A p \in Requests : Sends(v[p]) => v[p] = w[p] /\ Sends(w[p])
      BY <1>1 DEF Sends
    <3>3. \A p \in Requests : Reconciles(v[p]) => v[p] = w[p]
      BY <1>1 DEF Reconciles
    <3>4. \A p \in Requests : v[p] = w[p] \/ v[p].at = "free"
      BY <1>1
    <3>5. PlacesSound(t, w)
      BY DEF Fit
    <3> QED BY <3>1, <3>2, <3>3, <3>4, <3>5, RecordingBounds DEF PlacesSound
  <2>3. MotionSound(t, v)
    BY <1>1 DEF Fit, MotionSound, Flies
  <2> QED BY <2>1, <2>2, <2>3
<1>4. StatusSound(r, t, v)
  BY <1>1, <1>2 DEF Fit, StatusSound, Reconciles, Operators
<1>41. KeptSound(r, t, v)
  BY <1>1, <1>2 DEF Fit, KeptSound
<1>5. CopiesSound(r, t, v)
  <2>1. \A p \in Requests : v[p].at = "scan" => ScanSound(r, t, v, v[p])
    BY <1>1, <1>2 DEF Fit, CopiesSound, ScanSound, Flies
  <2>2. \A p \in Requests : v[p].at = "merge" => MergeSound(r, t, v, v[p])
    BY <1>1, <1>2 DEF Fit, CopiesSound, MergeSound
  <2> QED BY <1>1, <1>2, <2>1, <2>2 DEF Fit, CopiesSound, Flies, Reconciles, Sends, Operators
<1>6. UploadedSound(r, t, v)
  BY <1>1 DEF Fit, UploadedSound, SaysUploaded, Reconciles
<1>7. ListSound(r, t, v)
  <2>1. Remote(r, w) => Remote(r, v)
    BY <1>1 DEF Remote, Reconciles, Sends
  <2>2. Over(r, t, w) => Over(r, t, v)
    BY <1>1 DEF Over, Reconciles
  <2> QED BY <1>1, <2>1, <2>2 DEF Fit, ListSound, Uploads, Sends
<1>8. TargetSound(r, t, v)
  <2>1. \A p \in Requests : Reconciles(v[p]) => Reconciles(w[p]) /\ v[p] = w[p]
    BY <1>1 DEF Reconciles
  <2>2. \A p \in Requests : v[p].at \in {"convert", "look", "collided"} => v[p] = w[p]
    BY <1>1
  <2>3. Operators \subseteq Requests
    BY DEF Operators
  <2>4. TargetSound(r, t, w)
    BY DEF Fit
  <2>5. \A p \in Requests : Reconciles(v[p]) /\ v[p].copy.status = "uploading" =>
              Reconciles(w[p]) /\ w[p].copy.status = "uploading" /\ w[p].copy = v[p].copy
    BY <2>1
  <2> QED BY <2>1, <2>2, <2>3, <2>4, <2>5, RecordingBounds DEF TargetSound
<1> QED BY <1>3, <1>4, <1>41, <1>5, <1>6, <1>7, <1>8 DEF Fit, v

-----------------------------------------------------------------------------
(* A step that touches neither files nor Hub, or loses some *)

\* What is not kept any longer is lost, as what an abort cannot read is.
Loses ==
    /\ dir' \in Directories /\ Kept' \subseteq Kept
    /\ Kept \subseteq Kept' \cup adrift' /\ adrift \subseteq adrift'
    /\ faults' \in Nat /\ faults <= faults'

LEMMA AbortsLose ==
    ASSUME dir \in Directories, faults \in Nat, NEW E, Aborts(E)
    PROVE  Loses
<1>1. PICK lost \in SUBSET (E \cap Kept) : Reads(lost) /\ dir' = Without(E, lost)
  BY DEF Aborts
<1>2. faults' \in Nat /\ faults <= faults' /\ adrift' = adrift \cup lost
  BY <1>1 DEF Reads, Fine, Fault
<1>3. dir' \in Directories /\ Kept' \subseteq Kept /\ Kept \subseteq Kept' \cup lost
  BY <1>1 DEF Without, Directories, Kept
<1> QED BY <1>2, <1>3 DEF Loses

\* A step in which nothing but the row, the runtime and the requests changes, as far as what
\* is kept and sent goes, but for what is lost.
Elsewhere ==
    /\ UNCHANGED <<hub, repo, reserved, sd>>
    /\ dir' \in Directories /\ Kept' \subseteq Kept
    /\ Kept \subseteq Kept' \cup adrift' /\ adrift \subseteq adrift'
    /\ faults \in Nat /\ faults' \in Nat /\ faults <= faults'

\* A state that agrees is one that agrees with what the next one keeps and sends.
LEMMA NowFit ==
    ASSUME NEW r, NEW t, NEW w, Fit(r, t, w), Elsewhere, row' = r, rt' = t, req' = w
    PROVE  Fit(row, rt, req)'
<1>1. adrift' = {} => adrift = {} /\ Kept' = Kept
  BY DEF Elsewhere
<1>2. Typed(row, rt, req)' /\ PlacesSound(rt, req)' /\ MotionSound(rt, req)'
  BY <1>1 DEF Fit, Typed, PlacesSound, MotionSound, Elsewhere
<1>3. StatusSound(row, rt, req)' /\ KeptSound(row, rt, req)'
  BY <1>1 DEF Fit, StatusSound, KeptSound, AtWork, Flying, Settles, Elsewhere
<1>4. CopiesSound(row, rt, req)'
  BY <1>1 DEF Fit, CopiesSound, ScanSound, MergeSound, AtWork, Elsewhere
<1>5. UploadedSound(row, rt, req)'
  BY <1>1 DEF Fit, UploadedSound, SaysUploaded, Elsewhere
<1>6. ListSound(row, rt, req)'
  BY <1>1 DEF Fit, ListSound, Remote, Over, Elsewhere
<1>7. TargetSound(row, rt, req)'
  BY DEF Fit, TargetSound, Elsewhere
<1> QED BY <1>2, <1>3, <1>4, <1>5, <1>6, <1>7 DEF Fit

\* The row may say something else.
LEMMA StatusFit ==
    ASSUME NEW r, NEW t, NEW w, Fit(r, t, w), NEW s \in Statuses,
           s \in Bad => t.teleop # "on" /\ ~AtWork(t, w),
           s = "uploaded" => SaysUploaded(r, t, w),
           adrift = {} /\ faults <= 1 /\ s = "uploading" =>
              /\ HasTarget(r)
              /\ \A p \in Operators : Reconciles(w[p]) => w[p].copy.status = "uploading",
           Over(r, t, w) => s = "uploaded"
    PROVE  Fit([r EXCEPT !.status = s], t, w)
<1> DEFINE n == [r EXCEPT !.status = s]
<1>1. /\ n \in Rows /\ n.status = s /\ n.eps = r.eps /\ n.count = r.count /\ n.upload = r.upload
      /\ HasTarget(n) = HasTarget(r)
  BY DEF Fit, Typed, Rows, HasTarget
<1> HIDE DEF n
<1>2. Typed(n, t, w) /\ KeptSound(n, t, w)
  BY <1>1 DEF Fit, Typed, KeptSound
<1>3. StatusSound(n, t, w)
  BY <1>1 DEF Fit, StatusSound
<1>4. CopiesSound(n, t, w)
  BY <1>1 DEF Fit, CopiesSound, ScanSound, MergeSound
<1>5. UploadedSound(n, t, w)
  BY <1>1 DEF Fit, UploadedSound, SaysUploaded
<1>6. ListSound(n, t, w)
  <2>1. Over(r, t, w) => Over(n, t, w)
    BY <1>1 DEF Over
  <2>2. Remote(r, w) => Remote(n, w)
    BY <1>1 DEF Remote
  <2> QED BY <1>1, <2>1, <2>2 DEF Fit, ListSound
<1>7. TargetSound(n, t, w)
  BY <1>1 DEF Fit, TargetSound, Bad
<1> QED BY <1>2, <1>3, <1>4, <1>5, <1>6, <1>7 DEF Fit, n

\* What arrives while others reconcile has the row as its copy, as after a reconciliation.
LEMMA ArrivesFit ==
    ASSUME FilesInv, sd = "up", NEW q \in Requests, req[q].at = "free", NEW kind \in Asks(q)
    PROVE  Fit(row, rt, [req EXCEPT ![q] = At("merge", kind, row, {})])
<1> DEFINE a == At("merge", kind, row, {})
           v == [req EXCEPT ![q] = a]
<1>0. Fit(row, rt, req) /\ row \in Rows
  BY DEF FilesInv, Fit, Typed
<1>1. /\ a.at = "merge" /\ a.kind = kind /\ a.copy = row /\ a.eps = {} /\ Sound(a)
      /\ kind \in Kinds /\ a \in Waiting /\ (q \in Pollers => kind = "state")
  <2>1. kind \in Kinds /\ (q \in Pollers => kind = "state")
    BY DEF Asks, Kinds
  <2> QED BY <1>0, <2>1, WaitingAt DEF At, Sound, Places
<1> HIDE DEF a
<1>2. /\ v[q] = a /\ \A p \in Requests : p # q => v[p] = req[p]
      /\ v \in [Requests -> Waiting] /\ \A p \in Requests : Sound(v[p])
  BY <1>0, <1>1 DEF Fit, Typed
<1> HIDE DEF v
<1>3. AtWork(rt, v) = AtWork(rt, req) /\ \A e : Flying(v, e) = Flying(req, e) /\ Settles(v, e) = Settles(req, e)
  BY <1>1, <1>2 DEF AtWork, Flies, Flying, Settles
<1>4. Typed(row, rt, v)
  BY <1>0, <1>2 DEF Fit, Typed
<1>5. PlacesSound(rt, v)
  <2>1. \A p \in Requests : Uploads(v[p]) = Uploads(req[p])
    BY <1>1, <1>2 DEF Uploads, Sends
  <2>2. \A p \in Requests : Sends(v[p]) => v[p] = req[p] /\ Sends(req[p])
    BY <1>1, <1>2 DEF Sends
  <2> QED BY <1>0, <1>1, <1>2, <2>1, <2>2, RecordingBounds DEF Fit, PlacesSound
<1>6. MotionSound(rt, v)
  BY <1>0, <1>1, <1>2 DEF Fit, MotionSound, Flies
<1>7. StatusSound(row, rt, v)
  BY <1>0, <1>1, <1>2, <1>3 DEF Fit, StatusSound, Reconciles, Operators
<1>8. KeptSound(row, rt, v)
  BY <1>0, <1>1, <1>2, <1>3 DEF Fit, KeptSound
<1>9. CopiesSound(row, rt, v)
  <2>1. \A p \in Requests : v[p].at = "scan" => ScanSound(row, rt, v, v[p])
    BY <1>0, <1>1, <1>2 DEF Fit, CopiesSound, ScanSound, Flies
  <2>2. \A p \in Requests : v[p].at = "merge" => MergeSound(row, rt, v, v[p])
    BY <1>0, <1>1, <1>2, <1>3 DEF Fit, CopiesSound, MergeSound
  <2>3. adrift = {} => row.count = Cardinality(row.eps)
    BY <1>0 DEF Fit, ListSound
  <2> QED BY <1>0, <1>1, <1>2, <2>1, <2>2, <2>3 DEF Fit, CopiesSound, Flies, Reconciles, Sends, Operators
<1>10. UploadedSound(row, rt, v)
  BY <1>0, <1>1, <1>2 DEF Fit, UploadedSound, SaysUploaded, Reconciles
<1>11. ListSound(row, rt, v)
  <2>1. Remote(row, req) => Remote(row, v)
    BY <1>1, <1>2 DEF Remote, Reconciles, Sends
  <2>2. Over(row, rt, req) => Over(row, rt, v)
    BY <1>1, <1>2 DEF Over, Reconciles
  <2> QED BY <1>0, <1>1, <1>2, <2>1, <2>2 DEF Fit, ListSound, Uploads, Sends
<1>12. TargetSound(row, rt, v)
  <2>1. \A p \in Requests : p # q /\ Reconciles(v[p]) => Reconciles(req[p]) /\ v[p] = req[p]
    BY <1>2 DEF Reconciles
  <2>2. \A p \in Requests : v[p].at \in {"convert", "look", "collided"} => v[p] = req[p]
    BY <1>1, <1>2
  <2>3. Operators \subseteq Requests
    BY DEF Operators
  <2>4. TargetSound(row, rt, req)
    BY <1>0 DEF Fit
  <2> QED BY <1>1, <1>2, <2>1, <2>2, <2>3, <2>4, RecordingBounds DEF TargetSound
<1> QED BY <1>4, <1>5, <1>6, <1>7, <1>8, <1>9, <1>10, <1>11, <1>12 DEF Fit, v, a

-----------------------------------------------------------------------------
(* Turns that find an interrupted upload *)

\* What a request in the midst of its turn works from: its copy is as good as the row's.
Turn(w, q, kind, c) == w[q] = At("merge", kind, c, {})
Among(w, q, c, r) == c = r \/ \A p \in Requests : Reconciles(w[p]) => p = q

\* The row when an upload turns out to have been interrupted.
LEMMA InterruptedRow ==
    ASSUME NEW r \in Rows, NEW c \in Rows, c.status = "uploading"
    PROVE  LET i == Interrupted(c)
               n == Stored(r, c, i)
           IN /\ i \in Rows /\ n \in Rows
              /\ i.status = "failed" /\ i.eps = c.eps /\ i.count = c.count
              /\ HasTarget(i) = HasTarget(c)
              /\ n.status = "failed" /\ n.count = r.count
              /\ n.eps \in {r.eps, c.eps}
              /\ HasTarget(n) = HasTarget(r) \/ HasTarget(n) = HasTarget(c)
              /\ r.eps = c.eps => n.eps = r.eps
              /\ c = r => HasTarget(n) = HasTarget(r)
<1> DEFINE i == Interrupted(c)
           n == Stored(r, c, i)
<1>1. /\ i \in Rows /\ n \in Rows
  BY RowsChanged, RowsStored
<1>2. i.status = "failed" /\ i.eps = c.eps /\ i.count = c.count /\ i.upload = Broken(c.upload)
  BY DEF Interrupted, Rows
<1>3. n.status = "failed" /\ n.count = r.count /\ n.eps \in {r.eps, c.eps}
  BY <1>2 DEF Stored, Meta
<1>4. (n.upload = r.upload /\ i.upload = c.upload) \/ n.upload = i.upload
  BY <1>2 DEF Stored, Meta
<1>5. HasTarget(i) = HasTarget(c)
  BY <1>2 DEF HasTarget, Broken
<1>6. HasTarget(n) = HasTarget(r) \/ HasTarget(n) = HasTarget(c)
  BY <1>4, <1>5 DEF HasTarget
<1>7. c = r => HasTarget(n) = HasTarget(r)
  BY <1>4, <1>5 DEF HasTarget
<1> QED BY <1>1, <1>2, <1>3, <1>5, <1>6, <1>7

\* Marking an interrupted upload as failed keeps them in agreement.
LEMMA InterruptedFit ==
    ASSUME NEW r, NEW t, NEW w, Fit(r, t, w), NEW q, NEW kind, NEW c, q \in Requests, kind \in Kinds,
           Turn(w, q, kind, c), Stale(c), Among(w, q, c, r)
    PROVE  Fit(Stored(r, c, Interrupted(c)), t,
               [w EXCEPT ![q] = At("merge", kind, Interrupted(c), {})])
<1> DEFINE i == Interrupted(c)
           n == Stored(r, c, i)
           a == At("merge", kind, i, {})
           v == [w EXCEPT ![q] = a]
<1>1. /\ w[q].at = "merge" /\ w[q].copy = c /\ w[q].eps = {} /\ w[q].kind = kind
      /\ r \in Rows /\ c \in Rows /\ c.status = "uploading" /\ ~reserved
  BY DEF Turn, At, Fit, Typed, Waiting, Stale
<1>2. /\ i \in Rows /\ n \in Rows
      /\ i.status = "failed" /\ i.eps = c.eps /\ i.count = c.count
      /\ HasTarget(i) = HasTarget(c)
      /\ n.status = "failed" /\ n.count = r.count
      /\ n.eps \in {r.eps, c.eps}
      /\ HasTarget(n) = HasTarget(r) \/ HasTarget(n) = HasTarget(c)
      /\ r.eps = c.eps => n.eps = r.eps
      /\ c = r => HasTarget(n) = HasTarget(r)
  BY <1>1, InterruptedRow
<1> HIDE DEF i, n
<1>3. a.at = "merge" /\ a.kind = kind /\ a.copy = i /\ a.eps = {} /\ a \in Waiting /\ Sound(a)
  BY <1>2, WaitingAt DEF At, Sound, Places
<1> HIDE DEF a
<1>4. /\ v[q] = a /\ \A p \in Requests : p # q => v[p] = w[p]
      /\ v \in [Requests -> Waiting] /\ \A p \in Requests : Sound(v[p])
  BY <1>3 DEF Fit, Typed
<1> HIDE DEF v
<1>5. AtWork(t, v) = AtWork(t, w) /\ \A e : Flying(v, e) = Flying(w, e) /\ Settles(v, e) = Settles(w, e)
  BY <1>1, <1>3, <1>4 DEF AtWork, Flies, Flying, Settles
<1>6. /\ \A p \in Requests : Uploads(v[p]) = Uploads(w[p]) /\ ~Uploads(w[p])
      /\ \A p \in Requests : Flies(v[p]) = Flies(w[p]) /\ (Flies(w[p]) => v[p] = w[p])
      /\ \A p \in Requests : Reconciles(v[p]) = Reconciles(w[p])
      /\ \A p \in Requests : Sends(v[p]) = Sends(w[p]) /\ ~Sends(w[p])
      /\ ~AtWork(t, w)
  BY <1>1, <1>3, <1>4 DEF Uploads, Sends, Flies, Reconciles, Fit, PlacesSound, StatusSound, Bad
<1>7. /\ c.eps \subseteq r.eps \cup adrift /\ r.eps \subseteq c.eps
      /\ \A p \in Requests : p # q /\ Reconciles(w[p]) => n.eps = r.eps /\ HasTarget(n) = HasTarget(r)
  <2>1. MergeSound(r, t, w, w[q])
    BY <1>1 DEF Fit, CopiesSound
  <2>2. c.eps \subseteq r.eps \cup adrift /\ r.eps \subseteq c.eps
    BY <1>1, <2>1 DEF MergeSound, Bad
  <2> QED BY <1>1, <1>2, <2>2 DEF Among
<1>8. Typed(n, t, v)
  BY <1>2, <1>4 DEF Fit, Typed
<1>9. PlacesSound(t, v)
  BY <1>1, <1>3, <1>4, <1>6, RecordingBounds DEF Fit, PlacesSound
<1>10. MotionSound(t, v)
  BY <1>1, <1>3, <1>4, <1>5, <1>6 DEF Fit, MotionSound
<1>11. StatusSound(n, t, v)
  BY <1>1, <1>2, <1>3, <1>4, <1>5, <1>6 DEF Fit, StatusSound, Bad
<1>12. KeptSound(n, t, v)
  BY <1>1, <1>2, <1>3, <1>4, <1>5, <1>6, <1>7 DEF Fit, KeptSound
<1>13. CopiesSound(n, t, v)
  <2>1. \A p \in Requests : v[p].at = "scan" => ScanSound(n, t, v, v[p])
    <3>1. SUFFICES ASSUME NEW p \in Requests, v[p].at = "scan" PROVE ScanSound(n, t, v, v[p])
      OBVIOUS
    <3>2. p # q /\ v[p] = w[p] /\ n.eps = r.eps
      BY <1>3, <1>4, <1>7, <3>1 DEF Reconciles
    <3> QED BY <1>4, <1>6, <3>1, <3>2 DEF Fit, CopiesSound, ScanSound
  <2>2. \A p \in Requests : v[p].at = "merge" => MergeSound(n, t, v, v[p])
    <3>1. SUFFICES ASSUME NEW p \in Requests, v[p].at = "merge" PROVE MergeSound(n, t, v, v[p])
      OBVIOUS
    <3>2. CASE p = q
      BY <1>2, <1>3, <1>4, <1>7, <3>2 DEF MergeSound, Bad
    <3>3. CASE p # q
      BY <1>4, <1>5, <1>7, <3>1, <3>3 DEF Fit, CopiesSound, MergeSound, Reconciles
    <3> QED BY <3>2, <3>3
  <2>3. \A p \in Operators : Reconciles(v[p]) =>
           /\ n.eps = v[p].copy.eps /\ n.count = v[p].copy.count
           /\ HasTarget(n) = HasTarget(v[p].copy)
    BY <1>1, <1>2, <1>3, <1>4, <1>6, <1>7 DEF Fit, CopiesSound, Operators
  <2>4. \A p \in Operators : v[p].at = "scan" /\ t.teleop = "on" =>
           v[p].eps = {t.episode, t.final} \ {None}
    BY <1>3, <1>4 DEF Fit, CopiesSound, Operators
  <2>5. \A p \in Requests : ~Flies(v[p]) /\ ~Sends(v[p])
    BY <1>6 DEF AtWork
  <2>6. adrift = {} => \A p \in Requests : Reconciles(v[p]) \/ Flies(v[p]) =>
           v[p].copy.count = Cardinality(v[p].copy.eps)
    BY <1>1, <1>2, <1>3, <1>4, <1>6 DEF Fit, CopiesSound
  <2> QED BY <2>1, <2>2, <2>3, <2>4, <2>5, <2>6 DEF CopiesSound
<1>14. UploadedSound(n, t, v)
  <2>1. SaysUploaded(n, t, v) => SaysUploaded(r, t, w)
    BY <1>1, <1>2, <1>3, <1>4, <1>6 DEF SaysUploaded
  <2> QED BY <1>2, <1>7, <2>1 DEF Fit, UploadedSound
<1>15. ListSound(n, t, v)
  <2>1. Remote(r, w) => Remote(n, v)
    BY <1>1, <1>2, <1>3, <1>4, <1>6 DEF Remote, Reconciles
  <2>2. ~Over(r, t, w)
    BY <1>1 DEF Over, Reconciles
  <2>3. adrift = {} => n.eps = r.eps
    BY <1>2, <1>7
  <2> QED BY <1>1, <1>2, <1>3, <1>4, <1>6, <2>1, <2>2, <2>3 DEF Fit, ListSound, AtWork
<1>16. TargetSound(n, t, v)
  <2>1. TargetSound(r, t, w)
    BY DEF Fit
  <2>2. adrift = {} /\ faults <= 1 => HasTarget(c)
    BY <1>1, <2>1 DEF TargetSound, Reconciles
  <2>3. \A p \in Requests : v[p] = w[p] \/ (p = q /\ v[p].copy = i)
    BY <1>3, <1>4
  <2>4. \A p \in Requests : w[p].at \notin {"convert", "look", "collided"} /\ v[p].at \notin {"convert", "look", "collided"}
    BY <1>6 DEF Sends
  <2> QED BY <1>1, <1>2, <1>3, <1>4, <1>6, <2>1, <2>2, <2>3, <2>4, RecordingBounds DEF TargetSound, Operators
<1> QED BY <1>8, <1>9, <1>10, <1>11, <1>12, <1>13, <1>14, <1>15, <1>16 DEF Fit, v, a, n, i

-----------------------------------------------------------------------------
(* Requests that wait, and failed commits *)

\* A request that waits for the arms or the row to come to rest is to the rest as one that
\* is gone, but that it will not be over with it.
Calm == {"free", "stopping", "failRow"}

\* A waiting request of the operator may wait for something else, or go.
LEMMA CalmFit ==
    ASSUME NEW r, NEW t, NEW w, Fit(r, t, w), NEW q \in Operators, w[q].at \in Calm,
           NEW x \in Waiting, Sound(x), x.at \in Calm, Over(r, t, w) => x.at = "free"
    PROVE  Fit(r, t, [w EXCEPT ![q] = x])
<1> DEFINE v == [w EXCEPT ![q] = x]
<1>1. /\ v[q] = x /\ q \in Requests /\ q \notin Pollers
      /\ \A p \in Requests : p # q => v[p] = w[p]
      /\ v \in [Requests -> Waiting] /\ \A p \in Requests : Sound(v[p])
  BY DEF Fit, Typed, Operators
<1> HIDE DEF v
<1>2. \A p \in Requests : v[p] = w[p] \/ (p = q /\ v[p].at \in Calm /\ w[p].at \in Calm)
  BY <1>1
<1>3. /\ \A p \in Requests : Uploads(v[p]) = Uploads(w[p])
      /\ \A p \in Requests : Flies(v[p]) = Flies(w[p]) /\ (Flies(w[p]) => v[p] = w[p])
      /\ \A p \in Requests : Reconciles(v[p]) = Reconciles(w[p]) /\ (Reconciles(w[p]) => v[p] = w[p])
      /\ \A p \in Requests : Sends(v[p]) = Sends(w[p]) /\ (Sends(w[p]) => v[p] = w[p])
      /\ \A p \in Requests : v[p].at \in {"scan", "merge", "settled", "confirm", "closing", "naming", "create",
             "convert", "look", "collided", "send", "sent", "cleaning"} \/ w[p].at \in {"scan", "merge",
             "settled", "confirm", "closing", "naming", "create", "convert", "look", "collided", "send", "sent", "cleaning"}
             => v[p] = w[p]
  BY <1>2 DEF Uploads, Flies, Reconciles, Sends, Calm
<1>4. AtWork(t, v) = AtWork(t, w) /\ \A e : Flying(v, e) = Flying(w, e) /\ Settles(v, e) = Settles(w, e)
  BY <1>3 DEF AtWork, Flying, Settles
<1>5. Operators \subseteq Requests
  BY DEF Operators
<1>6. Typed(r, t, v)
  BY <1>1 DEF Fit, Typed
<1>7. PlacesSound(t, v)
  BY <1>1, <1>3, RecordingBounds DEF Fit, PlacesSound
<1>8. MotionSound(t, v)
  <2>1. MotionSound(t, w)
    BY DEF Fit
  <2>2. t.final # None => \E p \in Requests : \/ Flies(v[p]) /\ v[p].eps = {t.final}
                                              \/ v[p].at = "confirm"
    BY <1>3, <2>1 DEF MotionSound
  <2>3. \A p \in Requests : Flies(v[p]) =>
           t.episode = None /\ (sd # "down" => t.final \in v[p].eps /\ t.task)
    BY <1>3, <2>1 DEF MotionSound
  <2> QED BY <2>2, <2>3 DEF MotionSound
<1>9. StatusSound(r, t, v)
  BY <1>3, <1>4, <1>5 DEF Fit, StatusSound
<1>10. KeptSound(r, t, v)
  BY <1>3, <1>4 DEF Fit, KeptSound
<1>11. CopiesSound(r, t, v)
  <2>1. \A p \in Requests : v[p].at = "scan" => ScanSound(r, t, v, v[p])
    BY <1>3 DEF Fit, CopiesSound, ScanSound
  <2>2. \A p \in Requests : v[p].at = "merge" => MergeSound(r, t, v, v[p])
    BY <1>3, <1>4 DEF Fit, CopiesSound, MergeSound
  <2> QED BY <1>3, <1>5, <2>1, <2>2 DEF Fit, CopiesSound
<1>12. UploadedSound(r, t, v)
  <2>1. SaysUploaded(r, t, v) => SaysUploaded(r, t, w)
    BY <1>3 DEF SaysUploaded
  <2> QED BY <2>1 DEF Fit, UploadedSound
<1>13. ListSound(r, t, v)
  <2>1. Remote(r, w) => Remote(r, v)
    BY <1>3 DEF Remote
  <2>2. Over(r, t, w) => Over(r, t, v)
    BY <1>1, <1>3 DEF Over, Reconciles, Calm
  <2> QED BY <1>3, <2>1, <2>2 DEF Fit, ListSound
<1>14. TargetSound(r, t, v)
  BY <1>3, <1>5, RecordingBounds DEF Fit, TargetSound
<1> QED BY <1>6, <1>7, <1>8, <1>9, <1>10, <1>11, <1>12, <1>13, <1>14 DEF Fit, v

\* Every episode the row lists is in staging, or its list is in a dataset.
Listable(r, w) == r.eps \subseteq Kept \/ Remote(r, w)

\* After a failed commit the motion is over, whatever was going on.
BroughtDown(t, u) ==
    /\ u \in Runtimes /\ u.episode = None /\ u.final = None /\ u.status = "failed"
    /\ u.teleop # "on" /\ u.teleop \in {t.teleop, "closing", "off"}

\* A runtime brought down after a failed commit agrees with what it leaves.
LEMMA BroughtDownFit ==
    ASSUME NEW r, NEW t, NEW w, NEW u, Fit(r, t, w), Elsewhere, BroughtDown(t, u),
           faults' # 0 \/ (sd # "up" /\ ~reserved /\ \A q \in Operators : ~Reconciles(w[q])),
           row' = r, rt' = u, req' = w,
           \A q \in Requests : ~Flies(w[q]),
           adrift = {} => ~Over(r, t, w) \/ Listable(r, w)
    PROVE  Fit(row, rt, req)' /\ QuietSound(rt)'
<1>1. /\ u \in Runtimes /\ u.episode = None /\ u.final = None /\ u.status = "failed"
      /\ u.teleop # "on" /\ u.teleop \in {t.teleop, "closing", "off"}
  BY DEF BroughtDown
<1>2. /\ Kept' \subseteq Kept /\ (adrift' = {} => adrift = {} /\ Kept' = Kept)
      /\ r.eps \subseteq Episodes /\ None \notin Episodes
  BY EpisodesAreNumbers DEF Elsewhere, Fit, Typed, Rows
<1>3. ~AtWork(rt, req)'
  BY <1>1 DEF AtWork
<1>4. Typed(row, rt, req)' /\ MotionSound(rt, req)'
  BY <1>1 DEF Fit, Typed, MotionSound, Elsewhere
<1>5. PlacesSound(rt, req)'
  BY <1>1 DEF Fit, PlacesSound, Elsewhere
<1>6. StatusSound(row, rt, req)'
  BY <1>1, <1>3 DEF Fit, StatusSound, Bad
<1>61. KeptSound(row, rt, req)'
  BY <1>1, <1>2, <1>3 DEF Fit, KeptSound, Settles, Elsewhere
<1>7. CopiesSound(row, rt, req)'
  <2>1. \A q \in Requests : req'[q].at = "scan" => ScanSound(row, rt, req, req[q])'
    BY <1>1, <1>2 DEF Fit, CopiesSound, ScanSound, Elsewhere
  <2>2. \A q \in Requests : req'[q].at = "merge" => MergeSound(row, rt, req, req[q])'
    BY <1>1, <1>2, <1>3 DEF Fit, CopiesSound, MergeSound, Elsewhere
  <2> QED BY <1>1, <2>1, <2>2 DEF Fit, CopiesSound, Elsewhere
<1>8. UploadedSound(row, rt, req)'
  BY <1>1, <1>2 DEF Fit, UploadedSound, SaysUploaded, Elsewhere
<1>9. ListSound(row, rt, req)'
  BY <1>1, <1>2 DEF Fit, ListSound, Listable, Remote, Elsewhere
<1>10. TargetSound(row, rt, req)' /\ QuietSound(rt)'
  BY <1>1 DEF Fit, TargetSound, QuietSound, Elsewhere
<1> QED BY <1>4, <1>5, <1>6, <1>61, <1>7, <1>8, <1>9, <1>10 DEF Fit

\* So does the one _compensate_runtime_failure leaves, which is a case of it.
LEMMA CompensatedFit ==
    ASSUME NEW r, NEW t, NEW w, Fit(r, t, w), Elsewhere,
           faults' # 0 \/ (sd # "up" /\ ~reserved /\ \A q \in Operators : ~Reconciles(w[q])),
           row' = r, rt' = Compensated(t), req' = w,
           \A q \in Requests : ~Flies(w[q]),
           adrift = {} => ~Over(r, t, w) \/ Listable(r, w)
    PROVE  Fit(row, rt, req)' /\ QuietSound(rt)'
<1>1. t \in Runtimes /\ Compensated(t) \in Runtimes
  BY RuntimeCompensated DEF Fit, Typed
<1>2. BroughtDown(t, Compensated(t))
  BY <1>1 DEF BroughtDown, Compensated, Runtimes
<1> QED BY <1>2, BroughtDownFit

-----------------------------------------------------------------------------
(* Turns: looking and showing the state *)

\* The turn of a request, as its handler finds it: the row, the runtime and the requests as
\* they are when its reconciliation is behind it.
Turned(r, t, w, q, kind, c) ==
    /\ Fit(r, t, w) /\ Turn(w, q, kind, c)
    /\ \A x : [w EXCEPT ![q] = x] = [req EXCEPT ![q] = x]

\* A handler that touches neither files nor Hub changes nothing elsewhere.
LEMMA StillElsewhere ==
    ASSUME faults \in Nat, dir \in Directories, UNCHANGED <<disk, remote, process>>,
           Fine \/ Fault
    PROVE  Elsewhere
BY DEF Elsewhere, Kept, disk, remote, process, Fine, Fault

\* A turn that ends with nothing done keeps the agreement.
LEMMA EndsFit ==
    ASSUME NEW r, NEW t, NEW w, NEW q, NEW kind, NEW c, q \in Requests, kind \in Kinds,
           Turned(r, t, w, q, kind, c), Elsewhere, row' = r, rt' = t, Ends(q)
    PROVE  Fit(row, rt, req)'
<1>1. req' = [w EXCEPT ![q] = Unused]
  BY DEF Ends, Turned
<1>2. Fit(r, t, [w EXCEPT ![q] = Unused])
  BY LeavesFit DEF Turned, Turn, At
<1> QED BY <1>1, <1>2, NowFit

\* Within a turn, ensuring the session leaves the work and the turn as they are.
LEMMA EnsuredTurn ==
    ASSUME NEW r, NEW t, NEW w, NEW q, NEW kind, NEW c, q \in Requests, kind \in Kinds,
           Turned(r, t, w, q, kind, c)
    PROVE  /\ Turned(r, Ensured(t, c), w, q, kind, c)
           /\ SameWork(t, Ensured(t, c))
           /\ AtWork(Ensured(t, c), w) = AtWork(t, w)
           /\ q \in Operators \/ ~Stale(c) => QuietSound(Ensured(t, c))
<1> DEFINE u == Ensured(t, c)
<1>1. /\ Fit(r, t, w) /\ w[q].at = "merge" /\ w[q].copy = c
      /\ Reconciles(w[q]) /\ c \in Rows /\ t \in Runtimes
  BY DEF Turned, Turn, At, Fit, Typed, Waiting, Reconciles
<1>2. Turned(r, u, w, q, kind, c)
  BY <1>1, EnsuredFit DEF Turned
<1>3. SameWork(t, u)
  BY <1>1, EnsuredSays
<1>4. AtWork(u, w) = AtWork(t, w)
  BY <1>3 DEF SameWork, AtWork
<1>5. ASSUME q \in Operators \/ ~Stale(c), adrift = {}, faults = 0, u.teleop = "closing",
             u.status = "uploading"
      PROVE  FALSE
  <2>1. t.teleop = "closing" /\ t.episode = u.episode /\ t.final = u.final /\ t.err = u.err
    BY <1>3, <1>5 DEF SameWork
  <2>2. TargetSound(r, u, w) /\ TargetSound(r, t, w) /\ StatusSound(r, u, w)
    BY <1>1, <1>2 DEF Turned, Fit
  <2>3. u.err = "none" /\ ~AtWork(u, w)
    BY <1>5, <2>2 DEF TargetSound, StatusSound, Bad
  <2>4. u.episode = None /\ u.final = None
    BY <2>3 DEF AtWork
  <2>5. c.status = "uploading"
    BY <1>1, <1>5, <2>1, <2>3, <2>4, EnsuredSays
  <2>6. q \in Pollers /\ reserved
    BY <1>1, <1>5, <2>1, <2>2, <2>5 DEF TargetSound, Stale, Operators
  <2> QED BY <1>1, <1>5, <2>1, <2>2, <2>6 DEF TargetSound
<1>6. q \in Operators \/ ~Stale(c) => QuietSound(u)
  BY <1>5 DEF QuietSound
<1> QED BY <1>2, <1>3, <1>4, <1>6

\* A runtime that says no upload while it closes does so after the step.
LEMMA QuietStays ==
    ASSUME NEW t, QuietSound(t), Elsewhere, rt' = t
    PROVE  QuietSound(rt)'
BY DEF QuietSound, Elsewhere

\* A handler that refuses after it has looked at the runtime.
LEMMA RefusesFit ==
    ASSUME NEW r, NEW t, NEW w, NEW q, NEW kind, NEW c, q \in Requests, kind \in Kinds,
           Turned(r, t, w, q, kind, c), q \in Operators, faults \in Nat, UNCHANGED process,
           Refuse(q, r, Ensured(t, c))
    PROVE  Fit(row, rt, req)' /\ QuietSound(rt)'
<1> DEFINE u == Ensured(t, c)
<1>1. Turned(r, u, w, q, kind, c) /\ QuietSound(u)
  BY EnsuredTurn
<1>2. Elsewhere /\ row' = r /\ rt' = u /\ Ends(q)
  BY StillElsewhere DEF Refuse, Turned, Fit, Typed
<1> QED BY <1>1, <1>2, EndsFit, QuietStays

\* session_snapshot: looking at the session keeps the agreement.
LEMMA LookUpFit ==
    ASSUME NEW r, NEW t, NEW w, NEW q, NEW kind, NEW c, q \in Requests, kind \in Kinds,
           Turned(r, t, w, q, kind, c), QuietSound(t), faults \in Nat, UNCHANGED process,
           LookUp(q, c, r, t)
    PROVE  Fit(row, rt, req)' /\ QuietSound(rt)'
<1>1. Elsewhere /\ row' = r /\ rt' = t /\ Ends(q)
  BY StillElsewhere DEF Refuse, LookUp, Turned, Fit, Typed
<1> QED BY <1>1, EndsFit, QuietStays

\* What is written when only the status is.
LEMMA StatusStored ==
    ASSUME NEW r \in Rows, NEW c \in Rows, NEW s \in Statuses
    PROVE  Stored(r, c, With(c, s)) = [r EXCEPT !.status = IF s = c.status THEN r.status ELSE s]
BY DEF Stored, With, Meta, Rows

\* recording_state, as a page polls it, keeps the agreement.
LEMMA ShowStateFit ==
    ASSUME NEW r, NEW t, NEW w, NEW q, NEW kind, NEW c, q \in Requests, kind \in Kinds,
           Turned(r, t, w, q, kind, c), ~Stale(c), faults \in Nat, UNCHANGED process,
           ShowState(q, c, r, t)
    PROVE  Fit(row, rt, req)' /\ QuietSound(rt)'
<1> DEFINE u == Ensured(t, c)
           s == u.status
<1>1. /\ w[q].at = "merge" /\ w[q].copy = c /\ Reconciles(w[q]) /\ r \in Rows
      /\ c \in Rows /\ t \in Runtimes /\ dir \in Directories
  BY DEF Turned, Turn, At, Fit, Typed, Waiting, Reconciles
<1>2. /\ Turned(r, u, w, q, kind, c) /\ QuietSound(u) /\ SameWork(t, u) /\ Fit(r, u, w)
  BY EnsuredTurn DEF Turned
<1>3. Elsewhere /\ rt' = u /\ Ends(q)
  BY <1>1, StillElsewhere DEF ShowState, Commits, CommitFails
<1>4. s \in Statuses /\ u \in Runtimes
  BY <1>2 DEF SameWork, Runtimes
<1>5. row' = r \/ (s # c.status /\ row' = [r EXCEPT !.status = s])
  <2>1. [r EXCEPT !.status = r.status] = r
    BY <1>1 DEF Rows
  <2> QED BY <1>1, <1>4, <2>1, StatusStored DEF ShowState, Commits, CommitFails
<1>6. CASE row' = r
  BY <1>2, <1>3, <1>6, EndsFit, QuietStays
<1>7. CASE s # c.status /\ row' = [r EXCEPT !.status = s]
  <2>1. s \in Bad => u.teleop # "on" /\ ~AtWork(u, w)
    BY <1>2 DEF Fit, StatusSound
  <2>2. s = "uploaded" => SaysUploaded(r, u, w)
    BY DEF SaysUploaded
  <2>3. adrift = {} /\ faults <= 1 => s # "uploading"
    <3>1. SUFFICES ASSUME adrift = {}, faults <= 1, s = "uploading" PROVE FALSE
      OBVIOUS
    <3>2. u.err = "none" /\ u.teleop # "on" /\ u.episode = None /\ u.final = None
      BY <1>2, <2>1, <3>1 DEF Fit, TargetSound, Bad, AtWork
    <3>3. t.err = "none" /\ t.teleop # "on" /\ t.episode = None /\ t.final = None
      BY <1>2, <3>2 DEF SameWork
    <3> QED BY <1>1, <1>7, <3>1, <3>3, EnsuredSays
  <2>4. Over(r, u, w) => s = "uploaded"
    <3>1. SUFFICES ASSUME Over(r, u, w) PROVE s = "uploaded"
      OBVIOUS
    <3>2. /\ u.err = "none" /\ u.teleop = "off" /\ u.episode = None /\ u.final = None
          /\ c.status = "uploaded"
      BY <1>1, <3>1 DEF Over
    <3>3. t.err = "none" /\ t.teleop = "off" /\ t.episode = None /\ t.final = None
      BY <1>2, <3>2 DEF SameWork
    <3> QED BY <1>1, <3>2, <3>3, EnsuredSays DEF Bad
  <2> DEFINE n == [r EXCEPT !.status = s]
  <2>5. Fit(n, u, w)
    BY <1>2, <1>4, <2>1, <2>2, <2>3, <2>4, StatusFit
  <2>6. Turned(n, u, w, q, kind, c)
    BY <1>2, <2>5 DEF Turned
  <2> QED BY <1>2, <1>3, <1>7, <2>6, EndsFit, QuietStays
<1> QED BY <1>5, <1>6, <1>7

-----------------------------------------------------------------------------
(* Turns of the operator: starting teleoperation *)

\* While one of the operator's requests has its turn, the others poll.
Alone(w, q) ==
    /\ \A p \in Requests : /\ ~Flies(w[p]) /\ ~Sends(w[p]) /\ ~Uploads(w[p])
                           /\ w[p].at \notin {"settled", "confirm", "closing", "naming", "create",
                                  "convert", "look", "collided", "send", "sent", "cleaning"}
    /\ \A p \in Requests : p # q => p \in Pollers /\ w[p].at \in {"free", "scan", "merge"}
    /\ \A p \in Operators : p = q

\* When the operator's request has its turn, no finalization or upload is under way.
LEMMA TurnAlone ==
    ASSUME OneOperator, NEW r, NEW t, NEW w, NEW q, NEW kind, NEW c, q \in Operators, kind \in Kinds,
           Turned(r, t, w, q, kind, c)
    PROVE  /\ Alone(w, q) /\ Alone([w EXCEPT ![q] = Unused], q)
           /\ \A p \in Operators : ~Reconciles([w EXCEPT ![q] = Unused][p])
           /\ ~reserved
<1> DEFINE v == [w EXCEPT ![q] = Unused]
<1>1. /\ Fit(r, t, w) /\ w[q].at = "merge" /\ w \in [Requests -> Waiting] /\ q \in Requests
      /\ PlacesSound(t, w)
  BY DEF Turned, Turn, At, Fit, Typed, Operators
<1>2. v[q].at = "free" /\ \A p \in Requests : p # q => v[p] = w[p]
  BY <1>1, NothingAsked
<1> HIDE DEF v
<1>3. \A p \in Requests : p # q => p \in Pollers /\ w[p].at \in {"free", "scan", "merge"}
  BY <1>1, OthersPoll
<1>4. Alone(w, q)
  BY <1>1, <1>3 DEF Alone, Flies, Sends, Uploads, OneOperator
<1>5. Alone(v, q)
  BY <1>1, <1>2, <1>3 DEF Alone, Flies, Sends, Uploads, OneOperator
<1>6. \A p \in Operators : ~Reconciles(v[p])
  BY <1>2 DEF OneOperator, Reconciles
<1>7. ~reserved
  BY <1>1, <1>4 DEF Alone, PlacesSound
<1> QED BY <1>4, <1>5, <1>6, <1>7 DEF v

\* A recording that may be recorded is not over, and what it lists is in staging.
LEMMA MutableTurn ==
    ASSUME OneOperator, NEW r, NEW t, NEW w, NEW q, NEW kind, NEW c, q \in Operators, kind \in Kinds,
           Turned(r, t, w, q, kind, c), Mutable(c),
           NEW s, NEW n, s \in {"teleop", "recording"}, n = r \/ n = Stored(r, c, With(c, s))
    PROVE  /\ Turned(n, t, w, q, kind, c)
           /\ n \in Rows /\ n.eps = r.eps /\ r.eps = c.eps
           /\ ~HasTarget(n) /\ ~HasTarget(r)
           /\ ~Over(n, t, w)
           /\ adrift = {} => n.eps \subseteq Kept
           /\ adrift = {} /\ faults <= 1 => n.status # "uploading"
           /\ t.teleop = "on" => n.status \notin Bad
<1>1. /\ Fit(r, t, w) /\ w[q].at = "merge" /\ w[q].copy = c /\ r \in Rows /\ c \in Rows
      /\ Reconciles(w[q]) /\ q \in Requests
  BY DEF Turned, Turn, At, Fit, Typed, Waiting, Reconciles, Operators
<1>2. c.status \notin Bad /\ ~HasTarget(c)
  BY DEF Mutable, Bad
<1>3. /\ r.eps = c.eps /\ HasTarget(r) = HasTarget(c)
  BY <1>1 DEF Fit, CopiesSound
<1>4. ~Over(r, t, w)
  BY <1>1, <1>2 DEF Over, Bad, Reconciles
<1>5. adrift = {} => r.eps \subseteq Kept
  <2>1. ~Remote(r, w)
    BY <1>1, <1>2 DEF Remote
  <2> QED BY <1>1, <1>4, <2>1 DEF Fit, ListSound
<1>6. /\ adrift = {} /\ faults <= 1 => r.status # "uploading"
      /\ t.teleop = "on" => r.status \notin Bad
  <2>1. adrift = {} /\ faults <= 1 => r.status # "uploading"
    BY <1>1, <1>2 DEF Fit, TargetSound, Bad
  <2>2. t.teleop = "on" => r.status \notin Bad
    BY <1>1, <1>2 DEF Fit, StatusSound
  <2> QED BY <2>1, <2>2
<1>7. CASE n = r
  BY <1>1, <1>2, <1>3, <1>4, <1>5, <1>6, <1>7
<1>8. CASE n # r
  <2>0. s \in Statuses /\ s \notin Bad /\ s # "uploading" /\ s # "uploaded" /\ [r EXCEPT !.status = r.status] = r
    BY <1>1 DEF Statuses, Bad, Rows
  <2>1. n = [r EXCEPT !.status = s]
    BY <1>1, <1>8, <2>0, StatusStored
  <2>2. /\ n \in Rows /\ n.status = s /\ n.eps = r.eps /\ HasTarget(n) = HasTarget(r)
    BY <1>1, <2>0, <2>1 DEF Rows, HasTarget
  <2>3. Fit(n, t, w)
    BY <1>1, <1>4, <2>0, <2>1, StatusFit
  <2>4. ~Over(n, t, w)
    BY <2>0, <2>2 DEF Over
  <2>5. Turned(n, t, w, q, kind, c)
    BY <2>3 DEF Turned
  <2> QED BY <1>2, <1>3, <1>5, <2>0, <2>2, <2>4, <2>5
<1> QED BY <1>7, <1>8

\* Teleoperation starts, and the request that started it is gone.
LEMMA TeleopOnFit ==
    ASSUME NEW r, NEW t, NEW w, Fit(r, t, w), NEW q, Alone(w, q),
           t.teleop = "off", t.final = None, sd = "up",
           \A p \in Operators : ~Reconciles(w[p]),
           adrift = {} => r.eps \subseteq Kept,
           adrift = {} /\ faults <= 1 => r.status # "uploading"
    PROVE  Fit(r, Teleoperates(t), w)
<1> DEFINE u == Teleoperates(t)
<1>1. /\ u \in Runtimes /\ u.teleop = "on" /\ u.episode = t.episode /\ u.final = None
      /\ u.task = t.task /\ u.status = "teleop" /\ u.err = "none"
  BY DEF Teleoperates, Fit, Typed, Runtimes, Statuses
<1> HIDE DEF u
<1>2. AtWork(u, w) = AtWork(t, w)
  BY <1>1 DEF AtWork
<1>3. Typed(r, u, w) /\ PlacesSound(u, w) /\ MotionSound(u, w)
  BY <1>1 DEF Fit, Typed, PlacesSound, MotionSound, Alone
<1>4. StatusSound(r, u, w) /\ KeptSound(r, u, w)
  BY <1>1, <1>2 DEF Fit, StatusSound, KeptSound, Bad
<1>5. CopiesSound(r, u, w)
  <2>1. \A p \in Requests : w[p].at = "scan" => ScanSound(r, u, w, w[p])
    BY <1>1 DEF Fit, CopiesSound, ScanSound
  <2>2. \A p \in Requests : w[p].at = "merge" => MergeSound(r, u, w, w[p])
    BY <1>2 DEF Fit, CopiesSound, MergeSound
  <2>3. \A p \in Operators : w[p].at # "scan"
    BY DEF Reconciles
  <2> QED BY <2>1, <2>2, <2>3 DEF Fit, CopiesSound
<1>6. UploadedSound(r, u, w)
  BY <1>1 DEF Fit, UploadedSound, SaysUploaded
<1>7. ListSound(r, u, w)
  BY <1>1 DEF Fit, ListSound
<1>8. TargetSound(r, u, w)
  BY <1>1 DEF Fit, TargetSound
<1> QED BY <1>3, <1>4, <1>5, <1>6, <1>7, <1>8 DEF Fit, u

\* Starting teleoperation keeps the agreement, committed or not.
LEMMA TeleopStartsFit ==
    ASSUME OneOperator, NEW r, NEW t, NEW w, NEW q, NEW kind, NEW c, q \in Operators, kind \in Kinds,
           Turned(r, t, w, q, kind, c), faults \in Nat, UNCHANGED process,
           TeleopStarts(q, c, r, t)
    PROVE  Fit(row, rt, req)' /\ QuietSound(rt)'
<1> DEFINE u == Ensured(t, c)
           on == Teleoperates(u)
           v == [w EXCEPT ![q] = Unused]
<1>0. q \in Requests
  BY DEF Operators
<1>1. Turned(r, u, w, q, kind, c)
  BY <1>0, EnsuredTurn
<1>2. CASE Refuse(q, r, u)
  BY <1>0, <1>2, RefusesFit
<1>3. CASE /\ Mutable(c) /\ MayTeleop(u)
           /\ \/ Commits(r, c, With(c, "teleop")) /\ rt' = on /\ UNCHANGED dropping
              \/ CommitFails(r, c, With(c, "teleop")) /\ Compensates(on)
           /\ Ends(q) /\ UNCHANGED <<dir, remote>>
  <2> DEFINE n == row'
  <2>1. /\ n = r \/ n = Stored(r, c, With(c, "teleop"))
        /\ Fine \/ Fault
        /\ req' = v /\ u.teleop = "off" /\ u.final = None /\ sd = "up"
    BY <1>1, <1>3 DEF Commits, CommitFails, MayTeleop, Ends, Turned
  <2>2. Elsewhere
    BY <1>3, <2>1 DEF Elsewhere, Kept, process, remote, Fine, Fault, Turned, Fit, Typed
  <2> HIDE DEF u
  <2> HIDE DEF n
  <2>3. /\ Turned(n, u, w, q, kind, c) /\ ~Over(n, u, w)
        /\ adrift = {} => n.eps \subseteq Kept
        /\ adrift = {} /\ faults <= 1 => n.status # "uploading"
    BY <1>1, <1>3, <2>1, MutableTurn
  <2>4. Fit(n, u, w) /\ w[q].at = "merge"
    BY <2>3 DEF Turned, Turn, At
  <2>5. Fit(n, u, v)
    BY <1>0, <2>4, LeavesFit
  <2>6. Alone(v, q) /\ \A p \in Operators : ~Reconciles(v[p])
    BY <2>3, TurnAlone
  <2>7. Fit(n, on, v)
    BY <2>1, <2>3, <2>5, <2>6, TeleopOnFit
  <2>8. on.teleop = "on" /\ u \in Runtimes
    BY <2>4 DEF Teleoperates, Fit, Typed, Runtimes
  <2>9. CASE rt' = on
    <3>1. Fit(row, rt, req)'
      BY <2>1, <2>2, <2>7, <2>9, NowFit DEF n
    <3> QED BY <2>8, <2>9, <3>1 DEF QuietSound
  <2>10. CASE rt' = Compensated(on) /\ Fault
    <3>1. ~Over(n, on, v) /\ \A p \in Requests : ~Flies(v[p])
      BY <2>6, <2>8 DEF Over, Alone
    <3>2. faults' # 0
      BY <2>2, <2>10 DEF Fault, Elsewhere
    <3> QED BY <2>1, <2>2, <2>7, <2>10, <3>1, <3>2, CompensatedFit DEF n
  <2> QED BY <1>3, <2>9, <2>10 DEF Compensates, CommitFails, u
<1> QED BY <1>2, <1>3 DEF TeleopStarts

-----------------------------------------------------------------------------
(* Turns: stopping teleoperation and starting an episode *)

\* Stopping teleoperation keeps the agreement, an episode recorded or not.
LEMMA TeleopStopsFit ==
    ASSUME OneOperator, NEW r, NEW t, NEW w, NEW q, NEW kind, NEW c, q \in Operators, kind \in Kinds,
           Turned(r, t, w, q, kind, c), faults \in Nat, UNCHANGED process,
           TeleopStops(q, c, r, t)
    PROVE  Fit(row, rt, req)' /\ QuietSound(rt)'
<1> DEFINE u == Ensured(t, c)
           x == At("stopping", "none", c, {})
           v == [w EXCEPT ![q] = Unused]
           z == [v EXCEPT ![q] = x]
           s == Stopping(u)
<1>1. q \in Requests /\ c \in Rows /\ w \in [Requests -> Waiting]
  BY DEF Operators, Turned, Turn, At, Fit, Typed, Waiting
<1>2. Turned(r, u, w, q, kind, c)
  BY <1>1, EnsuredTurn
<1>3. CASE Refuse(q, r, u)
  BY <1>1, <1>3, RefusesFit
<1>4. CASE /\ MayStopTeleop(u) /\ rt' = Stopping(u)
           /\ Goes(q, "stopping", "none", c, {})
           /\ row' = r /\ Fine /\ UNCHANGED <<disk, remote>>
  <2>1. Elsewhere
    BY <1>2, <1>4, StillElsewhere DEF Turned, Fit, Typed
  <2>2. Fit(r, u, v) /\ Alone(v, q) /\ u.teleop = "on" /\ u.episode = None /\ u.final = None
    <3>1. Fit(r, u, w) /\ w[q].at = "merge"
      BY <1>2 DEF Turned, Turn, At
    <3>2. Fit(r, u, v)
      BY <1>1, <3>1, LeavesFit
    <3>3. Alone(v, q)
      BY <1>2, TurnAlone
    <3> QED BY <1>4, <3>2, <3>3 DEF MayStopTeleop
  <2>3. v[q].at = "free" /\ v \in [Requests -> Waiting]
    BY <1>1, NothingAsked
  <2>4. x \in Waiting /\ Sound(x) /\ x.at = "stopping"
    BY <1>1, WaitingAt DEF At, Sound, Places
  <2>5. Over(r, u, v) => FALSE
    BY <2>2 DEF Over
  <2> HIDE DEF u, v, x
  <2>6. Fit(r, u, z)
    BY <2>2, <2>3, <2>4, <2>5, CalmFit DEF Calm
  <2>7. req' = z
    BY <1>1, <1>2, <1>4 DEF Goes, Turned, x, v
  <2>8. /\ s \in Runtimes /\ s.teleop = "stopping" /\ s.episode = None /\ s.final = None
        /\ s.task = u.task /\ s.status = "failed" /\ s.err = "other" /\ u \in Runtimes
    BY <2>2 DEF Stopping, Fit, Typed, Runtimes, Statuses
  <2> HIDE DEF s, z
  <2>9. AtWork(s, z) = AtWork(u, z) /\ ~Over(r, u, z)
    BY <2>2, <2>8 DEF AtWork, Over
  <2>10. Fit(r, s, z)
    <3>1. Typed(r, s, z) /\ PlacesSound(s, z) /\ MotionSound(s, z)
      BY <2>2, <2>6, <2>8 DEF Fit, Typed, PlacesSound, MotionSound
    <3>2. StatusSound(r, s, z) /\ KeptSound(r, s, z)
      BY <2>6, <2>8, <2>9 DEF Fit, StatusSound, KeptSound, Bad
    <3>3. CopiesSound(r, s, z)
      <4>1. \A p \in Requests : z[p].at = "scan" => ScanSound(r, s, z, z[p])
        BY <2>2, <2>6, <2>8 DEF Fit, CopiesSound, ScanSound
      <4>2. \A p \in Requests : z[p].at = "merge" => MergeSound(r, s, z, z[p])
        BY <2>6, <2>9 DEF Fit, CopiesSound, MergeSound
      <4> QED BY <2>6, <2>8, <4>1, <4>2 DEF Fit, CopiesSound
    <3>4. UploadedSound(r, s, z)
      BY <2>6, <2>8 DEF Fit, UploadedSound, SaysUploaded
    <3>5. ListSound(r, s, z)
      BY <2>2, <2>6, <2>8, <2>9 DEF Fit, ListSound
    <3>6. TargetSound(r, s, z)
      BY <2>6, <2>8 DEF Fit, TargetSound
    <3> QED BY <3>1, <3>2, <3>3, <3>4, <3>5, <3>6 DEF Fit
  <2>11. rt' = s
    BY <1>4 DEF s, u
  <2>12. Fit(row, rt, req)'
    BY <1>4, <2>1, <2>7, <2>10, <2>11, NowFit
  <2> QED BY <2>8, <2>11, <2>12 DEF QuietSound
<1> QED BY <1>3, <1>4 DEF TeleopStops

\* An episode is begun where nothing is, when all that is kept is on the row.
LEMMA RecordsFit ==
    ASSUME NEW r, NEW t, NEW w, Fit(r, t, w), NEW q, Alone(w, q),
           t.teleop = "on", t.final = None, NEW e, e \in Episodes, dir[e] = "absent",
           \A p \in Requests : ~Reconciles(w[p]),
           Kept \subseteq r.eps, adrift = {} => r.eps \subseteq Kept,
           r.status \notin Bad
    PROVE  Fit(r, [t EXCEPT !.episode = e, !.status = "recording"], w)
<1> DEFINE u == [t EXCEPT !.episode = e, !.status = "recording"]
<1>1. /\ u \in Runtimes /\ u.teleop = "on" /\ u.episode = e /\ u.final = None
      /\ u.task = t.task /\ u.status = "recording" /\ u.err = t.err
  BY DEF Fit, Typed, Runtimes, Statuses
<1> HIDE DEF u
<1>2. e \notin Kept
  BY DEF Kept
<1>3. Typed(r, u, w) /\ PlacesSound(u, w) /\ MotionSound(u, w)
  BY <1>1 DEF Fit, Typed, PlacesSound, MotionSound, Alone
<1>4. StatusSound(r, u, w) /\ KeptSound(r, u, w)
  BY <1>1 DEF Fit, StatusSound, KeptSound, Bad, Alone, Operators
<1>5. CopiesSound(r, u, w)
  <2>1. \A p \in Requests : w[p].at # "scan" /\ w[p].at # "merge"
    BY DEF Reconciles
  <2> QED BY <2>1 DEF Fit, CopiesSound, Operators
<1>6. UploadedSound(r, u, w)
  BY <1>1 DEF Fit, UploadedSound, SaysUploaded
<1>7. ListSound(r, u, w)
  BY <1>1, <1>2 DEF Fit, ListSound
<1>8. TargetSound(r, u, w)
  BY <1>1 DEF Fit, TargetSound, Bad
<1> QED BY <1>3, <1>4, <1>5, <1>6, <1>7, <1>8 DEF Fit, u

\* Starting an episode keeps the agreement: what it records is new to the row, and the
\* row lists what is kept.
LEMMA StartEpisodeFit ==
    ASSUME OneOperator, NEW r, NEW t, NEW w, NEW q, NEW kind, NEW c, NEW scanning,
           q \in Operators, kind \in Kinds,
           Turned(r, t, w, q, kind, c), faults \in Nat, UNCHANGED process,
           ~scanning => \A p \in Requests : Reconciles(w[p]) => p = q,
           ~scanning /\ t.teleop = "on" /\ t.episode = None => Kept \subseteq c.eps,
           StartEpisode(q, c, r, t, scanning)
    PROVE  Fit(row, rt, req)' /\ QuietSound(rt)'
<1> DEFINE u == Ensured(t, c)
           v == [w EXCEPT ![q] = Unused]
<1>0. q \in Requests /\ w \in [Requests -> Waiting]
  BY DEF Operators, Turned, Fit, Typed
<1>1. Turned(r, u, w, q, kind, c) /\ SameWork(t, u)
  BY <1>0, EnsuredTurn
<1>2. CASE Refuse(q, r, u)
  BY <1>0, <1>2, RefusesFit
<1>3. ASSUME Mutable(c), MayRecord(u), ~scanning, Available(u) # {}, Ends(q), UNCHANGED remote,
             NEW e, e = Min(Available(u)), dir' = Opened(e), NEW on,
             on = [u EXCEPT !.episode = e, !.status = "recording"],
             \/ Commits(r, c, With(c, "recording")) /\ rt' = on
             \/ CommitFails(r, c, With(c, "recording")) /\ Compensates(on)
      PROVE  Fit(row, rt, req)' /\ QuietSound(rt)'
  <2> DEFINE n == row'
  <2>1. e \in Episodes /\ dir[e] = "absent"
    <3>1. Available(u) \subseteq Episodes /\ Available(u) \subseteq Nat
      BY EpisodesAreNumbers DEF Available
    <3>2. e \in Available(u)
      BY <1>3, <3>1, LeastOf
    <3> QED BY <3>1, <3>2 DEF Available
  <2> HIDE DEF u
  <2>2. /\ n = r \/ n = Stored(r, c, With(c, "recording"))
        /\ Fine \/ Fault
        /\ req' = v /\ u.teleop = "on" /\ u.episode = None /\ u.final = None
    BY <1>1, <1>3 DEF Commits, CommitFails, MayRecord, Ends, Turned
  <2>3. Elsewhere
    <3>1. dir \in Directories
      BY <1>1 DEF Turned, Fit, Typed
    <3>2. dir' \in Directories /\ Kept' = Kept
      BY <1>3, <2>1, <3>1 DEF Opened, Directories, Kept
    <3> QED BY <1>3, <2>2, <3>2 DEF Elsewhere, process, remote, Fine, Fault
  <2> HIDE DEF n
  <2>4. /\ Turned(n, u, w, q, kind, c) /\ ~Over(n, u, w) /\ n.eps = c.eps
        /\ adrift = {} => n.eps \subseteq Kept
        /\ n.status \notin Bad
    BY <1>1, <1>3, <2>2, MutableTurn
  <2>5. Fit(n, u, w) /\ w[q].at = "merge"
    BY <2>4 DEF Turned, Turn, At
  <2>6. Fit(n, u, v)
    BY <1>0, <2>5, LeavesFit
  <2>7. Alone(v, q)
    BY <2>4, TurnAlone
  <2>8. v[q].at = "free" /\ \A p \in Requests : p # q => v[p] = w[p]
    BY <1>0, NothingAsked
  <2>9. \A p \in Requests : ~Reconciles(v[p])
    BY <1>3, <2>8 DEF Reconciles
  <2>10. Kept \subseteq n.eps
    BY <1>1, <1>3, <2>2, <2>4 DEF SameWork
  <2> HIDE DEF v
  <2>11. Fit(n, on, v)
    BY <1>3, <2>1, <2>2, <2>4, <2>6, <2>7, <2>9, <2>10, RecordsFit
  <2>12. on.teleop = "on"
    BY <1>3, <2>2, <2>5 DEF Fit, Typed, Runtimes
  <2>13. CASE rt' = on
    <3>1. Fit(row, rt, req)'
      BY <2>2, <2>3, <2>11, <2>13, NowFit DEF n
    <3> QED BY <2>12, <2>13, <3>1 DEF QuietSound
  <2>14. CASE rt' = Compensated(on) /\ Fault
    <3>1. ~Over(n, on, v) /\ \A p \in Requests : ~Flies(v[p])
      BY <2>7, <2>12 DEF Over, Alone
    <3>2. faults' # 0
      BY <2>3, <2>14 DEF Fault, Elsewhere
    <3> QED BY <2>2, <2>3, <2>11, <2>14, <3>1, <3>2, CompensatedFit DEF n
  <2> QED BY <1>3, <2>13, <2>14 DEF Compensates, CommitFails
<1> QED BY <1>2, <1>3 DEF StartEpisode

-----------------------------------------------------------------------------
(* Turns: stopping an episode *)

\* The episode that is recorded goes over to a finalization.
LEMMA StopEpisodeFit ==
    ASSUME OneOperator, NEW r, NEW t, NEW w, NEW q, NEW kind, NEW c, q \in Operators, kind \in Kinds,
           Turned(r, t, w, q, kind, c), faults \in Nat, UNCHANGED process,
           StopEpisode(q, c, r, t)
    PROVE  Fit(row, rt, req)' /\ QuietSound(rt)'
<1> DEFINE u == Ensured(t, c)
           e == u.episode
           x == At("closing", "none", c, {e})
           v == [w EXCEPT ![q] = x]
           s == Finalizing(u)
<1>1. /\ q \in Requests /\ q \notin Pollers /\ c \in Rows /\ w \in [Requests -> Waiting]
      /\ w[q].at = "merge" /\ w[q].copy = c
  BY DEF Operators, Turned, Turn, At, Fit, Typed, Waiting
<1>2. Turned(r, u, w, q, kind, c) /\ Fit(r, u, w)
  BY <1>1, EnsuredTurn DEF Turned
<1>3. CASE Refuse(q, r, u)
  BY <1>1, <1>3, RefusesFit
<1>4. CASE /\ e # None /\ rt' = s
           /\ Goes(q, "closing", "none", c, {e})
           /\ row' = r /\ Fine /\ UNCHANGED <<disk, remote>>
  <2>1. Elsewhere
    BY <1>2, <1>4, StillElsewhere DEF Turned, Fit, Typed
  <2>2. e \in Episodes /\ u \in Runtimes
    BY <1>2, <1>4 DEF Fit, Typed, Runtimes
  <2>3. Alone(w, q)
    BY <1>2, TurnAlone
  <2>4. /\ s \in Runtimes /\ s.teleop = u.teleop /\ s.episode = None /\ s.final = e /\ s.task
        /\ s.status = u.status /\ s.err = u.err /\ e # None
    BY <1>4, <2>2 DEF Finalizing, Runtimes
  <2>5. req' = v
    BY <1>1, <1>2, <1>4 DEF Goes, Turned
  <2>6. x \in Waiting /\ Sound(x) /\ x.at = "closing" /\ x.copy = c /\ x.eps = {e}
    BY <1>1, <2>2, WaitingAt DEF At, Sound, Places
  <2> HIDE DEF s, x, u, e
  <2>7. /\ v[q] = x /\ \A p \in Requests : p # q => v[p] = w[p]
        /\ v \in [Requests -> Waiting] /\ \A p \in Requests : Sound(v[p])
    BY <1>1, <1>2, <2>6 DEF Fit, Typed
  <2> HIDE DEF v
  <2>8. /\ Flies(v[q]) /\ ~Reconciles(v[q]) /\ ~Sends(v[q]) /\ ~Uploads(v[q]) /\ Reconciles(w[q])
        /\ \A p \in Requests : p # q =>
              /\ ~Flies(v[p]) /\ ~Sends(v[p]) /\ ~Uploads(v[p]) /\ v[p].at \in {"free", "scan", "merge"}
              /\ v[p] = w[p] /\ p \in Pollers
        /\ \A p \in Requests : ~Flies(w[p]) /\ ~Uploads(w[p]) /\ w[p].at # "settled" /\ w[p].at # "confirm"
        /\ \A p \in Operators : p = q
    BY <1>1, <2>3, <2>6, <2>7 DEF Alone, Flies, Reconciles, Sends, Uploads
  <2>9. AtWork(s, v) /\ AtWork(u, w)
    BY <1>1, <2>4, <2>8 DEF AtWork, e
  <2>10. Typed(r, s, v)
    BY <1>2, <2>4, <2>7 DEF Fit, Typed
  <2>11. PlacesSound(s, v)
    BY <1>1, <1>2, <2>4, <2>7, <2>8, RecordingBounds DEF Fit, PlacesSound
  <2>12. MotionSound(s, v)
    <3>1. \A p \in Requests : Flies(v[p]) => p = q
      BY <2>8
    <3> QED BY <1>1, <2>4, <2>6, <2>7, <2>8, <3>1 DEF MotionSound
  <2>13. StatusSound(r, s, v)
    <3>1. s.status \notin Bad /\ r.status \notin Bad
      BY <1>2, <2>4, <2>9 DEF Fit, StatusSound
    <3>2. \A p \in Requests : Reconciles(v[p]) => v[p].copy.status \notin Bad
      BY <1>2, <2>8, <2>9 DEF Fit, StatusSound
    <3>3. \A p \in Requests : v[p].at # "confirm"
      BY <2>6, <2>7, <2>8
    <3> QED BY <3>1, <3>2, <3>3 DEF StatusSound
  <2>14. KeptSound(r, s, v)
    <3>1. \A f \in Kept : f \in r.eps
      BY <1>2, <2>8, <2>9 DEF Fit, KeptSound, Flying
    <3>2. \A p \in Requests : v[p].at # "settled"
      BY <2>6, <2>7, <2>8
    <3> QED BY <3>1, <3>2 DEF KeptSound
  <2>15. CopiesSound(r, s, v)
    <3>1. \A p \in Requests : v[p].at = "scan" => ScanSound(r, s, v, v[p])
      <4>1. SUFFICES ASSUME NEW p \in Requests, v[p].at = "scan" PROVE ScanSound(r, s, v, v[p])
        OBVIOUS
      <4>2. p # q /\ v[p] = w[p] /\ ScanSound(r, u, w, w[p])
        BY <1>2, <2>6, <2>7, <4>1 DEF Fit, CopiesSound
      <4>3. e \in w[p].eps
        BY <2>4, <4>2 DEF ScanSound, e
      <4>4. {s.episode, s.final} \ {None} \subseteq v[p].eps
        BY <2>4, <4>2, <4>3
      <4>5. \A z \in Requests : Flies(v[z]) => v[z].eps \subseteq v[p].eps
        BY <2>6, <2>7, <2>8, <4>2, <4>3
      <4> QED BY <4>2, <4>4, <4>5 DEF ScanSound
    <3>2. \A p \in Requests : v[p].at = "merge" => MergeSound(r, s, v, v[p])
      <4>1. SUFFICES ASSUME NEW p \in Requests, v[p].at = "merge" PROVE MergeSound(r, s, v, v[p])
        OBVIOUS
      <4>2. v[p] = w[p] /\ MergeSound(r, u, w, w[p])
        BY <1>2, <2>6, <2>7, <4>1 DEF Fit, CopiesSound
      <4> QED BY <2>9, <4>2 DEF MergeSound
    <3>3. \A p \in Operators : ~Reconciles(v[p]) /\ v[p].at # "scan"
      BY <2>8 DEF Reconciles
    <3>4. \A p \in Requests : Flies(v[p]) =>
             /\ r.eps = v[p].copy.eps /\ HasTarget(r) = HasTarget(v[p].copy)
             /\ adrift = {} => r.count = v[p].copy.count
      BY <1>1, <1>2, <2>6, <2>7, <2>8 DEF Fit, CopiesSound, Operators
    <3>5. \A p \in Requests : ~Sends(v[p])
      BY <2>8
    <3>6. adrift = {} => \A p \in Requests : Reconciles(v[p]) \/ Flies(v[p]) =>
             v[p].copy.count = Cardinality(v[p].copy.eps)
      <4>1. adrift = {} => \A p \in Requests : Reconciles(w[p]) =>
             w[p].copy.count = Cardinality(w[p].copy.eps)
        BY <1>2 DEF Fit, CopiesSound
      <4> QED BY <1>1, <2>6, <2>7, <2>8, <4>1
    <3> QED BY <3>1, <3>2, <3>3, <3>4, <3>5, <3>6 DEF CopiesSound
  <2>16. UploadedSound(r, s, v)
    <3>1. SaysUploaded(r, s, v) => SaysUploaded(r, u, w)
      BY <2>4, <2>6, <2>7, <2>8 DEF SaysUploaded
    <3> QED BY <1>2, <3>1 DEF Fit, UploadedSound
  <2>17. ListSound(r, s, v)
    <3>1. Remote(r, w) => Remote(r, v)
      BY <2>7, <2>8 DEF Remote
    <3>2. ~Over(r, u, w)
      BY <2>4 DEF Over, e
    <3>3. r.eps \subseteq Episodes /\ None \notin Episodes
      BY <1>2, EpisodesAreNumbers DEF Fit, Typed, Rows
    <3>4. adrift = {} => e \notin r.eps
      BY <1>2 DEF Fit, ListSound, e
    <3>5. ListSound(r, u, w)
      BY <1>2 DEF Fit
    <3>6. \A p \in Requests : p # q => v[p].at \notin {"closing", "naming", "settled", "send", "sent", "cleaning", "create", "collided"}
      BY <2>8
    <3>7. adrift = {} =>
             /\ s.episode \notin r.eps
             /\ \A p \in Requests : v[p].at \in {"closing", "naming", "settled"} => v[p].eps \cap r.eps = {}
             /\ \A p \in Requests : v[p].at \in {"send", "sent", "cleaning"} => repo = "ours"
             /\ \A p \in Requests : v[p].at = "create" => repo = "absent"
             /\ \A p \in Requests : Uploads(v[p]) => HasTarget(r)
             /\ \A p \in Requests : v[p].at = "collided" /\ v[p].trusted => repo # "ours"
      BY <2>4, <2>6, <2>7, <2>8, <3>3, <3>4, <3>6
    <3> QED BY <3>1, <3>2, <3>5, <3>7 DEF ListSound
  <2>18. TargetSound(r, s, v)
    <3>1. TargetSound(r, u, w)
      BY <1>2 DEF Fit
    <3>2. \A p \in Requests : v[p].at \notin {"convert", "look", "collided"}
      BY <2>6, <2>7, <2>8
    <3>3. \A p \in Requests : Reconciles(v[p]) => Reconciles(w[p]) /\ v[p] = w[p] /\ p \in Pollers
      BY <2>8
    <3>4. \A p \in Operators : ~Reconciles(v[p])
      BY <2>8
    <3> QED BY <2>4, <2>8, <3>1, <3>2, <3>3, <3>4, RecordingBounds DEF TargetSound, Bad
  <2>19. Fit(r, s, v)
    BY <2>10, <2>11, <2>12, <2>13, <2>14, <2>15, <2>16, <2>17, <2>18 DEF Fit
  <2>20. Fit(row, rt, req)'
    BY <1>4, <2>1, <2>5, <2>19, NowFit
  <2>21. s.status \notin Bad
    BY <2>9, <2>13 DEF StatusSound, AtWork
  <2> QED BY <1>4, <2>20, <2>21 DEF QuietSound, Bad
<1> QED BY <1>3, <1>4 DEF StopEpisode

-----------------------------------------------------------------------------
(* Turns: the intent to upload *)

\* What the intent to upload makes of the row.
Intent(c) == [c EXCEPT !.status = "uploading", !.upload = "uploading"]
Sending(c) == [At("convert", c.status, Intent(c), {}) EXCEPT !.trusted = HasTarget(c)]

\* What the intent to upload leaves of a row: the status, and with no other request
\* between, the list the copy had.
LEMMA IntentIs ==
    ASSUME NEW r, NEW c, r \in Rows, c \in Rows, c.status \in {"ready", "failed"}
    PROVE  /\ Intent(c) \in Rows /\ Stored(r, c, Intent(c)) \in Rows
           /\ Intent(c).status = "uploading" /\ Intent(c).upload = "uploading"
           /\ Intent(c).eps = c.eps /\ Intent(c).count = c.count
           /\ Stored(r, c, Intent(c)).status = "uploading"
           /\ Stored(r, c, Intent(c)).count = r.count
           /\ r.eps = c.eps => Stored(r, c, Intent(c)).eps = r.eps
           /\ HasTarget(r) = HasTarget(c) => HasTarget(Stored(r, c, Intent(c)))
           /\ Sending(c) \in Waiting /\ Sound(Sending(c)) /\ Sending(c).at = "convert"
           /\ Sending(c).kind = c.status /\ Sending(c).copy = Intent(c) /\ Sending(c).eps = {}
           /\ Sending(c).trusted = HasTarget(c)
<1> DEFINE i == Intent(c)
           n == Stored(r, c, i)
           y == Sending(c)
<1>1. /\ i \in Rows /\ i.status = "uploading" /\ i.upload = "uploading"
      /\ i.eps = c.eps /\ i.count = c.count
  BY DEF Intent, Rows, Statuses
<1>2. n \in Rows
  BY <1>1, RowsStored
<1>3. /\ n.status = "uploading" /\ n.count = r.count
      /\ r.eps = c.eps => n.eps = r.eps
      /\ n.upload = "uploading" \/ (n.upload = r.upload /\ c.upload = "uploading")
  BY <1>1 DEF Stored, Meta
<1>4. HasTarget(r) = HasTarget(c) => HasTarget(n)
  BY <1>3 DEF HasTarget
<1>5. At("convert", c.status, i, {}) \in Waiting
  BY <1>1, WaitingAt DEF Places, Statuses
<1>6. HasTarget(c) \in BOOLEAN
  BY DEF HasTarget
<1> HIDE DEF i, n
<1>7. /\ y \in Waiting /\ y.at = "convert" /\ y.kind = c.status /\ y.copy = i /\ y.eps = {}
      /\ y.trusted = HasTarget(c)
  BY <1>5, <1>6 DEF Sending, At, Waiting, i
<1>8. Sound(y)
  BY <1>7 DEF Sound, Statuses
<1> QED BY <1>1, <1>2, <1>3, <1>4, <1>7, <1>8 DEF i, n

\* The intent to upload, committed or not, and where its request is then.
Becomes(q, y) == req' = [req EXCEPT ![q] = y]
Intended(r, c, y) ==
    \/ y = Unused /\ reserved' = reserved /\ (row' = r \/ row' = Stored(r, c, Intent(c)))
    \/ y = Sending(c) /\ reserved' = TRUE /\ row' = Stored(r, c, Intent(c))

\* Committing the intent keeps the agreement, whether the commit fails or not.
LEMMA IntendedFit ==
    ASSUME OneOperator, NEW r, NEW u, NEW w, NEW q, NEW kind, NEW c, q \in Operators, kind \in Kinds,
           Turned(r, u, w, q, kind, c), faults \in Nat,
           (\A p \in Requests : Reconciles(w[p]) => p = q) \/ sd = "up",
           Idle(u), c.status \in {"ready", "failed"}, rt' = u,
           NEW y, Becomes(q, y),
           Intended(r, c, y),
           repo' \in (IF HasTarget(c) THEN {repo} ELSE {repo, "absent"}),
           Fine \/ Fault, UNCHANGED <<disk, hub, process>>
    PROVE  Fit(row, rt, req)'
<1> DEFINE i == Intent(c)
           n == row'
           v == req'
<1>1. /\ Fit(r, u, w) /\ w[q].at = "merge" /\ w[q].copy = c /\ r \in Rows /\ c \in Rows
      /\ Reconciles(w[q]) /\ q \in Requests /\ u \in Runtimes /\ dir \in Directories
      /\ w \in [Requests -> Waiting] /\ \A p \in Requests : Sound(w[p])
      /\ q \notin Pollers
  BY DEF Turned, Turn, At, Fit, Typed, Waiting, Reconciles, Operators
<1>2. /\ i.status = "uploading" /\ i.upload = "uploading" /\ i.eps = c.eps /\ i.count = c.count
  BY <1>1, IntentIs
<1>3. /\ r.eps = c.eps /\ HasTarget(r) = HasTarget(c) /\ r.count = c.count
  BY <1>1 DEF Fit, CopiesSound
<1>4. /\ n \in Rows /\ n.eps = r.eps /\ n.count = r.count
      /\ n = r \/ (n.status = "uploading" /\ HasTarget(n))
      /\ HasTarget(r) => HasTarget(n)
  BY <1>1, <1>3, IntentIs DEF Intended
<1>5. /\ y \in Waiting /\ Sound(y)
      /\ \/ y.at = "free" /\ reserved' = reserved
         \/ /\ y.at = "convert" /\ reserved' = TRUE
            /\ y.kind \in {"ready", "failed"} /\ y.copy = i
            /\ y.trusted = HasTarget(c) /\ n.status = "uploading" /\ HasTarget(n)
  BY <1>1, <1>3, IntentIs, NothingAsked DEF Intended
<1>6. /\ v[q] = y /\ \A p \in Requests : p # q => v[p] = w[p]
      /\ v \in [Requests -> Waiting] /\ \A p \in Requests : Sound(v[p])
  <2>1. req' = [w EXCEPT ![q] = y]
    BY DEF Becomes, Turned
  <2> QED BY <1>1, <1>5, <2>1
<1>7. Alone(w, q) /\ ~reserved
  BY TurnAlone
<1>8. /\ u.teleop # "on" /\ u.episode = None /\ u.final = None
      /\ dir' = dir /\ Kept' = Kept /\ hub' = hub /\ sd' = sd /\ adrift' = adrift
      /\ faults' \in Nat /\ faults <= faults'
  BY DEF Idle, disk, process, Kept, Fine, Fault
<1> HIDE DEF i, n, v
<1>9. /\ \A p \in Requests : p # q => v[p] = w[p] /\ p \in Pollers /\ v[p].at \in {"free", "scan", "merge"}
      /\ \A p \in Requests : ~Flies(v[p]) /\ ~Flies(w[p])
      /\ \A p \in Requests : ~Uploads(w[p])
      /\ \A p \in Requests : Uploads(v[p]) \/ Sends(v[p]) => p = q /\ v[p] = y /\ y.at = "convert"
      /\ \A p \in Requests : Reconciles(v[p]) => v[p] = w[p] /\ Reconciles(w[p]) /\ p # q
      /\ \A p \in Operators : ~Reconciles(v[p]) /\ p = q
      /\ y.at = "convert" => Uploads(v[q]) /\ Sends(v[q])
  BY <1>1, <1>5, <1>6, <1>7 DEF Alone, Flies, Uploads, Sends, Reconciles
<1>10. ~AtWork(u, w) /\ ~AtWork(u, v)
  BY <1>8, <1>9 DEF AtWork
<1>11. Typed(row, rt, req)'
  BY <1>1, <1>4, <1>6, <1>8 DEF Typed, n, v
<1>12. PlacesSound(rt, req)'
  <2>1. \A p \in Pollers : v[p].at \in {"free", "scan", "merge"} /\ (Reconciles(v[p]) => v[p].kind = "state")
    BY <1>1, <1>6, <1>9, RecordingBounds DEF Fit, PlacesSound
  <2>2. \A p \in Requests : Uploads(v[p]) => reserved'
    BY <1>5, <1>9
  <2>3. \A p \in Requests : Sends(v[p]) =>
           /\ v[p].kind \in {"ready", "failed"}
           /\ v[p].copy.status = "uploading" /\ v[p].copy.upload = "uploading"
    BY <1>2, <1>5, <1>9
  <2>4. reserved' => \E p \in Requests : Uploads(v[p])
    BY <1>1, <1>5, <1>7, <1>9
  <2> QED BY <1>8, <2>1, <2>2, <2>3, <2>4 DEF PlacesSound, v
<1>13. MotionSound(rt, req)'
  BY <1>8, <1>9 DEF MotionSound, v
<1>14. StatusSound(row, rt, req)'
  <2>1. ~AtWork(rt, req)'
    BY <1>10 DEF AtWork, v
  <2>2. \A p \in Requests : v[p].at # "confirm"
    BY <1>5, <1>6, <1>9
  <2> QED BY <1>8, <2>1, <2>2 DEF StatusSound, v
<1>15. KeptSound(row, rt, req)'
  <2>1. ~AtWork(rt, req)'
    BY <1>10 DEF AtWork, v
  <2>2. \A p \in Requests : v[p].at # "settled" /\ w[p].at # "settled"
    BY <1>5, <1>6, <1>9 DEF Flies
  <2>3. \A e \in Kept : e \in r.eps \/ e \in adrift
    BY <1>1, <2>2 DEF Fit, KeptSound, Settles
  <2> QED BY <1>4, <1>8, <2>1, <2>2, <2>3 DEF KeptSound, v, n
<1>16. CopiesSound(row, rt, req)'
  <2>1. \A p \in Requests : v[p].at = "scan" => ScanSound(row, rt, req, req[p])'
    <3>1. SUFFICES ASSUME NEW p \in Requests, v[p].at = "scan" PROVE ScanSound(row, rt, req, req[p])'
      OBVIOUS
    <3>2. v[p] = w[p] /\ ScanSound(r, u, w, w[p])
      BY <1>1, <1>5, <1>6, <3>1 DEF Fit, CopiesSound
    <3> QED BY <1>4, <1>8, <1>9, <3>2 DEF ScanSound, v, n
  <2>2. \A p \in Requests : v[p].at = "merge" => MergeSound(row, rt, req, req[p])'
    <3>1. SUFFICES ASSUME NEW p \in Requests, v[p].at = "merge" PROVE MergeSound(row, rt, req, req[p])'
      OBVIOUS
    <3>2. v[p] = w[p] /\ MergeSound(r, u, w, w[p])
      BY <1>1, <1>5, <1>6, <3>1 DEF Fit, CopiesSound
    <3>3. ~AtWork(rt, req)'
      BY <1>10 DEF AtWork, v
    <3> QED BY <1>4, <1>8, <3>2, <3>3 DEF MergeSound, v, n
  <2>3. \A p \in Operators : ~Reconciles(v[p]) /\ v[p].at # "scan"
    BY <1>9 DEF Reconciles
  <2>4. \A p \in Requests : Sends(v[p]) => v[p].copy.eps = n.eps
    BY <1>2, <1>3, <1>4, <1>5, <1>9
  <2>5. adrift = {} => \A p \in Requests : Reconciles(v[p]) \/ Flies(v[p]) =>
           v[p].copy.count = Cardinality(v[p].copy.eps)
    BY <1>1, <1>9 DEF Fit, CopiesSound
  <2> QED BY <1>8, <1>9, <2>1, <2>2, <2>3, <2>4, <2>5 DEF CopiesSound, v, n
<1>17. UploadedSound(row, rt, req)'
  <2>1. SaysUploaded(row, rt, req)' => SaysUploaded(r, u, w)
    <3>1. \A p \in Requests : v[p].at \notin {"sent", "cleaning"}
      BY <1>5, <1>6, <1>9
    <3> QED BY <1>4, <1>9, <3>1 DEF SaysUploaded, v, n
  <2> QED BY <1>1, <1>4, <1>8, <2>1 DEF Fit, UploadedSound, n
<1>18. ListSound(row, rt, req)'
  <2>1. SUFFICES ASSUME adrift = {} PROVE ListSound(row, rt, req)'
    BY <1>8 DEF ListSound
  <2>2. ListSound(r, u, w) /\ ~Over(r, u, w)
    BY <1>1 DEF Fit, Over
  <2>3. Remote(r, w) => Remote(row, req)'
    <3>1. SUFFICES ASSUME Remote(r, w) PROVE Remote(row, req)'
      OBVIOUS
    <3>2. HasTarget(c) /\ repo' = "ours" /\ HasTarget(n)
      BY <1>3, <1>4, <3>1 DEF Remote
    <3>3. \A p \in Requests : Reconciles(v[p]) => HasTarget(v[p].copy)
      BY <1>9, <3>1 DEF Remote
    <3>4. \A p \in Requests : Sends(v[p]) => v[p].trusted
      BY <1>5, <1>9, <3>2
    <3> QED BY <3>2, <3>3, <3>4 DEF Remote, v, n
  <2>4. \A p \in Requests : v[p].at \notin {"closing", "naming", "settled", "send", "sent", "cleaning", "create", "collided"}
    BY <1>5, <1>6, <1>9
  <2>5. \A p \in Requests : Uploads(v[p]) => HasTarget(n)
    BY <1>5, <1>9
  <2>6. u.episode \notin n.eps
    BY <1>4, <1>8, EpisodesAreNumbers DEF Rows
  <2>7. n.eps \subseteq Kept \/ Remote(row, req)'
    BY <1>4, <2>1, <2>2, <2>3 DEF ListSound
  <2>8. n.eps \subseteq Kept \cup hub /\ n.count = Cardinality(n.eps)
    BY <1>4, <2>1, <2>2 DEF ListSound
  <2> QED BY <1>8, <2>4, <2>5, <2>6, <2>7, <2>8 DEF ListSound, v, n
<1>19. TargetSound(row, rt, req)'
  <2>1. SUFFICES ASSUME adrift = {} PROVE TargetSound(row, rt, req)'
    BY <1>8 DEF TargetSound
  <2>2. TargetSound(r, u, w)
    BY <1>1 DEF Fit
  <2>3. faults' = 0 /\ u.teleop = "closing" =>
          /\ sd # "up"
          /\ \A p \in Pollers : ~Reconciles(v[p])
    <3>1. SUFFICES ASSUME faults' = 0, u.teleop = "closing"
                   PROVE  sd # "up" /\ \A p \in Pollers : ~Reconciles(v[p])
      OBVIOUS
    <3>2. faults = 0
      BY <1>8, <3>1
    <3>3. sd # "up"
      BY <2>1, <2>2, <3>1, <3>2 DEF TargetSound
    <3>4. \A p \in Pollers : ~Reconciles(v[p])
      BY <1>9, <3>3, RecordingBounds
    <3> QED BY <3>3, <3>4
  <2>4. faults' <= 1 =>
       /\ u.status = "uploading" => u.err = "none"
       /\ n.status = "uploading" => HasTarget(n)
       /\ \A p \in Requests : Reconciles(v[p]) /\ v[p].copy.status = "uploading" =>
              HasTarget(v[p].copy)
       /\ repo' \in {"bare", "ours"} => HasTarget(n)
       /\ \A p \in Requests : v[p].at \in {"convert", "look"} /\ ~v[p].trusted =>
              repo' \notin {"bare", "ours"}
    <3>1. SUFFICES ASSUME faults' <= 1
                   PROVE  /\ u.status = "uploading" => u.err = "none"
                          /\ n.status = "uploading" => HasTarget(n)
                          /\ \A p \in Requests : Reconciles(v[p]) /\ v[p].copy.status = "uploading" =>
                                 HasTarget(v[p].copy)
                          /\ repo' \in {"bare", "ours"} => HasTarget(n)
                          /\ \A p \in Requests : v[p].at \in {"convert", "look"} /\ ~v[p].trusted =>
                                 repo' \notin {"bare", "ours"}
      OBVIOUS
    <3>2. faults <= 1
      BY <1>8, <3>1
    <3>3. (u.status = "uploading" => u.err = "none") /\ (n.status = "uploading" => HasTarget(n))
      BY <1>4, <2>1, <2>2, <3>2 DEF TargetSound
    <3>4. \A p \in Requests : Reconciles(v[p]) /\ v[p].copy.status = "uploading" =>
                                 HasTarget(v[p].copy)
      BY <1>9, <2>1, <2>2, <3>2 DEF TargetSound
    <3>5. repo \in {"bare", "ours"} => HasTarget(r)
      BY <2>1, <2>2, <3>2 DEF TargetSound
    <3>6. repo' \in {"bare", "ours"} => HasTarget(n) /\ repo' = repo
      BY <1>4, <3>5
    <3>7. \A p \in Requests : v[p].at \in {"convert", "look"} /\ ~v[p].trusted =>
                                 repo' \notin {"bare", "ours"}
      BY <1>3, <1>5, <1>6, <1>9, <3>5, <3>6
    <3> QED BY <3>3, <3>4, <3>6, <3>7
  <2>5. \A p \in Requests : v[p].at # "collided"
    BY <1>5, <1>6, <1>9
  <2> QED BY <1>8, <1>9, <2>3, <2>4, <2>5 DEF TargetSound, v, n
<1> QED BY <1>11, <1>12, <1>13, <1>14, <1>15, <1>16, <1>17, <1>18, <1>19 DEF Fit

\* Asking for the upload keeps the agreement.
LEMMA UploadFit ==
    ASSUME OneOperator, NEW r, NEW t, NEW w, NEW q, NEW kind, NEW c, q \in Operators, kind \in Kinds,
           Turned(r, t, w, q, kind, c), faults \in Nat, UNCHANGED process,
           (\A p \in Requests : Reconciles(w[p]) => p = q) \/ sd = "up",
           Upload(q, c, r, t)
    PROVE  Fit(row, rt, req)' /\ QuietSound(rt)'
<1> DEFINE u == Ensured(t, c)
<1>0. q \in Requests
  BY DEF Operators
<1>1. Turned(r, u, w, q, kind, c) /\ QuietSound(u)
  BY <1>0, EnsuredTurn
<1>2. CASE Refuse(q, r, u)
  BY <1>0, <1>2, RefusesFit
<1> HIDE DEF u
<1>3. CASE /\ Idle(u) /\ c.status \in {"ready", "failed"} /\ rt' = u
           /\ \/ /\ Commits(r, c, Intent(c)) /\ reserved' = TRUE
                 /\ req' = [req EXCEPT ![q] = Sending(c)]
              \/ CommitFails(r, c, Intent(c)) /\ Ends(q) /\ UNCHANGED reserved
           /\ repo' \in (IF HasTarget(c) THEN {repo} ELSE {repo, "absent"})
           /\ UNCHANGED <<disk, hub>>
  <2>2. ASSUME Commits(r, c, Intent(c)), reserved' = TRUE,
               req' = [req EXCEPT ![q] = Sending(c)]
        PROVE  Fit(row, rt, req)'
    <3>1. Becomes(q, Sending(c)) /\ Intended(r, c, Sending(c)) /\ Fine
      BY <2>2 DEF Commits, Intended, Becomes
    <3> QED BY <1>1, <1>3, <2>2, <3>1, IntendedFit
  <2>3. ASSUME CommitFails(r, c, Intent(c)), Ends(q), UNCHANGED reserved
        PROVE  Fit(row, rt, req)'
    <3>1. Becomes(q, Unused) /\ Intended(r, c, Unused) /\ Fault
      BY <2>3 DEF CommitFails, Ends, Intended, Becomes
    <3> QED BY <1>1, <1>3, <2>3, <3>1, IntendedFit
  <2>4. Fit(row, rt, req)'
    BY <1>3, <2>2, <2>3
  <2>5. QuietSound(rt)'
    BY <1>1, <1>3 DEF QuietSound, Commits, CommitFails, Fine, Fault, process
  <2> QED BY <2>4, <2>5
<1> QED BY <1>2, <1>3 DEF Upload, Sending, Intent, u

-----------------------------------------------------------------------------
(* Any turn *)

\* What a handler may count on of the others: none reconciles, or another does and is what
\* keeps this one from it.
Freely(w, q, c, r, scanning) ==
    \/ \A p \in Requests : Reconciles(w[p]) => p = q
    \/ scanning /\ sd = "up" /\ c = r
Listed(t, c, scanning) == ~scanning /\ t.teleop = "on" /\ t.episode = None => Kept \subseteq c.eps

\* Whatever a handler does with its turn keeps the agreement.
LEMMA HandlesFit ==
    ASSUME OneOperator, NEW r, NEW t, NEW w, NEW q, NEW kind, NEW c, NEW scanning,
           scanning \in BOOLEAN, q \in Requests, kind \in Kinds,
           Turned(r, t, w, q, kind, c), faults \in Nat, UNCHANGED process,
           kind = "state" => ~Stale(c), kind # "state" => QuietSound(t),
           Freely(w, q, c, r, scanning), kind # "state" => Listed(t, c, scanning),
           Handles(q, kind, c, r, t, scanning)
    PROVE  Fit(row, rt, req)' /\ QuietSound(rt)'
<1>1. CASE kind = "state"
  BY <1>1, ShowStateFit DEF Handles
<1>2. CASE kind # "state"
  <2>1. q \in Operators
    BY <1>2 DEF Turned, Turn, At, Fit, PlacesSound, Operators, Reconciles
  <2>2. kind \in {"look", "teleopStart", "teleopStop", "start", "stop", "upload"}
    BY <1>2 DEF Kinds
  <2>3. CASE kind = "look"
    BY <2>3, LookUpFit DEF Handles
  <2>4. CASE kind = "teleopStart"
    BY <2>1, <2>4, TeleopStartsFit DEF Handles
  <2>5. CASE kind = "teleopStop"
    BY <2>1, <2>5, TeleopStopsFit DEF Handles
  <2>6. CASE kind = "start"
    <3>1. ~scanning => \A p \in Requests : Reconciles(w[p]) => p = q
      BY DEF Freely
    <3>2. ~scanning /\ t.teleop = "on" /\ t.episode = None => Kept \subseteq c.eps
      BY <2>6 DEF Listed
    <3>3. StartEpisode(q, c, r, t, scanning)
      BY <2>6 DEF Handles
    <3> QED BY <2>1, <3>1, <3>2, <3>3, StartEpisodeFit
  <2>7. CASE kind = "stop"
    BY <2>1, <2>7, StopEpisodeFit DEF Handles
  <2>8. CASE kind = "upload"
    <3>1. (\A p \in Requests : Reconciles(w[p]) => p = q) \/ sd = "up"
      BY DEF Freely
    <3>2. Upload(q, c, r, t)
      BY <2>8 DEF Handles
    <3> QED BY <2>1, <3>1, <3>2, UploadFit
  <2> QED BY <2>2, <2>3, <2>4, <2>5, <2>6, <2>7, <2>8
<1> QED BY <1>1, <1>2

\* A turn that has marked an interrupted upload goes on as any other.
LEMMA InterruptedTurn ==
    ASSUME NEW r, NEW t, NEW w, NEW q, NEW kind, NEW c, q \in Requests, kind \in Kinds,
           Turned(r, t, w, q, kind, c), Stale(c), Among(w, q, c, r)
    PROVE  LET i == Interrupted(c)
               v == [w EXCEPT ![q] = At("merge", kind, i, {})]
           IN /\ Turned(Stored(r, c, i), t, v, q, kind, i)
              /\ ~Stale(i) /\ i.eps = c.eps
              /\ \A p \in Requests : Reconciles(v[p]) = Reconciles(w[p])
              /\ c = r => i = Stored(r, c, i)
<1> DEFINE i == Interrupted(c)
           a == At("merge", kind, i, {})
           v == [w EXCEPT ![q] = a]
           n == Stored(r, c, i)
<1>1. /\ Fit(r, t, w) /\ Turn(w, q, kind, c) /\ w \in [Requests -> Waiting]
      /\ \A x : [w EXCEPT ![q] = x] = [req EXCEPT ![q] = x]
      /\ r \in Rows /\ c \in Rows /\ w[q].at = "merge"
  BY DEF Turned, Turn, At, Fit, Typed, Waiting
<1>2. Fit(n, t, v)
  BY <1>1, InterruptedFit
<1>3. i.eps = c.eps /\ i.status = "failed" /\ i \in Rows
  BY <1>1, RowsChanged DEF Interrupted, Rows
<1>4. c = r => i = n
  BY <1>3 DEF Stored, Meta, Rows
<1>5. a.at = "merge"
  BY DEF At
<1> HIDE DEF i, a, n
<1>6. v[q] = a /\ \A p \in Requests : p # q => v[p] = w[p]
  BY <1>1
<1>7. \A x : [v EXCEPT ![q] = x] = [w EXCEPT ![q] = x]
  BY <1>1
<1>8. Turned(n, t, v, q, kind, i)
  BY <1>1, <1>2, <1>6, <1>7 DEF Turned, Turn, a
<1>9. \A p \in Requests : Reconciles(v[p]) = Reconciles(w[p])
  BY <1>1, <1>5, <1>6 DEF Reconciles
<1> QED BY <1>3, <1>4, <1>8, <1>9 DEF Stale, i, a, n, v

\* A turn keeps the agreement, whether or not it marks an interrupted upload first.
LEMMA ServesFit ==
    ASSUME OneOperator, NEW r, NEW t, NEW w, NEW q, NEW kind, NEW c, NEW scanning,
           scanning \in BOOLEAN, q \in Requests, kind \in Kinds,
           Turned(r, t, w, q, kind, c), faults \in Nat, UNCHANGED process,
           kind # "state" => QuietSound(t),
           Freely(w, q, c, r, scanning), kind # "state" => Listed(t, c, scanning),
           Serves(q, kind, c, r, t, scanning)
    PROVE  Fit(row, rt, req)' /\ QuietSound(rt)'
<1> DEFINE i == Interrupted(c)
           v == [w EXCEPT ![q] = At("merge", kind, i, {})]
           n == Stored(r, c, i)
<1>1. CASE ~Stale(c) \/ kind \in {"teleopStop", "stop"}
  <2>1. Handles(q, kind, c, r, t, scanning)
    BY <1>1 DEF Serves
  <2>2. kind = "state" => ~Stale(c)
    BY <1>1
  <2> QED BY <2>1, <2>2, HandlesFit
<1>2. CASE Stale(c) /\ kind \notin {"teleopStop", "stop"}
  <2>1. Among(w, q, c, r)
    BY DEF Freely, Among
  <2>2. /\ Turned(n, t, v, q, kind, i)
        /\ ~Stale(i) /\ i.eps = c.eps
        /\ \A p \in Requests : Reconciles(v[p]) = Reconciles(w[p])
        /\ c = r => i = n
    BY <1>2, <2>1, InterruptedTurn
  <2> HIDE DEF i, v, n
  <2>3. CASE CommitFails(r, c, i) /\ rt' = t /\ Ends(q) /\ UNCHANGED <<disk, remote>>
    <3>1. Elsewhere /\ faults' # 0
      <4>1. Fault /\ dir \in Directories
        BY <2>3 DEF CommitFails, Turned, Fit, Typed
      <4> QED BY <2>3, <4>1, StillElsewhere DEF Fault
    <3>2. row' = r \/ row' = n
      BY <2>3 DEF CommitFails, n
    <3>3. Fit(row, rt, req)'
      BY <2>2, <2>3, <3>1, <3>2, EndsFit
    <3> QED BY <3>1, <3>3 DEF QuietSound
  <2>4. CASE Handles(q, kind, i, n, t, scanning)
    <3>1. Freely(v, q, i, n, scanning)
      BY <2>2 DEF Freely
    <3>2. kind # "state" => Listed(t, i, scanning)
      BY <2>2 DEF Listed
    <3> QED BY <2>2, <2>4, <3>1, <3>2, HandlesFit
  <2> QED BY <1>2, <2>3, <2>4 DEF Serves, i, n
<1> QED BY <1>1, <1>2

-----------------------------------------------------------------------------
(* One turn at a time *)

\* A turn ends: the directories are free for the next, and a page has changed nothing that
\* the operator's request, if it still merges, has found.
TurnEnds(q, t) ==
    /\ ~Holds(req'[q]) /\ \A p \in Requests : p # q => req'[p] = req[p]
    /\ q \in Operators \/ (rt'.teleop = t.teleop /\ rt'.episode = t.episode /\ dir' = dir)

\* A request that ends holds the directories no more.
LEMMA EndedTurn ==
    ASSUME NEW q, q \in Requests, req \in [Requests -> Waiting], Ends(q)
    PROVE  ~Holds(req'[q]) /\ \A p \in Requests : p # q => req'[p] = req[p]
BY NothingAsked DEF Ends, Holds

\* Nor does one that goes on to wait for the arms or the recorder.
LEMMA GoneTurn ==
    ASSUME NEW q, q \in Requests, req \in [Requests -> Waiting], NEW at, NEW c, NEW E,
           at \in {"stopping", "closing"}, Goes(q, at, "none", c, E)
    PROVE  ~Holds(req'[q]) /\ \A p \in Requests : p # q => req'[p] = req[p]
BY DEF Goes, Holds, At

\* A handler ends its turn, and a page's leaves the motion and the files alone.
LEMMA HandlesTurn ==
    ASSUME NEW r, NEW t, NEW w, NEW q, NEW kind, NEW c, NEW scanning,
           q \in Requests, kind \in Kinds, req \in [Requests -> Waiting],
           Turned(r, t, w, q, kind, c), Handles(q, kind, c, r, t, scanning)
    PROVE  TurnEnds(q, t)
<1>1. kind # "state" => q \in Operators
  BY DEF Turned, Turn, At, Fit, PlacesSound, Operators, Reconciles
<1>2. t \in Runtimes /\ c \in Rows
  BY DEF Turned, Turn, At, Fit, Typed, Waiting
<1>3. CASE kind = "state"
  <2>1. ShowState(q, c, r, t)
    BY <1>3 DEF Handles
  <2>2. rt' = Ensured(t, c) /\ Ends(q) /\ dir' = dir
    BY <2>1 DEF ShowState, disk
  <2>3. rt'.teleop = t.teleop /\ rt'.episode = t.episode
    BY <1>2, <2>2, EnsuredSays DEF SameWork
  <2> QED BY <2>2, <2>3, EndedTurn DEF TurnEnds
<1>4. CASE kind # "state"
  <2>1. CASE Ends(q)
    BY <1>1, <1>4, <2>1, EndedTurn DEF TurnEnds
  <2>2. ASSUME NEW at, NEW E, at \in {"stopping", "closing"}, Goes(q, at, "none", c, E)
        PROVE  TurnEnds(q, t)
    BY <1>1, <1>4, <2>2, GoneTurn DEF TurnEnds
  <2>3. CASE Becomes(q, Sending(c))
    <3>1. ~Holds(Sending(c))
      BY DEF Holds, Sending, At
    <3>2. req'[q] = Sending(c) /\ \A p \in Requests : p # q => req'[p] = req[p]
      BY <2>3 DEF Becomes
    <3> QED BY <1>1, <1>4, <3>1, <3>2 DEF TurnEnds
  <2>4. kind \in {"look", "teleopStart", "teleopStop", "start", "stop", "upload"}
    BY <1>4 DEF Kinds
  <2>5. CASE kind \in {"look", "teleopStart", "start"}
    <3>1. Ends(q)
      BY <2>5 DEF Handles, LookUp, TeleopStarts, StartEpisode, Refuse
    <3> QED BY <2>1, <3>1
  <2>6. CASE kind = "teleopStop"
    <3>1. Ends(q) \/ Goes(q, "stopping", "none", c, {})
      BY <2>6 DEF Handles, TeleopStops, Refuse
    <3> QED BY <2>1, <2>2, <3>1
  <2>7. CASE kind = "stop"
    <3>1. Ends(q) \/ Goes(q, "closing", "none", c, {Ensured(t, c).episode})
      BY <2>7 DEF Handles, StopEpisode, Refuse
    <3> QED BY <2>1, <2>2, <3>1
  <2>8. CASE kind = "upload"
    <3>1. Ends(q) \/ Becomes(q, Sending(c))
      BY <2>8 DEF Handles, Upload, Refuse, Becomes, Sending, Intent
    <3> QED BY <2>1, <2>3, <3>1
  <2> QED BY <2>4, <2>5, <2>6, <2>7, <2>8
<1> QED BY <1>3, <1>4

\* So does a handler that marks an interrupted upload first.
LEMMA ServesTurn ==
    ASSUME NEW r, NEW t, NEW w, NEW q, NEW kind, NEW c, NEW scanning,
           q \in Requests, kind \in Kinds, req \in [Requests -> Waiting],
           Turned(r, t, w, q, kind, c), Among(w, q, c, r),
           Serves(q, kind, c, r, t, scanning)
    PROVE  TurnEnds(q, t)
<1> DEFINE i == Interrupted(c)
           v == [w EXCEPT ![q] = At("merge", kind, i, {})]
           n == Stored(r, c, i)
<1>1. CASE Handles(q, kind, c, r, t, scanning)
  BY <1>1, HandlesTurn
<1>2. CASE Stale(c) /\ CommitFails(r, c, i) /\ rt' = t /\ Ends(q) /\ UNCHANGED <<disk, remote>>
  BY <1>2, EndedTurn DEF TurnEnds, disk
<1>3. CASE Stale(c) /\ Handles(q, kind, i, n, t, scanning)
  <2>1. Turned(n, t, v, q, kind, i)
    BY <1>3, InterruptedTurn
  <2> HIDE DEF n, v, i
  <2> QED BY <1>3, <2>1, HandlesTurn
<1> QED BY <1>1, <1>2, <1>3 DEF Serves

\* After the end of a turn no more than one request holds the directories.
LEMMA TurnsLeft ==
    ASSUME OneOperator, TurnsSound, NEW q, q \in Requests, TurnEnds(q, rt),
           busy' = TRUE \/ busy' = busy \/ Holds(req[q])
    PROVE  TurnsSound'
<1>1. \A p \in Requests : Holds(req'[p]) => p # q /\ req'[p] = req[p] /\ Holds(req[p])
  BY DEF TurnEnds
<1>2. \A p \in Requests : Holds(req'[p]) => busy'
  BY <1>1 DEF TurnsSound
<1>3. \A p, s \in Requests : Holds(req'[p]) /\ Holds(req'[s]) => p = s
  BY <1>1 DEF TurnsSound
<1>4. ASSUME NEW p, p \in Operators, req'[p].at = "merge", rt'.teleop = "on", rt'.episode = None
      PROVE  Kept' \subseteq req'[p].copy.eps \cup req'[p].eps
  <2>1. Holds(req'[p]) /\ p \in Requests
    BY <1>4 DEF Holds, Operators
  <2>2. p # q /\ req'[p] = req[p]
    BY <1>1, <2>1
  <2>3. q \notin Operators
    BY <1>4, <2>2 DEF OneOperator
  <2>4. Kept' = Kept /\ rt.teleop = "on" /\ rt.episode = None
    BY <1>4, <2>3 DEF TurnEnds, Kept
  <2> QED BY <1>4, <2>2, <2>4 DEF TurnsSound
<1> QED BY <1>2, <1>3, <1>4 DEF TurnsSound

\* Every turn fails at most once.
LEMMA TurnCounts ==
    ASSUME faults \in Nat, NEW q, NEW kind, NEW c, NEW r, NEW t, NEW scanning, kind \in Kinds,
           Serves(q, kind, c, r, t, scanning)
    PROVE  faults' \in Nat
<1>1. Fine \/ Fault => faults' \in Nat
  BY DEF Fine, Fault
<1>2. ASSUME NEW d, NEW s, Handles(q, kind, d, s, t, scanning)
      PROVE  Fine \/ Fault
  <2>1. CASE kind \in {"look", "state", "teleopStart"}
    BY <1>2, <2>1 DEF Handles, LookUp, ShowState, TeleopStarts, Refuse, Commits, CommitFails
  <2>2. CASE kind \in {"teleopStop", "stop"}
    BY <1>2, <2>2 DEF Handles, TeleopStops, StopEpisode, Refuse
  <2>3. CASE kind = "start"
    BY <1>2, <2>3 DEF Handles, StartEpisode, Refuse, Commits, CommitFails
  <2>4. CASE kind = "upload"
    BY <1>2, <2>4 DEF Handles, Upload, Refuse, Commits, CommitFails
  <2> QED BY <2>1, <2>2, <2>3, <2>4 DEF Kinds
<1> QED BY <1>1, <1>2 DEF Serves, CommitFails

\* A request that comes while another reconciles does without.
LEMMA ArrivesBusy ==
    ASSUME OneOperator, FilesInv, NEW q, NEW kind, q \in Requests, kind \in Asks(q),
           busy, Arrive(q, kind)
    PROVE  FilesInv'
<1> DEFINE v == [req EXCEPT ![q] = At("merge", kind, row, {})]
<1>1. /\ sd = "up" /\ req[q].at = "free" /\ busy' = TRUE
      /\ Serves(q, kind, row, row, rt, TRUE) /\ UNCHANGED process
  BY DEF Arrive
<1>2. kind \in Kinds
  BY DEF Asks, Kinds
<1>3. /\ Fit(row, rt, v) /\ req \in [Requests -> Waiting] /\ faults \in Nat /\ QuietSound(rt)
      /\ TurnsSound
  BY <1>1, ArrivesFit DEF FilesInv, Fit, Typed
<1>4. Turned(row, rt, v, q, kind, row)
  <2>1. v[q] = At("merge", kind, row, {})
    BY <1>3
  <2>2. \A x : [v EXCEPT ![q] = x] = [req EXCEPT ![q] = x]
    BY <1>3
  <2> HIDE DEF v
  <2> QED BY <1>3, <2>1, <2>2 DEF Turned, Turn
<1> HIDE DEF v
<1>5. Freely(v, q, row, row, TRUE) /\ Among(v, q, row, row) /\ Listed(rt, row, TRUE)
  BY <1>1 DEF Freely, Among, Listed
<1>6. Fit(row, rt, req)' /\ QuietSound(rt)'
  BY <1>1, <1>2, <1>3, <1>4, <1>5, ServesFit
<1>7. TurnEnds(q, rt)
  BY <1>1, <1>2, <1>3, <1>4, <1>5, ServesTurn
<1>8. TurnsSound'
  BY <1>1, <1>3, <1>7, TurnsLeft
<1>9. faults' \in Nat
  BY <1>1, <1>2, <1>3, TurnCounts
<1> QED BY <1>6, <1>8, <1>9 DEF FilesInv

-----------------------------------------------------------------------------
(* Requests arrive *)

\* A request that finds the directories free scans them, but for those in use.
LEMMA ScansFit ==
    ASSUME OneOperator, Fit(row, rt, req), sd = "up", NEW q, NEW kind, q \in Requests,
           req[q].at = "free", kind \in Asks(q),
           \A p \in Requests : ~Reconciles(req[p])
    PROVE  Fit(row, rt, [req EXCEPT ![q] = At("scan", kind, row, InUse)])
<1> DEFINE a == At("scan", kind, row, InUse)
           v == [req EXCEPT ![q] = a]
<1>0. row \in Rows /\ rt \in Runtimes
  BY DEF Fit, Typed
<1>1. /\ a.at = "scan" /\ a.kind = kind /\ a.copy = row /\ a.eps = InUse /\ Sound(a)
      /\ kind \in Kinds /\ a \in Waiting /\ (q \in Pollers => kind = "state")
  <2>1. kind \in Kinds /\ (q \in Pollers => kind = "state")
    BY DEF Asks, Kinds
  <2>2. InUse \in SUBSET Episodes
    BY <1>0 DEF InUse, Runtimes
  <2> QED BY <1>0, <2>1, <2>2, WaitingAt DEF At, Sound, Places
<1> HIDE DEF a
<1>2. /\ v[q] = a /\ \A p \in Requests : p # q => v[p] = req[p]
      /\ v \in [Requests -> Waiting] /\ \A p \in Requests : Sound(v[p])
  BY <1>0, <1>1 DEF Fit, Typed
<1> HIDE DEF v
<1>3. AtWork(rt, v) = AtWork(rt, req) /\ \A e : Flying(v, e) = Flying(req, e) /\ Settles(v, e) = Settles(req, e)
  BY <1>1, <1>2 DEF AtWork, Flies, Flying, Settles
<1>4. /\ \A p \in Requests : Uploads(v[p]) = Uploads(req[p]) /\ (Uploads(v[p]) => v[p] = req[p])
      /\ \A p \in Requests : Sends(v[p]) = Sends(req[p]) /\ (Sends(v[p]) => v[p] = req[p])
      /\ \A p \in Requests : Flies(v[p]) = Flies(req[p]) /\ (Flies(v[p]) => v[p] = req[p])
      /\ \A p \in Requests : Reconciles(v[p]) => p = q
      /\ Reconciles(v[q])
  BY <1>1, <1>2 DEF Uploads, Sends, Flies, Reconciles
<1>5. Typed(row, rt, v)
  BY <1>0, <1>2 DEF Fit, Typed
<1>6. PlacesSound(rt, v)
  BY <1>1, <1>2, <1>4, RecordingBounds DEF Fit, PlacesSound
<1>7. MotionSound(rt, v)
  BY <1>1, <1>2, <1>4 DEF Fit, MotionSound
<1>8. StatusSound(row, rt, v)
  BY <1>1, <1>2, <1>3, <1>4 DEF Fit, StatusSound, Operators
<1>9. KeptSound(row, rt, v)
  BY <1>1, <1>2, <1>3 DEF Fit, KeptSound
<1>10. CopiesSound(row, rt, v)
  <2>1. ScanSound(row, rt, v, a)
    <3>1. \A p \in Requests : Flies(req[p]) => req[p].eps \subseteq InUse
      <4>1. SUFFICES ASSUME NEW p \in Requests, Flies(req[p]) PROVE req[p].eps \subseteq InUse
        OBVIOUS
      <4>2. rt.final \in req[p].eps /\ \E e \in Episodes : req[p].eps = {e}
        BY <4>1 DEF Fit, MotionSound, Typed, Sound, Flies
      <4> QED BY <4>2, EpisodesAreNumbers DEF InUse
    <3>2. InUse # {} => AtWork(rt, req)
      BY DEF InUse, AtWork
    <3>3. AtWork(rt, req) => row.status \notin Bad /\ Kept \subseteq row.eps \cup InUse
      BY <3>1 DEF Fit, StatusSound, KeptSound, Flying
    <3>4. {rt.episode, rt.final} \ {None} \subseteq InUse
      BY DEF InUse
    <3> QED BY <1>1, <1>4, <3>1, <3>2, <3>3, <3>4 DEF ScanSound
  <2>2. \A p \in Requests : v[p].at = "scan" => ScanSound(row, rt, v, v[p])
    BY <1>2, <1>4, <2>1 DEF Reconciles
  <2>3. \A p \in Requests : v[p].at # "merge"
    BY <1>1, <1>2, <1>4 DEF Reconciles
  <2>4. adrift = {} => row.count = Cardinality(row.eps)
    BY DEF Fit, ListSound
  <2>5. \A p \in Operators : v[p].at = "scan" => v[p].eps = {rt.episode, rt.final} \ {None}
    BY <1>1, <1>2, <1>4 DEF Reconciles, InUse, Operators
  <2> QED BY <1>1, <1>2, <1>4, <2>2, <2>3, <2>4, <2>5 DEF Fit, CopiesSound, Operators
<1>11. UploadedSound(row, rt, v)
  BY <1>1, <1>2, <1>4 DEF Fit, UploadedSound, SaysUploaded
<1>12. ListSound(row, rt, v)
  <2>1. Remote(row, req) => Remote(row, v)
    BY <1>1, <1>2, <1>4 DEF Remote
  <2>2. Over(row, rt, req) => Over(row, rt, v)
    BY <1>1, <1>2, <1>4 DEF Over
  <2>3. \A p \in Requests : v[p].at \in {"closing", "naming", "settled", "send", "sent", "cleaning", "create", "collided"} =>
            v[p] = req[p]
    BY <1>1, <1>2
  <2> QED BY <1>4, <2>1, <2>2, <2>3 DEF Fit, ListSound
<1>13. TargetSound(row, rt, v)
  <2>1. \A p \in Requests : v[p].at \in {"convert", "look", "collided"} => v[p] = req[p]
    BY <1>1, <1>2
  <2>2. TargetSound(row, rt, req)
    BY DEF Fit
  <2>3. adrift = {} /\ faults = 0 /\ rt.teleop = "closing" => FALSE
    BY <2>2 DEF TargetSound
  <2> QED BY <1>1, <1>2, <1>4, <2>1, <2>2, <2>3 DEF TargetSound, Operators
<1> QED BY <1>5, <1>6, <1>7, <1>8, <1>9, <1>10, <1>11, <1>12, <1>13 DEF Fit, v, a

\* A request arrives, and is answered or waits for the directories: the invariant holds.
LEMMA ArriveFiles ==
    ASSUME OneOperator, FilesInv, NEW q, NEW kind, q \in Requests, kind \in Asks(q),
           Arrive(q, kind)
    PROVE  FilesInv'
<1>1. CASE busy
  BY <1>1, ArrivesBusy
<1>2. CASE ~busy
  <2> DEFINE v == [req EXCEPT ![q] = At("scan", kind, row, InUse)]
  <2>1. /\ sd = "up" /\ req[q].at = "free" /\ busy' = TRUE /\ req' = v
        /\ UNCHANGED <<row, dir, dropping, rt, remote, faults, process>>
    BY <1>2 DEF Arrive, Goes
  <2>2. /\ Fit(row, rt, req) /\ faults \in Nat /\ QuietSound(rt) /\ TurnsSound
        /\ req \in [Requests -> Waiting] /\ dir \in Directories
    BY DEF FilesInv, Fit, Typed
  <2>3. \A p \in Requests : ~Holds(req[p]) /\ ~Reconciles(req[p])
    BY <1>2, <2>2 DEF TurnsSound, Holds, Reconciles
  <2>4. Fit(row, rt, v)
    BY <2>1, <2>2, <2>3, ScansFit
  <2>5. /\ v[q].at = "scan" /\ \A p \in Requests : p # q => v[p] = req[p]
    BY <2>2 DEF At
  <2> HIDE DEF v
  <2>6. Elsewhere
    BY <2>1, <2>2 DEF Elsewhere, Kept, remote, process
  <2>7. Fit(row, rt, req)'
    BY <2>1, <2>4, <2>6, NowFit
  <2>8. TurnsSound'
    <3>1. \A p \in Requests : Holds(v[p]) => p = q
      BY <2>3, <2>5
    <3>2. \A p \in Operators : v[p].at # "merge"
      BY <2>3, <2>5 DEF Holds, Operators
    <3> QED BY <2>1, <3>1, <3>2 DEF TurnsSound
  <2>9. QuietSound(rt)'
    BY <2>1, <2>2 DEF QuietSound, process
  <2> QED BY <2>1, <2>2, <2>7, <2>8, <2>9 DEF FilesInv
<1> QED BY <1>1, <1>2

-----------------------------------------------------------------------------
(* Merging what a scan found *)

\* The runtime, before and after it has read what a merge found.
Rereads(t, n) ==
    /\ t \in Runtimes /\ t.teleop = rt.teleop /\ t.episode = rt.episode /\ t.task = rt.task
    /\ t.final = rt.final \/ (t.final = None /\ ~rt.task)
    /\ t.err = rt.err \/ t.err = "none"
    /\ \/ t.status = rt.status
       \/ t.status = n.status /\ t.teleop # "on" /\ t.episode = None /\ t.err = "none"

\* Both outcomes of the refresh reread the row a merge wrote.
LEMMA RereadsEither ==
    ASSUME NEW n, n \in Rows, rt \in Runtimes
    PROVE  Rereads(rt, n) /\ Rereads(Refreshed(rt, n), n)
<1>1. Rereads(rt, n)
  BY DEF Rereads
<1> DEFINE t == Refreshed(rt, n)
<1>2. /\ t \in Runtimes /\ t.teleop = rt.teleop /\ t.episode = rt.episode /\ t.task = rt.task
      /\ t.final = rt.final \/ (t.final = None /\ ~rt.task)
      /\ t.err = rt.err \/ t.err = "none"
  BY DEF Refreshed, Runtimes, Rows
<1>3. \/ t.status = rt.status
      \/ t.status = n.status /\ t.teleop # "on" /\ t.episode = None /\ t.err = "none"
  BY DEF Refreshed, Runtimes, Rows
<1> QED BY <1>1, <1>2, <1>3 DEF Rereads

\* What a merge finds, and what of it gets onto the row.
Merges(r, c, found, n, s) ==
    /\ n \in Rows /\ s \in Rows
    /\ n.eps = c.eps \cup found /\ n.upload = c.upload /\ HasTarget(n) = HasTarget(c)
    /\ n.count = Cardinality(n.eps)
    /\ n.status \in {c.status, "ready"}
    /\ s.status = IF n.status = c.status THEN r.status ELSE n.status
    /\ s.count = IF n.count = c.count THEN r.count ELSE n.count
    /\ found \subseteq c.eps => s.eps = r.eps /\ HasTarget(s) = HasTarget(r) /\ n.eps = c.eps
    /\ ~(found \subseteq c.eps) => s.eps = n.eps /\ HasTarget(s) = HasTarget(c)
    /\ adrift = {} /\ found \subseteq c.eps => n = c /\ s = r

\* What _merge_recovered_episodes makes of a row is what a merge finds.
LEMMA MergedRow ==
    ASSUME NEW r, NEW c, NEW found, r \in Rows, c \in Rows, found \in SUBSET Episodes,
           adrift = {} => c.count = Cardinality(c.eps)
    PROVE  Merges(r, c, found, Merged(c, found), Stored(r, c, Merged(c, found)))
<1> DEFINE n == Merged(c, found)
           s == Stored(r, c, n)
<1>1. n \in Rows /\ s \in Rows
  BY RowsChanged, RowsStored
<1>2. /\ n.eps = c.eps \cup found /\ n.upload = c.upload
      /\ n.count = Cardinality(n.eps)
  BY DEF Merged, Rows
<1>3. n.status \in {c.status, "ready"} /\ (found \subseteq c.eps => n.status = c.status)
  BY DEF Merged, Rows
<1> HIDE DEF n
<1>4. HasTarget(n) = HasTarget(c)
  BY <1>2 DEF HasTarget
<1>5. /\ s.status = IF n.status = c.status THEN r.status ELSE n.status
      /\ s.count = IF n.count = c.count THEN r.count ELSE n.count
  BY DEF Stored
<1>6. found \subseteq c.eps => n.eps = c.eps
  BY <1>2
<1>7. /\ found \subseteq c.eps => s.eps = r.eps /\ s.upload = r.upload
      /\ ~(found \subseteq c.eps) => s.eps = n.eps /\ s.upload = n.upload
  BY <1>2, <1>6 DEF Stored, Meta
<1>8. /\ found \subseteq c.eps => HasTarget(s) = HasTarget(r)
      /\ ~(found \subseteq c.eps) => HasTarget(s) = HasTarget(n)
  BY <1>7 DEF HasTarget
<1>9. adrift = {} /\ found \subseteq c.eps => n = c /\ s = r
  <2>1. SUFFICES ASSUME adrift = {}, found \subseteq c.eps PROVE n = c /\ s = r
    OBVIOUS
  <2>2. n.status = c.status /\ n.eps = c.eps /\ n.upload = c.upload /\ n.count = c.count
    BY <1>2, <1>3, <1>6, <2>1
  <2>3. n = c
    BY <1>1, <2>2 DEF Rows
  <2>4. s.status = r.status /\ s.count = r.count /\ s.eps = r.eps /\ s.upload = r.upload
    BY <1>5, <1>7, <2>1, <2>2
  <2>5. s = r
    BY <1>1, <2>4 DEF Rows
  <2> QED BY <2>3, <2>5
<1> QED BY <1>1, <1>2, <1>3, <1>4, <1>5, <1>6, <1>7, <1>8, <1>9 DEF Merges, n

\* A merge keeps row, runtime and requests in agreement, reread or not.
LEMMA MergedFit ==
    ASSUME OneOperator, Fit(row, rt, req), TurnsSound, NEW q, q \in Requests, req[q].at = "merge",
           NEW n, n = Merged(req[q].copy, req[q].eps), NEW t, Rereads(t, n)
    PROVE  Fit(Stored(row, req[q].copy, n), t, [req EXCEPT ![q] = At("merge", req[q].kind, n, {})])
<1> DEFINE c == req[q].copy
           found == req[q].eps
           a == At("merge", req[q].kind, n, {})
           v == [req EXCEPT ![q] = a]
           r == Stored(row, c, n)
<1>1. /\ row \in Rows /\ c \in Rows /\ found \in SUBSET Episodes /\ req[q].kind \in Kinds
      /\ req \in [Requests -> Waiting] /\ Reconciles(req[q]) /\ rt \in Runtimes /\ t \in Runtimes
      /\ adrift = {} => c.count = Cardinality(c.eps)
  BY DEF Fit, Typed, Waiting, Reconciles, Sound, CopiesSound, Rereads
<1>2. /\ found \subseteq Kept \cup adrift
      /\ c.eps \subseteq row.eps \cup adrift
      /\ found \subseteq c.eps \cup adrift
      /\ ~(found \subseteq c.eps) => row.eps \subseteq c.eps /\ ~AtWork(rt, req)
      /\ c.status \in Bad => row.eps \subseteq c.eps
  BY DEF Fit, CopiesSound, MergeSound
<1> HIDE DEF c, found
<1>3. /\ n \in Rows /\ r \in Rows
      /\ n.eps = c.eps \cup found /\ HasTarget(n) = HasTarget(c)
      /\ n.count = Cardinality(n.eps)
      /\ n.status \in {c.status, "ready"}
      /\ r.status = IF n.status = c.status THEN row.status ELSE n.status
      /\ r.count = IF n.count = c.count THEN row.count ELSE n.count
      /\ found \subseteq c.eps => r.eps = row.eps /\ HasTarget(r) = HasTarget(row) /\ n.eps = c.eps
      /\ ~(found \subseteq c.eps) => r.eps = n.eps /\ HasTarget(r) = HasTarget(c)
      /\ adrift = {} /\ found \subseteq c.eps => n = c /\ r = row
  <2>1. n = Merged(c, found)
    BY DEF c, found
  <2>2. Merges(row, c, found, n, r)
    BY <1>1, <2>1, MergedRow
  <2> QED BY <2>2 DEF Merges
<1> HIDE DEF r
<1>4. row.eps \subseteq r.eps /\ r.eps \subseteq row.eps \cup adrift
  BY <1>2, <1>3
<1>5. adrift = {} => n = c /\ r = row
  BY <1>2, <1>3
<1>6. /\ a.at = "merge" /\ a.kind = req[q].kind /\ a.copy = n /\ a.eps = {} /\ Sound(a) /\ a \in Waiting
  BY <1>1, <1>3, WaitingAt DEF At, Sound, Places
<1> HIDE DEF a
<1>7. /\ v[q] = a /\ \A p \in Requests : p # q => v[p] = req[p]
      /\ v \in [Requests -> Waiting] /\ \A p \in Requests : Sound(v[p])
  BY <1>1, <1>6 DEF Fit, Typed
<1> HIDE DEF v
<1>8. /\ \A p \in Requests : Uploads(v[p]) = Uploads(req[p]) /\ (Uploads(v[p]) => v[p] = req[p])
      /\ \A p \in Requests : Sends(v[p]) = Sends(req[p]) /\ (Sends(v[p]) => v[p] = req[p])
      /\ \A p \in Requests : Flies(v[p]) = Flies(req[p]) /\ (Flies(v[p]) => v[p] = req[p])
      /\ \A p \in Requests : Reconciles(v[p]) => p = q
      /\ Reconciles(v[q])
      /\ \A p \in Requests : p # q => ~Holds(req[p])
      /\ \A p \in Requests : v[p] = req[p] \/ (p = q /\ v[p] = a)
  <2>1. \A p \in Requests : p # q => ~Holds(req[p])
    BY DEF TurnsSound, Holds
  <2> QED BY <1>1, <1>6, <1>7, <2>1 DEF Uploads, Sends, Flies, Reconciles, Holds
<1>9. /\ t.teleop = rt.teleop /\ t.episode = rt.episode /\ t.task = rt.task
      /\ t.final = rt.final \/ (t.final = None /\ ~rt.task)
      /\ t.err = rt.err \/ t.err = "none"
      /\ \/ t.status = rt.status
         \/ t.status = n.status /\ t.teleop # "on" /\ t.episode = None /\ t.err = "none"
  BY DEF Rereads
<1>10. /\ AtWork(t, v) => AtWork(rt, req)
       /\ \A e : Flying(v, e) = Flying(req, e) /\ Settles(v, e) = Settles(req, e)
  BY <1>6, <1>7, <1>8, <1>9 DEF AtWork, Flying, Settles
<1>11. Typed(r, t, v)
  BY <1>1, <1>3, <1>7 DEF Fit, Typed
<1>12. PlacesSound(t, v)
  BY <1>1, <1>6, <1>7, <1>8, <1>9, RecordingBounds DEF Fit, PlacesSound
<1>13. MotionSound(t, v)
  <2>1. MotionSound(rt, req)
    BY DEF Fit
  <2>2. t.final # None => t.final = rt.final
    BY <1>9
  <2>3. \A p \in Requests : req[p].at = "confirm" => v[p] = req[p]
    BY <1>7
  <2>4. t.final # None => \E p \in Requests : \/ Flies(v[p]) /\ v[p].eps = {t.final}
                                              \/ v[p].at = "confirm"
    BY <1>8, <2>1, <2>2, <2>3 DEF MotionSound
  <2>5. \A p \in Requests : Flies(v[p]) =>
           t.episode = None /\ (sd # "down" => t.final \in v[p].eps /\ t.task)
    BY <1>8, <1>9, <2>1 DEF MotionSound
  <2> QED BY <2>4, <2>5 DEF MotionSound
<1>14. StatusSound(r, t, v)
  <2>1. t.teleop = "on" \/ AtWork(t, v) => t.status \notin Bad
    BY <1>1, <1>3, <1>9, <1>10 DEF Fit, StatusSound, Bad, c
  <2>2. AtWork(t, v) => /\ r.status \notin Bad
                        /\ \A p \in Requests : Reconciles(v[p]) => v[p].copy.status \notin Bad
    BY <1>1, <1>3, <1>6, <1>7, <1>8, <1>10 DEF Fit, StatusSound, Bad, c
  <2>3. \A p \in Operators : Reconciles(v[p]) /\ t.teleop = "on" /\ r.status \in Bad =>
           r.status = v[p].copy.status
    BY <1>1, <1>3, <1>6, <1>7, <1>8, <1>9 DEF Fit, StatusSound, Bad, Operators, c
  <2>4. \A p \in Requests : v[p].at = "confirm" => v[p].copy.status \notin Bad
    BY <1>6, <1>8 DEF Fit, StatusSound
  <2> QED BY <2>1, <2>2, <2>3, <2>4 DEF StatusSound
<1>15. KeptSound(r, t, v)
  BY <1>4, <1>6, <1>8, <1>10 DEF Fit, KeptSound
<1>16. CopiesSound(r, t, v)
  <2>1. \A p \in Requests : v[p].at # "scan"
    BY <1>6, <1>7, <1>8 DEF Holds
  <2>2. \A p \in Requests : v[p].at = "merge" => MergeSound(r, t, v, v[p])
    <3>1. MergeSound(r, t, v, a)
      BY <1>2, <1>3, <1>4, <1>6 DEF MergeSound, Bad
    <3> QED BY <1>7, <1>8, <3>1 DEF Reconciles
  <2>3. \A p \in Operators : Reconciles(v[p]) =>
           /\ r.eps = v[p].copy.eps /\ r.count = v[p].copy.count
           /\ HasTarget(r) = HasTarget(v[p].copy)
    <3>1. q \in Operators => row.eps = c.eps /\ row.count = c.count /\ HasTarget(row) = HasTarget(c)
      BY <1>1 DEF Fit, CopiesSound, c
    <3>2. q \in Operators => r.eps = n.eps /\ r.count = n.count /\ HasTarget(r) = HasTarget(n)
      BY <1>3, <3>1
    <3> QED BY <1>6, <1>7, <1>8, <3>2 DEF Operators
  <2>4. \A p \in Requests : Flies(v[p]) =>
           /\ r.eps = v[p].copy.eps /\ HasTarget(r) = HasTarget(v[p].copy)
           /\ adrift = {} => r.count = v[p].copy.count
    <3>1. SUFFICES ASSUME NEW p \in Requests, Flies(v[p])
                   PROVE  /\ r.eps = v[p].copy.eps /\ HasTarget(r) = HasTarget(v[p].copy)
                          /\ adrift = {} => r.count = v[p].copy.count
      OBVIOUS
    <3>2. v[p] = req[p] /\ AtWork(rt, req) /\ Flies(req[p])
      BY <1>8, <3>1 DEF AtWork
    <3> QED BY <1>2, <1>3, <1>5, <3>2 DEF Fit, CopiesSound
  <2>5. \A p \in Requests : Sends(v[p]) =>
           v[p].copy.eps \subseteq r.eps /\ r.eps \subseteq v[p].copy.eps \cup adrift
    BY <1>4, <1>8 DEF Fit, CopiesSound
  <2>6. adrift = {} => \A p \in Requests : Reconciles(v[p]) \/ Flies(v[p]) =>
           v[p].copy.count = Cardinality(v[p].copy.eps)
    BY <1>3, <1>6, <1>7, <1>8 DEF Fit, CopiesSound
  <2> QED BY <2>1, <2>2, <2>3, <2>4, <2>5, <2>6 DEF CopiesSound, Operators
<1>17. UploadedSound(r, t, v)
  <2>1. SaysUploaded(r, t, v) => SaysUploaded(row, rt, req)
    BY <1>1, <1>3, <1>6, <1>7, <1>8, <1>9 DEF SaysUploaded, c
  <2> QED BY <1>4, <2>1 DEF Fit, UploadedSound
<1>18. ListSound(r, t, v)
  <2>1. SUFFICES ASSUME adrift = {} PROVE ListSound(row, t, v)
    BY <1>5 DEF ListSound
  <2>2. \A p \in Requests : Reconciles(v[p]) => Reconciles(req[p]) /\ v[p].copy = req[p].copy
    BY <1>1, <1>5, <1>6, <1>7, <1>8, <2>1 DEF c
  <2>3. Remote(row, req) => Remote(row, v)
    BY <1>8, <2>2 DEF Remote
  <2>4. Over(row, rt, req) => Over(row, t, v)
    BY <1>7, <1>8, <1>9, <2>2 DEF Over
  <2>5. \A p \in Requests : v[p].at \in {"closing", "naming", "settled", "send", "sent", "cleaning", "create", "collided"} =>
            v[p] = req[p]
    BY <1>6, <1>8
  <2> QED BY <1>8, <1>9, <2>3, <2>4, <2>5 DEF Fit, ListSound
<1>19. TargetSound(r, t, v)
  <2>1. SUFFICES ASSUME adrift = {} PROVE TargetSound(row, t, v)
    BY <1>5 DEF TargetSound
  <2>2. \A p \in Requests : Reconciles(v[p]) => Reconciles(req[p]) /\ v[p].copy = req[p].copy
    BY <1>1, <1>5, <1>6, <1>7, <1>8, <2>1 DEF c
  <2>3. \A p \in Requests : v[p].at \in {"convert", "look", "collided"} => v[p] = req[p]
    BY <1>6, <1>8
  <2>4. TargetSound(row, rt, req)
    BY DEF Fit
  <2>5. faults <= 1 => (t.status = "uploading" => t.err = "none")
    BY <1>9, <2>1, <2>4 DEF TargetSound
  <2> QED BY <1>9, <2>1, <2>2, <2>3, <2>4, <2>5, RecordingBounds DEF TargetSound, Operators
<1> QED BY <1>11, <1>12, <1>13, <1>14, <1>15, <1>16, <1>17, <1>18, <1>19 DEF Fit, v, a, r, c

\* A merge, and the handler after it, keep the invariant.
LEMMA MergeFiles ==
    ASSUME OneOperator, FilesInv, NEW q, q \in Requests, Merge(q)
    PROVE  FilesInv'
<1> DEFINE c == req[q].copy
           kind == req[q].kind
           n == Merged(c, req[q].eps)
           r == Stored(row, c, n)
           v == [req EXCEPT ![q] = At("merge", kind, n, {})]
           u == Refreshed(rt, n)
<1>1. /\ Fit(row, rt, req) /\ TurnsSound /\ QuietSound(rt) /\ faults \in Nat
      /\ req[q].at = "merge" /\ rt \in Runtimes /\ c \in Rows /\ req \in [Requests -> Waiting]
      /\ kind \in Kinds /\ dir \in Directories /\ UNCHANGED process /\ busy' = FALSE
      /\ req[q].eps \in SUBSET Episodes /\ Reconciles(req[q]) /\ row \in Rows
  BY DEF FilesInv, Fit, Typed, Waiting, Merge, Sound, Reconciles
<1>2. n \in Rows /\ n.eps = c.eps \cup req[q].eps
  BY <1>1, RowsChanged DEF Merged, Rows
<1>3. Rereads(rt, n) /\ Rereads(u, n)
  BY <1>1, <1>2, RereadsEither
<1>4. \A t : Rereads(t, n) => Turned(r, t, v, q, kind, n)
  <2>1. SUFFICES ASSUME NEW t, Rereads(t, n) PROVE Turned(r, t, v, q, kind, n)
    OBVIOUS
  <2>2. Fit(r, t, v)
    BY <1>1, <2>1, MergedFit
  <2>3. v[q] = At("merge", kind, n, {}) /\ \A x : [v EXCEPT ![q] = x] = [req EXCEPT ![q] = x]
    BY <1>1
  <2> HIDE DEF v, n, kind, r
  <2> QED BY <2>2, <2>3 DEF Turned, Turn
<1>5. \A p \in Requests : Reconciles(v[p]) => p = q
  <2>1. \A p \in Requests : p # q => v[p] = req[p]
    BY <1>1
  <2> HIDE DEF v
  <2> QED BY <1>1, <2>1 DEF TurnsSound, Holds, Reconciles
<1>6. kind # "state" => q \in Operators
  BY <1>1 DEF Fit, PlacesSound, Operators
<1>7. q \in Operators => QuietSound(u)
  <2>1. SUFFICES ASSUME q \in Operators, adrift = {}, faults = 0, u.teleop = "closing", u.status = "uploading"
                 PROVE  FALSE
    BY DEF QuietSound
  <2>2. u.status = n.status /\ rt.teleop = "closing"
    BY <1>1, <1>3, <2>1 DEF Rereads, QuietSound
  <2>3. n.status \in {c.status, "ready"}
    BY <1>1 DEF Merged, Rows
  <2>4. c.status # "uploading"
    BY <1>1, <2>1, <2>2 DEF Fit, TargetSound
  <2> QED BY <2>1, <2>2, <2>3, <2>4
<1>8. q \in Operators /\ u.teleop = "on" /\ u.episode = None => Kept \subseteq n.eps
  BY <1>1, <1>2, <1>3 DEF TurnsSound, Rereads
<1>9. Holds(req[q])
  BY <1>1 DEF Holds
<1> HIDE DEF v, u, n, r, kind
<1>10. CASE /\ CommitFails(row, c, n) /\ Ends(q)
            /\ UNCHANGED <<rt, dir, dropping, remote>>
  <2>1. Elsewhere /\ faults' # 0
    <3>1. Fault /\ UNCHANGED disk
      BY <1>10 DEF CommitFails, disk
    <3> QED BY <1>1, <1>10, <3>1, StillElsewhere DEF Fault
  <2>2. CASE row' = row
    <3>1. Fit(row, rt, [req EXCEPT ![q] = Unused])
      BY <1>1, LeavesFit
    <3> QED BY <1>10, <2>1, <2>2, <3>1, NowFit, EndedTurn, TurnsLeft, <1>1, <1>9
        DEF FilesInv, QuietSound, TurnEnds, Ends, Elsewhere
  <2>3. CASE row' = r
    <3>1. Fit(row, rt, req)'
      BY <1>1, <1>3, <1>4, <1>10, <2>1, <2>3, EndsFit
    <3> QED BY <1>10, <2>1, <3>1, EndedTurn, TurnsLeft, <1>1, <1>9
        DEF FilesInv, QuietSound, TurnEnds, Elsewhere
  <2> QED BY <1>10, <2>2, <2>3 DEF CommitFails, r
<1>11. CASE Serves(q, kind, n, r, u, FALSE)
  <2>1. Turned(r, u, v, q, kind, n)
    BY <1>3, <1>4
  <2>2. Freely(v, q, n, r, FALSE) /\ Among(v, q, n, r)
    BY <1>5 DEF Freely, Among
  <2>3. kind # "state" => Listed(u, n, FALSE) /\ QuietSound(u)
    BY <1>6, <1>7, <1>8 DEF Listed
  <2>4. Fit(row, rt, req)' /\ QuietSound(rt)'
    BY <1>1, <1>11, <2>1, <2>2, <2>3, ServesFit
  <2>5. TurnEnds(q, u)
    BY <1>1, <1>11, <2>1, <2>2, ServesTurn
  <2>6. TurnEnds(q, rt)
    BY <1>3, <2>5 DEF TurnEnds, Rereads
  <2>7. TurnsSound'
    BY <1>1, <1>9, <2>6, TurnsLeft
  <2>8. faults' \in Nat
    BY <1>1, <1>11, TurnCounts
  <2> QED BY <2>4, <2>7, <2>8 DEF FilesInv
<1> QED BY <1>10, <1>11 DEF Merge, v, u, n, r, kind

-----------------------------------------------------------------------------
(* A finalization gets on *)

\* A request that is at work is the operator's, and the others wait or reconcile.
Lone(w, q) ==
    /\ q \in Operators /\ q \notin Pollers /\ \A p \in Operators : p = q
    /\ \A p \in Requests : p # q =>
          /\ p \in Pollers /\ w[p].at \in {"free", "scan", "merge"}
          /\ ~Flies(w[p]) /\ ~Sends(w[p]) /\ ~Uploads(w[p])

\* A request past its reconciliation is the only one that is.
LEMMA OneWorks ==
    ASSUME OneOperator, Fit(row, rt, req), NEW q, q \in Requests,
           req[q].at \notin {"free", "scan", "merge"}
    PROVE  Lone(req, q)
<1>1. q \in Operators /\ q \notin Pollers
  BY DEF Fit, PlacesSound, Operators
<1>2. \A p \in Requests : p # q => p \in Pollers /\ req[p].at \in {"free", "scan", "merge"}
  BY <1>1, OthersPoll DEF Fit
<1>3. \A p \in Operators : p = q
  BY <1>1 DEF OneOperator
<1> QED BY <1>1, <1>2, <1>3 DEF Lone, Flies, Sends, Uploads

\* A finalization gets on: what it publishes it still holds, or it is adrift.
GetsOn(q, b, K) ==
    /\ req[q].at \in {"closing", "naming"} /\ b \in {"naming", "settled", "broken"}
    /\ Proceeds(q, b) /\ row' = row /\ rt' = rt
    /\ dir' \in Directories /\ Kept' = Kept \cup K /\ K \subseteq req[q].eps
    /\ b = "settled" => K = req[q].eps
    /\ b # "settled" => K \subseteq adrift'
    /\ adrift' = adrift \/ (adrift' # {} /\ adrift \subseteq adrift')
    /\ UNCHANGED <<hub, repo, reserved, sd>>
    /\ faults \in Nat /\ faults' \in Nat /\ faults <= faults'

\* A finalization that gets on keeps the agreement: what it publishes it still holds.
LEMMA GetsOnFit ==
    ASSUME OneOperator, Fit(row, rt, req), NEW q, NEW b, NEW K, q \in Requests, GetsOn(q, b, K)
    PROVE  Fit(row, rt, req)'
<1> DEFINE v == req'
           x == [req[q] EXCEPT !.at = b]
           E == req[q].eps
<1>1. /\ req[q].at \in {"closing", "naming"} /\ b \in {"naming", "settled", "broken"}
      /\ row' = row /\ rt' = rt /\ K \subseteq E /\ (b = "settled" => K = E)
      /\ (b # "settled" => K \subseteq adrift') /\ adrift \subseteq adrift'
      /\ (adrift' = {} => adrift = {}) /\ (adrift' = adrift \/ adrift' # {})
      /\ Kept' = Kept \cup K /\ dir' \in Directories
      /\ hub' = hub /\ repo' = repo /\ reserved' = reserved /\ sd' = sd
      /\ faults \in Nat /\ faults' \in Nat /\ faults <= faults'
      /\ v = [req EXCEPT ![q] = x]
  BY DEF GetsOn, Proceeds
<1>2. Lone(req, q)
  BY <1>1, OneWorks
<1>3. /\ req[q] \in Waiting /\ Sound(req[q]) /\ req \in [Requests -> Waiting]
      /\ \A p \in Requests : Sound(req[p])
  BY DEF Fit, Typed
<1>4. /\ x.at = b /\ x.eps = E /\ x.copy = req[q].copy /\ x \in Waiting /\ Sound(x)
  BY <1>1, <1>3 DEF Waiting, Places, Sound
<1> HIDE DEF v, x, E
<1>5. /\ v[q] = x /\ \A p \in Requests : p # q => v[p] = req[p]
      /\ v \in [Requests -> Waiting] /\ \A p \in Requests : Sound(v[p])
  BY <1>1, <1>3, <1>4
<1>6. /\ Flies(v[q]) /\ Flies(req[q]) /\ v[q].eps = E /\ req[q].eps = E /\ v[q].copy = req[q].copy
      /\ \A p \in Requests : p # q => /\ ~Flies(v[p]) /\ ~Sends(v[p]) /\ ~Uploads(v[p]) /\ v[p] = req[p]
                                      /\ p \in Pollers /\ v[p].at \in {"free", "scan", "merge"}
                                      /\ ~Flies(req[p]) /\ ~Sends(req[p]) /\ ~Uploads(req[p])
      /\ ~Sends(v[q]) /\ ~Uploads(v[q]) /\ ~Reconciles(v[q])
      /\ ~Sends(req[q]) /\ ~Uploads(req[q]) /\ ~Reconciles(req[q])
      /\ \A p \in Operators : p = q
      /\ q \notin Pollers
  BY <1>1, <1>2, <1>4, <1>5 DEF Lone, Flies, Sends, Uploads, Reconciles, E
<1>7. /\ \A p \in Requests : Reconciles(v[p]) = Reconciles(req[p]) /\ (Reconciles(v[p]) => v[p] = req[p])
      /\ \A p \in Requests : Flies(v[p]) = Flies(req[p]) /\ (Flies(v[p]) => p = q)
      /\ \A p \in Requests : ~Uploads(v[p]) /\ ~Sends(v[p]) /\ ~Uploads(req[p]) /\ ~Sends(req[p])
  BY <1>6 DEF Reconciles, Flies
<1>8. AtWork(rt, v) /\ AtWork(rt, req) /\ \A e : Flying(v, e) = Flying(req, e) /\ (e \in E => Flying(v, e))
  BY <1>6, <1>7 DEF AtWork, Flying
<1>9. Typed(row, rt, req)'
  BY <1>1, <1>5 DEF Fit, Typed, v
<1>10. PlacesSound(rt, req)'
  <2>1. \A p \in Pollers : /\ v[p].at \in {"free", "scan", "merge"}
                           /\ Reconciles(v[p]) => v[p].kind = "state"
    BY <1>6, RecordingBounds DEF Fit, PlacesSound
  <2>2. ~reserved
    BY <1>7 DEF Fit, PlacesSound
  <2> QED BY <1>1, <1>7, <2>1, <2>2 DEF PlacesSound, v
<1>11. MotionSound(rt, req)'
  <2>1. MotionSound(rt, req)
    BY DEF Fit
  <2>2. rt.final # None => E = {rt.final}
    BY <1>1, <1>2, <1>6, <2>1 DEF MotionSound, Lone
  <2>3. rt.final # None => \E p \in Requests : \/ Flies(v[p]) /\ v[p].eps = {rt.final}
                                               \/ v[p].at = "confirm"
    BY <1>6, <2>2
  <2>4. \A p \in Requests : Flies(v[p]) =>
           rt.episode = None /\ (sd # "down" => rt.final \in v[p].eps /\ rt.task)
    BY <1>6, <1>7, <2>1 DEF MotionSound
  <2> QED BY <1>1, <2>3, <2>4 DEF MotionSound, v
<1>12. StatusSound(row, rt, req)'
  <2>1. \A p \in Requests : v[p].at # "confirm"
    BY <1>1, <1>4, <1>5, <1>6
  <2>2. \A p \in Operators : ~Reconciles(v[p])
    BY <1>6
  <2>3. StatusSound(row, rt, req)
    BY DEF Fit
  <2> QED BY <1>1, <1>7, <1>8, <2>1, <2>2, <2>3 DEF StatusSound, v
<1>13. KeptSound(row, rt, req)'
  <2>1. KeptSound(row, rt, req) /\ \A e : ~Settles(req, e)
    BY <1>1, <1>6 DEF Fit, Settles
  <2>2. \A e \in Kept' : e \in row.eps \/ e \in adrift' \/ Settles(v, e)
    BY <1>1, <1>4, <1>5, <2>1 DEF KeptSound, Settles
  <2>3. \A e \in Kept' : e \in row.eps \/ Flying(v, e)
    BY <1>1, <1>8, <2>1 DEF KeptSound
  <2>4. \A p \in Requests : v[p].at = "settled" => v[p].eps \subseteq Kept'
    BY <1>1, <1>4, <1>5, <1>6
  <2>5. \A e : Settles(v, e) = Settles(req', e) /\ Flying(v, e) = Flying(req', e)
    BY DEF v
  <2> QED BY <1>1, <2>2, <2>3, <2>4, <2>5 DEF KeptSound, v, Settles, Flying
<1>14. CopiesSound(row, rt, req)'
  <2>0. CopiesSound(row, rt, req)
    BY DEF Fit
  <2>1. \A p \in Requests : v[p].at = "scan" => ScanSound(row, rt, req, req[p])'
    <3>1. SUFFICES ASSUME NEW p \in Requests, v[p].at = "scan" PROVE ScanSound(row, rt, req, req[p])'
      OBVIOUS
    <3>2. p # q /\ v[p] = req[p] /\ ScanSound(row, rt, req, req[p])
      BY <1>6, <2>0, <3>1 DEF CopiesSound, Reconciles
    <3>3. E \subseteq v[p].eps
      BY <1>6, <3>2 DEF ScanSound
    <3> QED BY <1>1, <1>6, <1>7, <3>2, <3>3 DEF ScanSound, v
  <2>2. \A p \in Requests : v[p].at = "merge" => MergeSound(row, rt, req, req[p])'
    <3>1. SUFFICES ASSUME NEW p \in Requests, v[p].at = "merge" PROVE MergeSound(row, rt, req, req[p])'
      OBVIOUS
    <3>2. p # q /\ v[p] = req[p] /\ MergeSound(row, rt, req, req[p])
      BY <1>6, <2>0, <3>1 DEF CopiesSound, Reconciles
    <3>3. req[p].eps \subseteq req[p].copy.eps
      BY <1>8, <3>2 DEF MergeSound
    <3> QED BY <1>1, <3>2, <3>3 DEF MergeSound, v
  <2>3. \A p \in Operators : ~Reconciles(v[p]) /\ v[p].at # "scan"
    BY <1>6 DEF Reconciles
  <2>4. \A p \in Requests : Flies(v[p]) =>
           /\ row.eps = v[p].copy.eps /\ HasTarget(row) = HasTarget(v[p].copy)
           /\ adrift = {} => row.count = v[p].copy.count
    BY <1>6, <1>7, <2>0 DEF CopiesSound, Lone
  <2>5. adrift = {} => \A p \in Requests : Reconciles(v[p]) \/ Flies(v[p]) =>
           v[p].copy.count = Cardinality(v[p].copy.eps)
    BY <1>6, <1>7, <2>0 DEF CopiesSound
  <2> QED BY <1>1, <1>7, <2>1, <2>2, <2>3, <2>4, <2>5 DEF CopiesSound, v, Operators
<1>15. UploadedSound(row, rt, req)'
  <2>1. StatusSound(row, rt, req)
    BY DEF Fit
  <2>2. \A p \in Requests : v[p].at \notin {"sent", "cleaning"}
    BY <1>7 DEF Uploads
  <2>3. ~SaysUploaded(row, rt, v)
    BY <1>7, <1>8, <2>1, <2>2 DEF SaysUploaded, StatusSound, Bad
  <2> QED BY <1>1, <2>3 DEF UploadedSound, SaysUploaded, v
<1>16. ListSound(row, rt, req)'
  <2>1. SUFFICES ASSUME adrift' = {} PROVE ListSound(row, rt, req)'
    BY DEF ListSound
  <2>2. ListSound(row, rt, req) /\ adrift = {}
    BY <1>1, <2>1 DEF Fit
  <2>3. b # "broken" => E \cap row.eps = {}
    BY <1>1, <1>6, <2>2 DEF ListSound
  <2>4. \A p \in Requests : v[p].at \in {"closing", "naming", "settled"} => v[p].eps \cap row.eps = {}
    BY <1>4, <1>5, <1>6, <2>3
  <2>5. Remote(row, req) => Remote(row, v)
    BY <1>7 DEF Remote
  <2>6. ~Over(row, rt, req)
    BY <1>6 DEF Over, Flies
  <2>7. Remote(row, v) => Remote(row, req)'
    BY <1>1 DEF Remote, v
  <2>8. \A p \in Requests : v[p].at \notin {"send", "sent", "cleaning", "create", "collided"}
    BY <1>7 DEF Uploads, Sends
  <2>9. row.eps \subseteq Kept' \/ Remote(row, req)'
    BY <1>1, <2>2, <2>5, <2>6, <2>7 DEF ListSound
  <2>10. /\ rt.episode \notin row.eps /\ row.eps \subseteq Kept' \cup hub
         /\ row.count = Cardinality(row.eps)
    BY <1>1, <2>2 DEF ListSound
  <2> QED BY <1>1, <1>7, <2>4, <2>8, <2>9, <2>10 DEF ListSound, v
<1>17. TargetSound(row, rt, req)'
  <2>1. TargetSound(row, rt, req)
    BY DEF Fit
  <2>2. \A p \in Requests : v[p].at \notin {"convert", "look", "collided"}
    BY <1>7 DEF Sends
  <2> QED BY <1>1, <1>6, <1>7, <2>1, <2>2, RecordingBounds DEF TargetSound, v
<1> QED BY <1>9, <1>10, <1>11, <1>12, <1>13, <1>14, <1>15, <1>16, <1>17 DEF Fit

-----------------------------------------------------------------------------
(* Renaming and publishing *)

\* The episode of a finalization is the one it is for.
LEMMA SubjectIs ==
    ASSUME Fit(row, rt, req), NEW q, q \in Requests,
           req[q].at \in {"closing", "naming", "settled", "broken"}
    PROVE  Subject(q) \in Episodes /\ req[q].eps = {Subject(q)}
<1>1. PICK e \in Episodes : req[q].eps = {e}
  BY DEF Fit, Typed, Sound
<1>2. Subject(q) = e
  BY <1>1 DEF Subject
<1> QED BY <1>1, <1>2

\* A request at work that neither begins to scan nor to clean up keeps the turns as they are.
LEMMA WorkTurns ==
    ASSUME OneOperator, TurnsSound, NEW q, q \in Requests, Lone(req, q),
           req \in [Requests -> Waiting], NEW x, req' = [req EXCEPT ![q] = x], ~Holds(x),
           busy' = busy \/ Holds(req[q])
    PROVE  TurnsSound'
<1>1. TurnEnds(q, rt)
  BY DEF TurnEnds, Lone
<1> QED BY <1>1, TurnsLeft

\* And the turns, so it keeps the invariant.
LEMMA GetsOnTurns ==
    ASSUME OneOperator, FilesInv, NEW q, NEW b, NEW K, q \in Requests, GetsOn(q, b, K), busy' = busy
    PROVE  FilesInv'
<1>1. Fit(row, rt, req) /\ TurnsSound /\ QuietSound(rt) /\ req \in [Requests -> Waiting]
  BY DEF FilesInv, Fit, Typed
<1>2. Lone(req, q)
  BY <1>1, OneWorks DEF GetsOn
<1>3. Fit(row, rt, req)'
  BY <1>1, GetsOnFit
<1>4. TurnsSound'
  <2>1. /\ req' = [req EXCEPT ![q] = [req[q] EXCEPT !.at = b]]
        /\ b \in {"naming", "settled", "broken"}
    BY DEF GetsOn, Proceeds
  <2>2. ~Holds([req[q] EXCEPT !.at = b])
    BY <1>1, <2>1 DEF Holds, Waiting
  <2> QED BY <1>1, <1>2, <2>1, <2>2, WorkTurns
<1>5. QuietSound(rt)' /\ faults' \in Nat
  BY <1>1 DEF QuietSound, GetsOn
<1> QED BY <1>3, <1>4, <1>5 DEF FilesInv

\* Closing and renaming an episode's directory keeps the invariant.
LEMMA RenamesFiles ==
    ASSUME OneOperator, FilesInv, NEW q, q \in Requests, Renames(q)
    PROVE  FilesInv'
<1>1. Fit(row, rt, req) /\ faults \in Nat /\ dir \in Directories
  BY DEF FilesInv, Fit, Typed
<1>2. /\ req[q].at = "closing" /\ UNCHANGED <<row, rt, dropping, busy, remote, process>>
      /\ Fine \/ Fault
  BY DEF Renames
<1>3. Subject(q) \in Episodes
  BY <1>1, <1>2, SubjectIs
<1>4. CASE /\ dir[Subject(q)] = "open"
           /\ dir' = [dir EXCEPT ![Subject(q)] = "renamed"] /\ Proceeds(q, "naming")
  <2>1. dir' \in Directories /\ Kept' = Kept
    BY <1>1, <1>3, <1>4 DEF Directories, Kept
  <2>2. GetsOn(q, "naming", {})
    BY <1>1, <1>2, <1>4, <2>1 DEF GetsOn, remote, process, Fine, Fault
  <2> QED BY <1>2, <2>2, GetsOnTurns
<1>5. CASE UNCHANGED dir /\ Proceeds(q, "broken")
  <2>1. Kept' = Kept
    BY <1>5 DEF Kept
  <2>2. GetsOn(q, "broken", {})
    BY <1>1, <1>2, <1>5, <2>1 DEF GetsOn, remote, process, Fine, Fault
  <2> QED BY <1>2, <2>2, GetsOnTurns
<1> QED BY <1>4, <1>5 DEF Renames

\* Publishing it in staging keeps the invariant.
LEMMA PublishesFiles ==
    ASSUME OneOperator, FilesInv, NEW q, q \in Requests, Publishes(q)
    PROVE  FilesInv'
<1>1. Fit(row, rt, req) /\ faults \in Nat /\ dir \in Directories
  BY DEF FilesInv, Fit, Typed
<1>2. /\ req[q].at = "naming" /\ UNCHANGED <<row, rt, dropping, busy, remote, sd, restarts>>
      /\ Fine \/ Fault
  BY DEF Publishes
<1>3. Subject(q) \in Episodes /\ req[q].eps = {Subject(q)}
  BY <1>1, <1>2, SubjectIs
<1>4. ASSUME dir' = [dir EXCEPT ![Subject(q)] = "kept"]
      PROVE  dir' \in Directories /\ Kept' = Kept \cup req[q].eps
  BY <1>1, <1>3, <1>4 DEF Directories, Kept
<1>5. CASE dir' = [dir EXCEPT ![Subject(q)] = "kept"] /\ Proceeds(q, "settled") /\ UNCHANGED adrift
  <2>1. GetsOn(q, "settled", req[q].eps)
    BY <1>1, <1>2, <1>4, <1>5 DEF GetsOn, remote, Fine, Fault
  <2> QED BY <1>2, <2>1, GetsOnTurns
<1>6. CASE UNCHANGED <<dir, adrift>> /\ Proceeds(q, "broken")
  <2>1. Kept' = Kept
    BY <1>6 DEF Kept
  <2>2. GetsOn(q, "broken", {})
    BY <1>1, <1>2, <1>6, <2>1 DEF GetsOn, remote, Fine, Fault
  <2> QED BY <1>2, <2>2, GetsOnTurns
<1>7. CASE /\ dir' = [dir EXCEPT ![Subject(q)] = "kept"] /\ adrift' = adrift \cup req[q].eps
           /\ Proceeds(q, "broken")
  <2>1. adrift' # {} /\ adrift \subseteq adrift' /\ req[q].eps \subseteq adrift'
    BY <1>3, <1>7
  <2>2. GetsOn(q, "broken", req[q].eps)
    BY <1>1, <1>2, <1>4, <1>7, <2>1 DEF GetsOn, remote, Fine, Fault
  <2> QED BY <1>2, <2>2, GetsOnTurns
<1> QED BY <1>5, <1>6, <1>7 DEF Publishes

-----------------------------------------------------------------------------
(* A finalization is put on the row *)

\* What a finalization puts on the row, and where it leaves the runtime and the request:
\* done, or given up with the episode adrift unless it is on the row.
PutsOnRow(q, u, x) ==
    LET r == row' IN
    /\ req[q].at = "settled" /\ req' = [req EXCEPT ![q] = x]
    /\ r \in Rows /\ rt' = u /\ u \in Runtimes /\ u.status \notin Bad /\ u.episode = None
    /\ x \in Waiting /\ Sound(x)
    /\ \/ /\ x.at = "confirm" /\ x.copy.status \notin Bad /\ adrift' = adrift
          /\ u.teleop = rt.teleop /\ u.final = rt.final /\ r.eps = row.eps \cup req[q].eps
          /\ faults' = faults
       \/ /\ x = Unused /\ adrift' = adrift \cup (req[q].eps \ r.eps) /\ u.teleop # "on"
          /\ u.teleop \in {rt.teleop, "closing"} /\ u.final = None
          /\ r = row \/ r.eps = row.eps \cup req[q].eps
          /\ faults' # 0
    /\ r = row \/ /\ r.status \notin Bad /\ HasTarget(r) = HasTarget(row)
                  /\ adrift = {} => r.count = row.count + 1
    /\ UNCHANGED <<dir, hub, repo, reserved, sd>>
    /\ faults \in Nat /\ faults' \in Nat /\ faults <= faults'

\* Putting the episode on the row, or giving it up, keeps the agreement.
LEMMA PutsOnRowFit ==
    ASSUME OneOperator, Fit(row, rt, req), NEW q, NEW u, NEW x, q \in Requests, PutsOnRow(q, u, x)
    PROVE  Fit(row, rt, req)'
<1> DEFINE r == row'
           v == req'
           E == req[q].eps
<1>1. /\ req[q].at = "settled" /\ v = [req EXCEPT ![q] = x]
      /\ r \in Rows /\ rt' = u /\ u \in Runtimes /\ u.status \notin Bad /\ u.episode = None
      /\ x \in Waiting /\ Sound(x)
      /\ dir' = dir /\ hub' = hub /\ repo' = repo /\ reserved' = reserved /\ sd' = sd
      /\ faults \in Nat /\ faults' \in Nat /\ faults <= faults'
      /\ r = row \/ /\ r.status \notin Bad /\ HasTarget(r) = HasTarget(row)
                    /\ adrift = {} => r.count = row.count + 1
  BY DEF PutsOnRow
<1>2. \/ /\ x.at = "confirm" /\ x.copy.status \notin Bad /\ adrift' = adrift
         /\ u.teleop = rt.teleop /\ u.final = rt.final /\ r.eps = row.eps \cup E
         /\ faults' = faults
      \/ /\ x.at = "free" /\ adrift' = adrift \cup (E \ r.eps) /\ u.teleop # "on"
         /\ u.teleop \in {rt.teleop, "closing"} /\ u.final = None
         /\ r = row \/ r.eps = row.eps \cup E
         /\ faults' # 0
  BY NothingAsked DEF PutsOnRow
<1>3. /\ Lone(req, q) /\ req \in [Requests -> Waiting] /\ \A p \in Requests : Sound(req[p])
      /\ row \in Rows /\ rt \in Runtimes /\ dir \in Directories
  BY <1>1, OneWorks DEF Fit, Typed
<1>4. \E e \in Episodes : E = {e}
  BY <1>1, <1>3 DEF Sound
<1> HIDE DEF r, v, E
<1>5. /\ v[q] = x /\ \A p \in Requests : p # q => v[p] = req[p]
      /\ v \in [Requests -> Waiting] /\ \A p \in Requests : Sound(v[p])
  BY <1>1, <1>3
<1>6. /\ Flies(req[q]) /\ ~Sends(req[q]) /\ ~Uploads(req[q]) /\ ~Reconciles(req[q])
      /\ ~Flies(x) /\ ~Sends(x) /\ ~Uploads(x) /\ ~Reconciles(x)
      /\ x.at \notin {"scan", "merge", "settled", "closing", "naming"}
  BY <1>1, <1>2 DEF Flies, Sends, Uploads, Reconciles
<1>7. /\ \A p \in Requests : p # q => v[p] = req[p] /\ p \in Pollers /\ v[p].at \in {"free", "scan", "merge"}
      /\ \A p \in Requests : Reconciles(v[p]) => p # q /\ v[p] = req[p] /\ Reconciles(req[p])
      /\ \A p \in Requests : ~Flies(v[p]) /\ ~Uploads(v[p]) /\ ~Sends(v[p]) /\ ~Uploads(req[p])
      /\ \A p \in Requests : Flies(req[p]) => p = q
      /\ \A p \in Operators : p = q /\ ~Reconciles(v[p])
      /\ q \notin Pollers
  BY <1>3, <1>5, <1>6 DEF Lone
<1>8. AtWork(rt, req) /\ (\A e : Flying(req, e) => e \in E) /\ (\A e : Settles(req, e) => e \in E)
      /\ (AtWork(u, v) => u.final # None)
  BY <1>1, <1>6, <1>7 DEF AtWork, Flying, Settles, E, Flies
<1>9. row.eps \subseteq r.eps /\ r.eps \subseteq row.eps \cup E /\ E \subseteq r.eps \cup adrift'
      /\ adrift \subseteq adrift' /\ Kept' = Kept /\ E \subseteq Kept \cup adrift
      /\ row.status \notin Bad /\ r.status \notin Bad
  <2>1. E \subseteq Kept \cup adrift
    BY <1>1 DEF Fit, KeptSound, E
  <2>2. row.status \notin Bad
    BY <1>8 DEF Fit, StatusSound
  <2> QED BY <1>1, <1>2, <2>1, <2>2 DEF Kept
<1>10. Typed(row, rt, req)'
  BY <1>1, <1>3, <1>5 DEF Typed, r, v
<1>11. PlacesSound(rt, req)'
  <2>1. \A p \in Pollers : /\ v[p].at \in {"free", "scan", "merge"}
                           /\ Reconciles(v[p]) => v[p].kind = "state"
    BY <1>7, RecordingBounds DEF Fit, PlacesSound
  <2>2. ~reserved
    BY <1>7 DEF Fit, PlacesSound
  <2> QED BY <1>1, <1>7, <2>1, <2>2 DEF PlacesSound, v
<1>12. MotionSound(rt, req)'
  <2>1. u.final # None => v[q].at = "confirm"
    BY <1>2, <1>5
  <2> QED BY <1>1, <1>7, <2>1 DEF MotionSound, v
<1>13. StatusSound(row, rt, req)'
  <2>1. \A p \in Requests : Reconciles(v[p]) => v[p].copy.status \notin Bad
    BY <1>7, <1>8 DEF Fit, StatusSound
  <2>2. \A p \in Requests : v[p].at = "confirm" => v[p].copy.status \notin Bad
    BY <1>2, <1>5, <1>7
  <2> QED BY <1>1, <1>7, <1>9, <2>1, <2>2 DEF StatusSound, r, v
<1>14. KeptSound(row, rt, req)'
  <2>1. \A e \in Kept : e \in r.eps \/ e \in adrift'
    BY <1>8, <1>9 DEF Fit, KeptSound
  <2>2. u.final # None => \A e \in Kept : e \in r.eps
    BY <1>2, <1>8 DEF Fit, KeptSound
  <2>3. \A p \in Requests : v[p].at # "settled"
    BY <1>7 DEF Flies
  <2> QED BY <1>1, <1>8, <1>9, <2>1, <2>2, <2>3 DEF KeptSound, r, v
<1>15. CopiesSound(row, rt, req)'
  <2>0. CopiesSound(row, rt, req)
    BY DEF Fit
  <2>1. \A p \in Requests : v[p].at = "scan" => ScanSound(row, rt, req, req[p])'
    <3>1. SUFFICES ASSUME NEW p \in Requests, v[p].at = "scan" PROVE ScanSound(row, rt, req, req[p])'
      OBVIOUS
    <3>2. p # q /\ v[p] = req[p] /\ ScanSound(row, rt, req, req[p])
      BY <1>7, <2>0, <3>1 DEF CopiesSound, Reconciles
    <3>3. E \subseteq v[p].eps
      BY <1>6, <3>2 DEF ScanSound, E
    <3>4. {u.episode, u.final} \ {None} \subseteq v[p].eps
      BY <1>1, <1>2, <3>2 DEF ScanSound
    <3>5. /\ v[p].eps # {} => Kept \subseteq v[p].copy.eps \cup v[p].eps
          /\ v[p].copy.eps \subseteq r.eps \cup adrift'
          /\ r.eps \subseteq v[p].copy.eps \cup v[p].eps
          /\ v[p].copy.status \in Bad => v[p].eps = {}
      BY <1>9, <3>2, <3>3 DEF ScanSound
    <3> QED BY <1>1, <1>7, <1>9, <3>4, <3>5 DEF ScanSound, r, v
  <2>2. \A p \in Requests : v[p].at = "merge" => MergeSound(row, rt, req, req[p])'
    <3>1. SUFFICES ASSUME NEW p \in Requests, v[p].at = "merge" PROVE MergeSound(row, rt, req, req[p])'
      OBVIOUS
    <3>2. p # q /\ v[p] = req[p] /\ MergeSound(row, rt, req, req[p]) /\ Reconciles(req[p])
      BY <1>7, <2>0, <3>1 DEF CopiesSound, Reconciles
    <3>3. req[p].eps \subseteq req[p].copy.eps /\ req[p].copy.status \notin Bad
      BY <1>8, <3>2 DEF MergeSound, Fit, StatusSound
    <3> QED BY <1>9, <3>2, <3>3 DEF MergeSound, r, v
  <2>5. adrift' = {} => \A p \in Requests : Reconciles(v[p]) \/ Flies(v[p]) =>
           v[p].copy.count = Cardinality(v[p].copy.eps)
    BY <1>7, <1>9, <2>0 DEF CopiesSound
  <2>6. \A p \in Operators : v[p].at # "scan" /\ ~Reconciles(v[p])
    BY <1>7 DEF Reconciles
  <2> QED BY <1>7, <2>1, <2>2, <2>5, <2>6 DEF CopiesSound, v, Operators
<1>16. UploadedSound(row, rt, req)'
  <2>1. \A p \in Requests : v[p].at \notin {"sent", "cleaning"}
    BY <1>7 DEF Uploads
  <2>2. \A p \in Requests : Reconciles(v[p]) => v[p].copy.status \notin Bad
    BY <1>7, <1>8 DEF Fit, StatusSound
  <2> QED BY <1>1, <1>9, <2>1, <2>2 DEF UploadedSound, SaysUploaded, Bad, v, r
<1>17. ListSound(row, rt, req)'
  <2>1. SUFFICES ASSUME adrift' = {} PROVE ListSound(row, rt, req)'
    BY DEF ListSound
  <2>2. ListSound(row, rt, req) /\ adrift = {}
    BY <1>9, <2>1 DEF Fit
  <2>3. E \cap row.eps = {} /\ E \subseteq r.eps
    BY <1>1, <1>9, <2>1, <2>2 DEF ListSound, E
  <2>4. r # row /\ r.eps = row.eps \cup E /\ r.count = row.count + 1 /\ HasTarget(r) = HasTarget(row)
    BY <1>1, <1>2, <1>4, <2>2, <2>3
  <2>5. r.count = Cardinality(r.eps)
    <3>1. PICK e : e \in Episodes /\ E = {e} /\ e \notin row.eps
      BY <1>4, <2>3
    <3>2. IsFiniteSet(row.eps)
      <4>1. IsFiniteSet(Episodes)
        BY RecordingBounds, FS_Interval DEF Episodes
      <4>2. row.eps \in SUBSET Episodes
        BY <1>3 DEF Rows
      <4> QED BY <4>1, <4>2, FS_Subset
    <3>3. Cardinality(row.eps \cup {e}) = Cardinality(row.eps) + 1
      BY <3>1, <3>2, FS_AddElement
    <3> QED BY <2>2, <2>4, <3>1, <3>3 DEF ListSound
  <2>6. Remote(row, req) => Remote(row, req)'
    <3>1. SUFFICES ASSUME Remote(row, req) PROVE Remote(row, req)'
      OBVIOUS
    <3>2. HasTarget(r) /\ repo = "ours"
      BY <2>4, <3>1 DEF Remote
    <3>3. \A p \in Requests : Reconciles(v[p]) => HasTarget(v[p].copy)
      BY <1>7, <3>1 DEF Remote
    <3> QED BY <1>1, <1>7, <3>2, <3>3 DEF Remote, r, v
  <2>7. ~Over(row, rt, req)
    BY <1>6 DEF Over, Flies
  <2>8. row.eps \subseteq Kept \/ Remote(row, req)
    BY <2>2, <2>7 DEF ListSound
  <2>9. r.eps \subseteq Kept \/ Remote(row, req)'
    BY <1>9, <2>2, <2>4, <2>6, <2>8
  <2>10. r.eps \subseteq Kept \cup hub /\ None \notin r.eps
    BY <1>1, <1>9, <2>2, <2>4, EpisodesAreNumbers DEF ListSound, Rows
  <2>11. \A p \in Requests : v[p].at \notin {"closing", "naming", "settled", "send", "sent", "cleaning", "create", "collided"}
    BY <1>7 DEF Uploads, Sends, Flies
  <2> QED BY <1>1, <1>7, <1>9, <2>5, <2>9, <2>10, <2>11 DEF ListSound, r, v
<1>18. TargetSound(row, rt, req)'
  <2>1. SUFFICES ASSUME adrift' = {} PROVE TargetSound(row, rt, req)'
    BY DEF TargetSound
  <2>2. TargetSound(row, rt, req) /\ adrift = {}
    BY <1>9, <2>1 DEF Fit
  <2>3. \A p \in Requests : v[p].at \notin {"convert", "look", "collided"}
    BY <1>7 DEF Sends
  <2>4. HasTarget(r) = HasTarget(row)
    BY <1>1
  <2>5. faults' = 0 => u.teleop = rt.teleop /\ faults = 0
    BY <1>1, <1>2
  <2>6. faults' <= 1 => faults <= 1
    BY <1>1
  <2> QED BY <1>1, <1>7, <1>9, <2>2, <2>3, <2>4, <2>5, <2>6, RecordingBounds DEF TargetSound, Bad, r, v
<1> QED BY <1>10, <1>11, <1>12, <1>13, <1>14, <1>15, <1>16, <1>17, <1>18 DEF Fit

\* A finalization that accounts for its episode keeps the invariant.
LEMMA StopSettlesFiles ==
    ASSUME OneOperator, FilesInv, NEW q, q \in Requests, StopSettles(q)
    PROVE  FilesInv'
<1> DEFINE c == req[q].copy
           over == Finalized(rt)
           n == [c EXCEPT !.status = over.status, !.count = @ + 1, !.eps = @ \cup req[q].eps]
           r == Stored(row, c, n)
           x == At("confirm", "none", n, {})
           u == Compensated(over)
<1>1. /\ Fit(row, rt, req) /\ TurnsSound /\ faults \in Nat /\ rt \in Runtimes /\ row \in Rows /\ c \in Rows
      /\ req \in [Requests -> Waiting] /\ req[q].eps \in SUBSET Episodes
      /\ req[q].at = "settled" /\ Flies(req[q])
      /\ UNCHANGED <<dir, busy, remote, sd, restarts>>
  BY DEF FilesInv, Fit, Typed, StopSettles, Waiting, Flies
<1>2. Lone(req, q)
  BY <1>1, OneWorks
<1>3. /\ over \in Runtimes /\ over.teleop = rt.teleop /\ over.final = rt.final
      /\ over.episode = None /\ over.status \in {"teleop", "failed"}
  <2>1. rt.episode = None
    BY <1>1 DEF Fit, MotionSound
  <2> QED BY <1>1, <2>1 DEF Finalized, Fails, Runtimes, Statuses
<1> HIDE DEF over
<1>4. /\ u \in Runtimes /\ u.episode = None /\ u.final = None /\ u.status = "failed"
      /\ u.teleop # "on" /\ u.teleop \in {rt.teleop, "closing"}
  <2>1. over \in Runtimes /\ over.teleop = rt.teleop
    BY <1>3
  <2>2. u \in Runtimes
    BY <2>1, RuntimeCompensated
  <2> QED BY <2>1, <2>2 DEF Compensated, Runtimes
<1> HIDE DEF u
<1>5. /\ n \in Rows /\ n.status = over.status /\ n.count = c.count + 1 /\ n.eps = c.eps \cup req[q].eps
      /\ n.upload = c.upload
  <2>1. c.count + 1 \in Nat /\ c.eps \cup req[q].eps \in SUBSET Episodes
    BY <1>1 DEF Rows
  <2> QED BY <1>1, <1>3, <2>1 DEF Rows, Statuses
<1>6. /\ row.eps = c.eps /\ HasTarget(row) = HasTarget(c) /\ (adrift = {} => row.count = c.count)
      /\ row.status \notin Bad
  <2>1. AtWork(rt, req)
    BY <1>1 DEF AtWork
  <2> QED BY <1>1, <2>1 DEF Fit, CopiesSound, StatusSound
<1> HIDE DEF n
<1>7. /\ r \in Rows /\ r.status \notin Bad /\ HasTarget(r) = HasTarget(row)
      /\ r.eps = row.eps \cup req[q].eps /\ (adrift = {} => r.count = row.count + 1)
  <2>1. r \in Rows
    BY <1>1, <1>5, RowsStored
  <2>2. r.status \notin Bad
    BY <1>3, <1>5, <1>6 DEF Stored, Bad
  <2>3. r.upload = row.upload \/ r.upload = c.upload
    BY <1>5 DEF Stored
  <2>4. HasTarget(r) = HasTarget(row)
    BY <1>6, <2>3 DEF HasTarget
  <2>5. r.eps = row.eps \cup req[q].eps
    BY <1>5, <1>6 DEF Stored, Meta
  <2>6. adrift = {} => r.count = row.count + 1
    BY <1>1, <1>5, <1>6 DEF Stored, Rows
  <2> QED BY <2>1, <2>2, <2>4, <2>5, <2>6
<1> HIDE DEF r
<1>8. /\ x \in Waiting /\ Sound(x) /\ x.at = "confirm" /\ x.copy = n
      /\ Unused \in Waiting /\ Sound(Unused) /\ Unused.at = "free"
  BY <1>5, WaitingAt, NothingAsked DEF At, Sound, Places
<1> HIDE DEF x
<1>9. CASE Commits(row, c, n) /\ rt' = over /\ Goes(q, "confirm", "none", n, {}) /\ UNCHANGED adrift
  <2>1. row' = r /\ faults' = faults /\ req' = [req EXCEPT ![q] = x]
    BY <1>9 DEF Commits, Fine, Goes, r, x
  <2>2. PutsOnRow(q, over, x)
    BY <1>1, <1>3, <1>5, <1>7, <1>8, <1>9, <2>1 DEF PutsOnRow, remote, Bad
  <2>3. Fit(row, rt, req)'
    BY <1>1, <2>2, PutsOnRowFit
  <2>4. TurnsSound'
    BY <1>1, <1>2, <1>8, <2>1, WorkTurns DEF Holds
  <2>5. QuietSound(rt)'
    BY <1>3, <1>9 DEF QuietSound
  <2> QED BY <1>1, <2>1, <2>3, <2>4, <2>5 DEF FilesInv
<1>10. CASE CommitFails(row, c, n) /\ Compensates(over) /\ Ends(q)
            /\ adrift' = adrift \cup (req[q].eps \ row'.eps)
  <2>1. /\ row' = row \/ row' = r
        /\ rt' = u /\ faults' = faults + 1 /\ req' = [req EXCEPT ![q] = Unused]
    BY <1>10 DEF CommitFails, Fault, Ends, Compensates, r, u
  <2>2. PutsOnRow(q, u, Unused)
    BY <1>1, <1>4, <1>7, <1>8, <1>10, <2>1 DEF PutsOnRow, remote, Bad
  <2>3. Fit(row, rt, req)'
    BY <1>1, <2>2, PutsOnRowFit
  <2>4. TurnsSound'
    BY <1>1, <1>2, <1>8, <2>1, WorkTurns DEF Holds
  <2>5. QuietSound(rt)'
    BY <1>4, <2>1 DEF QuietSound
  <2> QED BY <1>1, <2>1, <2>3, <2>4, <2>5 DEF FilesInv
<1> QED BY <1>9, <1>10 DEF StopSettles, over, n, c

-----------------------------------------------------------------------------
(* A finalization is over *)

\* A finalization that has failed, or is confirmed, is the runtime's no longer.
Landed(t, u) ==
    /\ u \in Runtimes /\ u.teleop = t.teleop /\ u.episode = t.episode /\ u.final = None
    /\ u.status \notin Bad \/ (u.status = t.status /\ u.err = t.err)

\* A runtime whose finalization is over agrees, and so does the list of the row.
LEMMA LandFit ==
    ASSUME NEW r, NEW t, NEW w, NEW u, NEW q, NEW x, Fit(r, t, w), Landed(t, u), q \in Requests,
           Lone(w, q), w[q].at \in {"broken", "confirm"}, x \in Waiting, Sound(x), x.at \in Calm
    PROVE  /\ Fit(r, u, [w EXCEPT ![q] = x])
           /\ adrift = {} => Listable(r, [w EXCEPT ![q] = x])
           /\ \A p \in Requests : ~Flies([w EXCEPT ![q] = x][p])
<1> DEFINE v == [w EXCEPT ![q] = x]
<1>1. /\ v[q] = x /\ \A p \in Requests : p # q => v[p] = w[p]
      /\ v \in [Requests -> Waiting] /\ \A p \in Requests : Sound(v[p])
  BY DEF Fit, Typed
<1>2. /\ u \in Runtimes /\ u.teleop = t.teleop /\ u.episode = t.episode /\ u.final = None
      /\ u.status \notin Bad \/ (u.status = t.status /\ u.err = t.err)
  BY DEF Landed
<1> HIDE DEF v
<1>3. /\ ~Flies(x) /\ ~Sends(x) /\ ~Uploads(x) /\ ~Reconciles(x)
      /\ ~Sends(w[q]) /\ ~Uploads(w[q]) /\ ~Reconciles(w[q])
      /\ x.at \notin {"scan", "merge", "settled", "closing", "naming", "confirm", "sent", "cleaning"}
      /\ w[q].at \notin {"scan", "merge", "settled"}
  BY DEF Flies, Sends, Uploads, Reconciles, Calm
<1>4. /\ \A p \in Requests : p # q => v[p] = w[p] /\ p \in Pollers /\ v[p].at \in {"free", "scan", "merge"}
      /\ \A p \in Requests : Reconciles(v[p]) => p # q /\ v[p] = w[p] /\ Reconciles(w[p])
      /\ \A p \in Requests : ~Flies(v[p]) /\ ~Uploads(v[p]) /\ ~Sends(v[p]) /\ ~Uploads(w[p]) /\ ~Sends(w[p])
      /\ \A p \in Operators : p = q /\ ~Reconciles(v[p])
      /\ \A p \in Requests : v[p].at \notin {"settled", "confirm", "closing", "naming"}
      /\ \A p \in Requests : w[p].at # "settled"
      /\ q \notin Pollers
  BY <1>1, <1>3 DEF Lone
<1>5. (AtWork(u, v) => AtWork(t, w)) /\ \A e : ~Settles(w, e)
  BY <1>2, <1>4 DEF AtWork, Settles
<1>50. AtWork(u, v) => u.episode # None
  BY <1>2, <1>4 DEF AtWork
<1>6. Typed(r, u, v)
  BY <1>1, <1>2 DEF Fit, Typed
<1>7. PlacesSound(u, v)
  <2>1. \A p \in Pollers : /\ v[p].at \in {"free", "scan", "merge"}
                           /\ Reconciles(v[p]) => v[p].kind = "state"
    BY <1>4, RecordingBounds DEF Fit, PlacesSound
  <2>2. ~reserved
    BY <1>4 DEF Fit, PlacesSound
  <2> QED BY <1>4, <2>1, <2>2 DEF PlacesSound
<1>8. MotionSound(u, v)
  BY <1>2, <1>4 DEF MotionSound
<1>9. StatusSound(r, u, v)
  BY <1>2, <1>4, <1>5 DEF Fit, StatusSound
<1>10. KeptSound(r, u, v)
  <2>1. \A e \in Kept : e \in r.eps \/ e \in adrift
    BY <1>5 DEF Fit, KeptSound
  <2>2. AtWork(u, v) => \A e \in Kept : e \in r.eps
    <3>1. SUFFICES ASSUME AtWork(u, v) PROVE \A e \in Kept : e \in r.eps
      OBVIOUS
    <3>2. t.episode # None /\ AtWork(t, w)
      BY <1>2, <1>5, <1>50, <3>1
    <3>3. \A p \in Requests : ~Flies(w[p])
      BY <3>2 DEF Fit, MotionSound
    <3> QED BY <3>2, <3>3 DEF Fit, KeptSound, Flying
  <2> QED BY <1>4, <2>1, <2>2 DEF KeptSound
<1>11. CopiesSound(r, u, v)
  <2>0. CopiesSound(r, t, w)
    BY DEF Fit
  <2>1. \A p \in Requests : v[p].at = "scan" => ScanSound(r, u, v, v[p])
    <3>1. SUFFICES ASSUME NEW p \in Requests, v[p].at = "scan" PROVE ScanSound(r, u, v, v[p])
      OBVIOUS
    <3>2. v[p] = w[p] /\ ScanSound(r, t, w, w[p])
      BY <1>4, <2>0, <3>1 DEF CopiesSound, Reconciles
    <3> QED BY <1>2, <1>4, <3>2 DEF ScanSound
  <2>2. \A p \in Requests : v[p].at = "merge" => MergeSound(r, u, v, v[p])
    <3>1. SUFFICES ASSUME NEW p \in Requests, v[p].at = "merge" PROVE MergeSound(r, u, v, v[p])
      OBVIOUS
    <3>2. v[p] = w[p] /\ MergeSound(r, t, w, w[p])
      BY <1>4, <2>0, <3>1 DEF CopiesSound, Reconciles
    <3> QED BY <1>5, <3>2 DEF MergeSound
  <2>3. \A p \in Operators : v[p].at # "scan" /\ ~Reconciles(v[p])
    BY <1>4 DEF Reconciles
  <2>4. adrift = {} => \A p \in Requests : Reconciles(v[p]) =>
           v[p].copy.count = Cardinality(v[p].copy.eps)
    BY <1>4, <2>0 DEF CopiesSound
  <2> QED BY <1>4, <2>1, <2>2, <2>3, <2>4 DEF CopiesSound
<1>12. UploadedSound(r, u, v)
  <2>1. \A p \in Requests : v[p].at \notin {"sent", "cleaning"}
    BY <1>4 DEF Uploads
  <2>2. SaysUploaded(r, u, v) => SaysUploaded(r, t, w)
    BY <1>2, <1>4, <2>1 DEF SaysUploaded, Bad
  <2> QED BY <2>2 DEF Fit, UploadedSound
<1>13. adrift = {} => Listable(r, v)
  <2>1. SUFFICES ASSUME adrift = {} PROVE Listable(r, v)
    OBVIOUS
  <2>2. ~Over(r, t, w)
    BY <1>3 DEF Over
  <2>3. r.eps \subseteq Kept \/ Remote(r, w)
    BY <2>1, <2>2 DEF Fit, ListSound
  <2>4. Remote(r, w) => Remote(r, v)
    BY <1>4 DEF Remote
  <2> QED BY <2>3, <2>4 DEF Listable
<1>14. ListSound(r, u, v)
  <2>1. SUFFICES ASSUME adrift = {} PROVE ListSound(r, u, v)
    BY DEF ListSound
  <2>2. ListSound(r, t, w) /\ Listable(r, v)
    BY <1>13, <2>1 DEF Fit
  <2>3. \A p \in Requests : v[p].at \notin {"send", "sent", "cleaning", "create", "collided"}
    BY <1>4 DEF Uploads, Sends
  <2> QED BY <1>2, <1>4, <2>1, <2>2, <2>3 DEF ListSound, Listable
<1>15. TargetSound(r, u, v)
  <2>1. \A p \in Requests : v[p].at \notin {"convert", "look", "collided"}
    BY <1>4 DEF Sends
  <2> QED BY <1>2, <1>4, <2>1, RecordingBounds DEF Fit, TargetSound, Bad
<1> QED BY <1>4, <1>6, <1>7, <1>8, <1>9, <1>10, <1>11, <1>12, <1>13, <1>14, <1>15 DEF Fit, v

-----------------------------------------------------------------------------
(* Without faults, what is finalized is there *)

\* As long as nothing has failed and the process is up, nothing is to be dropped and every
\* finalization finds the files it is about.
Finds(w) ==
    /\ w.at = "closing" => \A e \in w.eps : dir[e] = "open"
    /\ w.at = "naming" => \A e \in w.eps : dir[e] = "renamed"
    /\ w.at # "broken"
Untouched ==
    faults = 0 /\ sd = "up" =>
        /\ dropping = {}
        /\ rt.episode # None => dir[rt.episode] = "open"
        /\ \A q \in Requests : Finds(req[q])

\* As long as nothing failed, a handler leaves every finalization its files.
LEMMA HandlesUntouched ==
    ASSUME Untouched, NEW r, NEW t, NEW q, NEW kind, NEW c, NEW scanning,
           q \in Requests, kind \in Kinds, t \in Runtimes, c \in Rows, t.episode = rt.episode,
           req \in [Requests -> Waiting], dir \in Directories, rt \in Runtimes, faults \in Nat,
           sd' = sd, Handles(q, kind, c, r, t, scanning)
    PROVE  Untouched'
<1> DEFINE u == Ensured(t, c)
<1>1. SUFFICES ASSUME faults' = 0, sd = "up", Fine \/ Fault PROVE Untouched'
  <2>1. Fine \/ Fault
    <3>1. CASE kind \in {"look", "state", "teleopStart"}
      BY <3>1 DEF Handles, LookUp, ShowState, TeleopStarts, Refuse, Commits, CommitFails
    <3>2. CASE kind \in {"teleopStop", "stop"}
      BY <3>2 DEF Handles, TeleopStops, StopEpisode, Refuse
    <3>3. CASE kind = "start"
      BY <3>3 DEF Handles, StartEpisode, Refuse, Commits, CommitFails
    <3>4. CASE kind = "upload"
      BY <3>4 DEF Handles, Upload, Refuse, Commits, CommitFails
    <3> QED BY <3>1, <3>2, <3>3, <3>4 DEF Kinds
  <2> QED BY <1>1, <2>1 DEF Untouched
<1>2. faults = 0 /\ ~Fault
  BY <1>1 DEF Fine, Fault
<1>3. /\ dropping = {} /\ (rt.episode # None => dir[rt.episode] = "open")
      /\ \A p \in Requests : Finds(req[p])
  BY <1>1, <1>2 DEF Untouched
<1>4. u \in Runtimes /\ u.episode = rt.episode /\ u.final = t.final
  BY EnsuredSays DEF SameWork
<1>5. ASSUME dropping' = dropping, dir' = dir, rt'.episode = rt.episode \/ rt'.episode = None,
             NEW x, req' = [req EXCEPT ![q] = x], Finds(x)
      PROVE  Untouched'
  BY <1>3, <1>5 DEF Untouched, Finds
<1>6. Finds(Unused) /\ Finds(Sending(c)) /\ \A k, d, E : Finds(At("stopping", k, d, E))
  BY NothingAsked DEF Finds, Sending, At
<1>7. CASE kind = "look"
  <2>1. rt' = t /\ Ends(q) /\ dir' = dir /\ dropping' = dropping
    BY <1>7 DEF Handles, LookUp, Refuse, disk
  <2> QED BY <1>5, <1>6, <2>1 DEF Ends
<1>8. CASE kind = "state"
  <2>1. rt' = u /\ Ends(q) /\ dir' = dir /\ dropping' = dropping
    BY <1>8 DEF Handles, ShowState, disk
  <2> QED BY <1>4, <1>5, <1>6, <2>1 DEF Ends
<1>9. CASE kind = "teleopStart"
  <2>1. rt' = u \/ rt' = Teleoperates(u)
    BY <1>2, <1>9 DEF Handles, TeleopStarts, Refuse, CommitFails
  <2>2. Ends(q) /\ dir' = dir /\ dropping' = dropping
    BY <1>2, <1>9 DEF Handles, TeleopStarts, Refuse, CommitFails, disk
  <2>3. rt'.episode = rt.episode
    BY <1>4, <2>1 DEF Teleoperates, Runtimes
  <2> QED BY <1>5, <1>6, <2>2, <2>3 DEF Ends
<1>10. CASE kind = "teleopStop"
  <2>1. \/ rt' = u /\ Ends(q)
        \/ rt' = Stopping(u) /\ Goes(q, "stopping", "none", c, {})
    BY <1>10 DEF Handles, TeleopStops, Refuse
  <2>2. dir' = dir /\ dropping' = dropping
    BY <1>10 DEF Handles, TeleopStops, Refuse, disk
  <2>3. rt'.episode = rt.episode
    BY <1>4, <2>1 DEF Stopping, Runtimes
  <2> QED BY <1>5, <1>6, <2>1, <2>2, <2>3 DEF Ends, Goes
<1>11. CASE kind = "upload"
  <2>1. rt' = u /\ dir' = dir /\ dropping' = dropping
    BY <1>11 DEF Handles, Upload, Refuse, disk
  <2>2. Ends(q) \/ Becomes(q, Sending(c))
    BY <1>11 DEF Handles, Upload, Refuse, Becomes, Sending, Intent
  <2> QED BY <1>4, <1>5, <1>6, <2>1, <2>2 DEF Ends, Becomes
<1>12. CASE kind = "stop"
  <2>1. CASE Refuse(q, r, u)
    BY <1>4, <1>5, <1>6, <2>1 DEF Refuse, Ends, disk
  <2>2. CASE u.episode # None /\ rt' = Finalizing(u) /\ Goes(q, "closing", "none", c, {u.episode})
             /\ UNCHANGED disk
    <3>1. Finds(At("closing", "none", c, {u.episode}))
      BY <1>3, <1>4, <2>2 DEF Finds, At
    <3>2. rt'.episode = None
      BY <1>4, <2>2 DEF Finalizing, Runtimes
    <3> QED BY <1>5, <2>2, <3>1, <3>2 DEF Goes, disk
  <2> QED BY <1>12, <2>1, <2>2 DEF Handles, StopEpisode
<1>13. CASE kind = "start"
  <2>1. CASE Refuse(q, r, u)
    BY <1>4, <1>5, <1>6, <2>1 DEF Refuse, Ends, disk
  <2> DEFINE e == Min(Available(u))
             on == [u EXCEPT !.episode = e, !.status = "recording"]
  <2>2. CASE Available(u) # {} /\ dir' = Opened(e) /\ rt' = on /\ UNCHANGED dropping /\ Ends(q)
    <3>1. e \in Episodes /\ dir[e] = "absent"
      <4>1. Available(u) \in SUBSET Nat
        BY EpisodesAreNumbers DEF Available
      <4>2. e \in Available(u)
        BY <2>2, <4>1, LeastOf
      <4> QED BY <4>2 DEF Available
    <3> HIDE DEF e
    <3>2. on.episode = e
      BY <1>4 DEF Runtimes
    <3>3. dir'[e] = "open" /\ \A f \in Episodes : dir[f] # "absent" => dir'[f] = dir[f]
      BY <2>2, <3>1 DEF Opened, Directories
    <3>4. \A p \in Requests : req'[p] = req[p] \/ req'[p] = Unused
      BY <2>2 DEF Ends
    <3>5. \A p \in Requests : req[p].eps \subseteq Episodes
      BY DEF Waiting
    <3>6. \A p \in Requests :
             /\ req'[p].at = "closing" => \A f \in req'[p].eps : dir'[f] = "open"
             /\ req'[p].at = "naming" => \A f \in req'[p].eps : dir'[f] = "renamed"
             /\ req'[p].at # "broken"
      BY <1>3, <1>6, <3>3, <3>4, <3>5, NothingAsked DEF Finds
    <3> QED BY <1>3, <2>2, <3>2, <3>3, <3>6 DEF Untouched, Finds
  <2> QED BY <1>2, <1>13, <2>1, <2>2 DEF Handles, StartEpisode, CommitFails
<1> QED BY <1>7, <1>8, <1>9, <1>10, <1>11, <1>12, <1>13 DEF Kinds

\* A request goes on to a place where it needs no files, and the files stay.
LEMMA StaysUntouched ==
    ASSUME Untouched, req \in [Requests -> Waiting], NEW q, q \in Requests,
           NEW x, req' = [req EXCEPT ![q] = x], x.at \notin {"closing", "naming", "broken"},
           dropping' = dropping, dir' = dir, rt'.episode = rt.episode, faults' = faults, sd' = sd
    PROVE  Untouched'
BY DEF Untouched, Finds

\* So does one that marks an interrupted upload.
LEMMA ServesUntouched ==
    ASSUME Untouched, NEW r, NEW t, NEW q, NEW kind, NEW c, NEW scanning,
           q \in Requests, kind \in Kinds, t \in Runtimes, c \in Rows, t.episode = rt.episode,
           req \in [Requests -> Waiting], dir \in Directories, rt \in Runtimes, faults \in Nat,
           sd' = sd, Serves(q, kind, c, r, t, scanning)
    PROVE  Untouched'
<1>1. CASE Handles(q, kind, c, r, t, scanning)
  BY <1>1, HandlesUntouched
<1>2. CASE Handles(q, kind, Interrupted(c), Stored(r, c, Interrupted(c)), t, scanning)
  <2>1. Interrupted(c) \in Rows
    BY RowsChanged
  <2> QED BY <1>2, <2>1, HandlesUntouched
<1>3. CASE CommitFails(r, c, Interrupted(c))
  BY <1>3 DEF CommitFails, Fault, Untouched
<1> QED BY <1>1, <1>2, <1>3 DEF Serves

\* So does an arriving request.
LEMMA ArriveUntouched ==
    ASSUME FilesInv, Untouched, NEW q, NEW kind, q \in Requests, kind \in Asks(q), Arrive(q, kind)
    PROVE  Untouched'
<1>1. /\ row \in Rows /\ rt \in Runtimes /\ req \in [Requests -> Waiting] /\ dir \in Directories
      /\ faults \in Nat /\ kind \in Kinds /\ sd' = sd
  BY DEF FilesInv, Fit, Typed, Asks, Kinds, Arrive, process
<1>2. CASE busy
  <2>1. Serves(q, kind, row, row, rt, TRUE)
    BY <1>2 DEF Arrive
  <2> QED BY <1>1, <2>1, ServesUntouched
<1>3. CASE ~busy
  <2>1. /\ req' = [req EXCEPT ![q] = At("scan", kind, row, InUse)]
        /\ UNCHANGED <<dir, dropping, rt, faults>>
    BY <1>3 DEF Arrive, Goes
  <2>2. At("scan", kind, row, InUse).at = "scan"
    BY DEF At
  <2> QED BY <1>1, <2>1, <2>2, StaysUntouched
<1> QED BY <1>2, <1>3

\* So does a merge.
LEMMA MergeUntouched ==
    ASSUME FilesInv, Untouched, NEW q, q \in Requests, Merge(q)
    PROVE  Untouched'
<1> DEFINE c == req[q].copy
           n == Merged(c, req[q].eps)
           kind == req[q].kind
           u == Refreshed(rt, n)
<1>1. /\ c \in Rows /\ rt \in Runtimes /\ req \in [Requests -> Waiting] /\ dir \in Directories
      /\ faults \in Nat /\ kind \in Kinds /\ sd' = sd /\ req[q].eps \in SUBSET Episodes
  BY DEF FilesInv, Fit, Typed, Merge, process, Waiting, Sound
<1>2. n \in Rows
  BY <1>1, RowsChanged
<1>3. u \in Runtimes /\ u.episode = rt.episode
  BY <1>1, <1>2, RuntimeEnsured DEF SameMotion
<1>4. CASE CommitFails(row, c, n)
  BY <1>1, <1>4 DEF CommitFails, Fault, Untouched
<1>5. CASE Serves(q, kind, n, Stored(row, c, n), u, FALSE)
  <2> HIDE DEF n, u, kind
  <2> QED BY <1>1, <1>2, <1>3, <1>5, ServesUntouched
<1> QED BY <1>4, <1>5 DEF Merge

\* So does a scan of the directories.
LEMMA ScanUntouched ==
    ASSUME FilesInv, Untouched, NEW q, q \in Requests, Scan(q)
    PROVE  Untouched'
<1>0. PICK lost \in SUBSET (Kept \ req[q].eps) :
         /\ Reads(lost) /\ dir' = Scanned(req[q].eps, lost)
         /\ Goes(q, "merge", req[q].kind, req[q].copy, Kept \ (req[q].eps \cup lost))
  BY DEF Scan
<1> DEFINE x == At("merge", req[q].kind, req[q].copy, Kept \ (req[q].eps \cup lost))
<1>1. /\ ScanSound(row, rt, req, req[q]) /\ req \in [Requests -> Waiting] /\ dir \in Directories
      /\ rt \in Runtimes /\ dir' = Scanned(req[q].eps, lost) /\ req' = [req EXCEPT ![q] = x]
      /\ UNCHANGED <<rt, dropping, sd>> /\ (faults' = 0 => faults = 0)
  <2>1. ScanSound(row, rt, req, req[q]) /\ req \in [Requests -> Waiting] /\ dir \in Directories
        /\ rt \in Runtimes
    BY DEF FilesInv, Fit, Typed, CopiesSound, Scan
  <2>2. dir' = Scanned(req[q].eps, lost) /\ req' = [req EXCEPT ![q] = x]
        /\ UNCHANGED <<rt, dropping, sd>>
    BY <1>0 DEF Scan, Goes
  <2>3. faults' = 0 => faults = 0
    BY <1>0 DEF FilesInv, Reads, Fine, Fault
  <2> QED BY <2>1, <2>2, <2>3
<1>2. x.at = "merge"
  BY DEF At
<1>3. \A e \in Episodes : e \in req[q].eps => dir'[e] = dir[e]
  BY <1>1 DEF Scanned, Directories
<1>4. \A p \in Requests : p # q => req'[p] = req[p]
  BY <1>1
<1>5. \A p \in Requests : req[p].at \in {"closing", "naming"} =>
         req[p].eps \subseteq req[q].eps /\ req[p].eps \subseteq Episodes
  BY <1>1 DEF ScanSound, Flies, Waiting
<1>6. rt.episode # None => rt.episode \in req[q].eps /\ rt.episode \in Episodes
  BY <1>1 DEF ScanSound, Runtimes
<1>7. req'[q] = x
  BY <1>1
<1> HIDE DEF x
<1>8. \A p \in Requests : Finds(req[p]) =>
             /\ req'[p].at = "closing" => \A f \in req'[p].eps : dir'[f] = "open"
             /\ req'[p].at = "naming" => \A f \in req'[p].eps : dir'[f] = "renamed"
             /\ req'[p].at # "broken"
  BY <1>2, <1>3, <1>4, <1>5, <1>7 DEF Finds
<1> QED BY <1>1, <1>3, <1>6, <1>8 DEF Untouched, Finds, process

\* Renaming and publishing an episode leave the next step what it looks for.
LEMMA RenamesUntouched ==
    ASSUME OneOperator, FilesInv, Untouched, NEW q, q \in Requests, Renames(q) \/ Publishes(q)
    PROVE  Untouched'
<1>1. /\ Fit(row, rt, req) /\ req \in [Requests -> Waiting] /\ dir \in Directories /\ faults \in Nat
      /\ req[q].at \in {"closing", "naming"} /\ UNCHANGED <<rt, dropping, sd>>
  BY DEF FilesInv, Fit, Typed, Renames, Publishes, process
<1>2. Subject(q) \in Episodes /\ req[q].eps = {Subject(q)}
  BY <1>1, SubjectIs
<1>3. Lone(req, q) /\ rt.episode = None
  BY <1>1, OneWorks DEF Fit, MotionSound, Flies
<1>4. SUFFICES ASSUME faults' = 0, sd = "up", faults = 0, ~Fault PROVE Untouched'
  <2>1. Fine \/ Fault
    BY DEF Renames, Publishes
  <2>2. faults' = 0 => faults = 0 /\ ~Fault
    BY <1>1, <2>1 DEF Fine, Fault
  <2> QED BY <1>1, <1>4, <2>2 DEF Untouched
<1>5. Finds(req[q]) /\ dropping = {}
  BY <1>4 DEF Untouched
<1>6. \/ dir' = [dir EXCEPT ![Subject(q)] = "renamed"] /\ Proceeds(q, "naming")
      \/ dir' = [dir EXCEPT ![Subject(q)] = "kept"] /\ Proceeds(q, "settled")
  BY <1>2, <1>4, <1>5 DEF Renames, Publishes, Finds
<1>7. /\ \A p \in Requests : p # q => req'[p] = req[p] /\ ~Flies(req[p])
      /\ req'[q].eps = {Subject(q)}
      /\ \/ req'[q].at = "naming" /\ dir'[Subject(q)] = "renamed"
         \/ req'[q].at = "settled"
  BY <1>1, <1>2, <1>3, <1>6 DEF Proceeds, Lone, Waiting, Directories
<1> QED BY <1>1, <1>3, <1>5, <1>7 DEF Untouched, Finds, Flies

\* The rest of a stop touches no files, unless something failed.
LEMMA RestsUntouched ==
    ASSUME FilesInv, Untouched, NEW q, q \in Requests,
           TeleopStopped(q) \/ StopSettles(q) \/ StopConfirms(q) \/ StopAborts(q) \/ FailsRow(q)
    PROVE  Untouched'
<1>1. /\ rt \in Runtimes /\ req \in [Requests -> Waiting] /\ faults \in Nat /\ sd' = sd
      /\ req[q].copy \in Rows
  BY DEF FilesInv, Fit, Typed, Waiting, TeleopStopped, StopSettles, StopConfirms, StopAborts, FailsRow, process
<1>2. SUFFICES ASSUME faults' = 0, sd = "up", faults = 0, ~Fault PROVE Untouched'
  <2>1. faults' = faults \/ Fault
    BY DEF TeleopStopped, StopSettles, StopConfirms, StopAborts, FailsRow, Commits, CommitFails, Fine,
           Aborts, Reads
  <2>2. faults' = 0 => faults = 0 /\ ~Fault
    BY <1>1, <2>1 DEF Fault
  <2> QED BY <1>1, <1>2, <2>2 DEF Untouched
<1>3. Unused.at = "free" /\ \A c : At("confirm", "none", c, {}).at = "confirm"
  BY NothingAsked DEF At
<1>4. CASE TeleopStopped(q)
  <2>1. /\ Ends(q) /\ dir' = dir /\ dropping' = dropping
        /\ rt' = [rt EXCEPT !.teleop = "off", !.status = Counted(rt), !.err = "none"]
    BY <1>2, <1>4 DEF TeleopStopped, CommitFails
  <2>2. rt'.episode = rt.episode
    BY <1>1, <2>1 DEF Runtimes
  <2> QED BY <1>1, <1>2, <1>3, <2>1, <2>2, StaysUntouched DEF Ends
<1>5. CASE StopSettles(q)
  <2>1. /\ rt' = Finalized(rt) /\ dir' = dir /\ dropping' = dropping
        /\ \E c : req' = [req EXCEPT ![q] = At("confirm", "none", c, {})]
    BY <1>2, <1>5 DEF StopSettles, CommitFails, Goes
  <2>2. rt'.episode = rt.episode
    BY <1>1, <2>1 DEF Runtimes, Finalized, Fails
  <2> QED BY <1>1, <1>2, <1>3, <2>1, <2>2, StaysUntouched
<1>6. CASE StopConfirms(q)
  <2>1. /\ rt' = Confirmed(rt, req[q].copy) /\ dir' = dir /\ dropping' = dropping /\ Ends(q)
    BY <1>2, <1>6 DEF StopConfirms, CommitFails
  <2>2. rt'.episode = rt.episode
    BY <1>1, <2>1 DEF Runtimes, Confirmed, Fails
  <2> QED BY <1>1, <1>2, <1>3, <2>1, <2>2, StaysUntouched DEF Ends
<1>7. CASE StopAborts(q)
  BY <1>2, <1>7 DEF StopAborts, Untouched, Finds
<1>8. CASE FailsRow(q)
  <2>1. UNCHANGED <<rt, dir, dropping>> /\ Ends(q)
    BY <1>8 DEF FailsRow, disk
  <2> QED BY <1>1, <1>2, <1>3, <2>1, StaysUntouched DEF Ends
<1> QED BY <1>4, <1>5, <1>6, <1>7, <1>8

\* An upload touches no episode that is being recorded.
LEMMA UploadsUntouched ==
    ASSUME OneOperator, FilesInv, Untouched, NEW q, q \in Requests,
           \/ Converts(q) \/ Looks(q) \/ Creates(q) \/ Marks(q)
           \/ UploadSucceeds(q) \/ UploadFails(q) \/ UploadCollides(q) \/ CleanBegins(q)
    PROVE  Untouched'
<1>1. /\ rt \in Runtimes /\ req \in [Requests -> Waiting] /\ faults \in Nat /\ sd' = sd
      /\ req[q] \in Waiting /\ rt' = rt /\ dir' = dir /\ dropping' = dropping
  BY DEF FilesInv, Fit, Typed, Converts, Looks, Creates, Marks, UploadSucceeds, UploadFails, UploadCollides,
     CleanBegins, Quietly, Gives, process, disk
<1>2. SUFFICES ASSUME faults' = faults PROVE Untouched'
  <2>1. faults' = faults \/ Fault
    BY DEF Converts, Looks, Creates, Marks, UploadSucceeds, UploadFails, UploadCollides, CleanBegins, Quietly,
       Gives, Commits, CommitFails, Fine
  <2> QED BY <1>1, <1>2, <2>1 DEF Fault, Untouched
<1>3. /\ Unused.at = "free" /\ At("sent", "none", Blank, {}).at = "sent"
      /\ At("cleaning", "none", Blank, {}).at = "cleaning"
      /\ \A at \in {"look", "create", "mark", "send", "collided"} : [req[q] EXCEPT !.at = at].at = at
  BY <1>1, NothingAsked DEF At, Waiting
<1>4. CASE Converts(q) \/ Looks(q) \/ Creates(q) \/ Marks(q)
  <2>1. PICK at \in {"look", "create", "mark", "send", "collided"} : Proceeds(q, at)
    BY <1>4 DEF Converts, Looks, Creates, Marks
  <2>2. req' = [req EXCEPT ![q] = [req[q] EXCEPT !.at = at]]
    BY <2>1 DEF Proceeds
  <2>3. [req[q] EXCEPT !.at = at].at \notin {"closing", "naming", "broken"}
    BY <1>3
  <2> QED BY <1>1, <1>2, <2>2, <2>3, StaysUntouched
<1>5. CASE UploadSucceeds(q) \/ UploadFails(q) \/ UploadCollides(q) \/ CleanBegins(q)
  <2>1. Ends(q) \/ Goes(q, "sent", "none", Blank, {}) \/ Goes(q, "cleaning", "none", Blank, {})
    BY <1>5 DEF UploadSucceeds, UploadFails, UploadCollides, CleanBegins, Gives, Releases
  <2> QED BY <1>1, <1>2, <1>3, <2>1, StaysUntouched DEF Ends, Goes
<1> QED BY <1>4, <1>5

\* Nor does its clean-up.
LEMMA CleansUntouched ==
    ASSUME OneOperator, FilesInv, Untouched, NEW q, q \in Requests, CleanEnds(q)
    PROVE  Untouched'
<1>1. /\ Fit(row, rt, req) /\ req \in [Requests -> Waiting] /\ faults \in Nat
      /\ req[q].at = "cleaning" /\ UNCHANGED <<rt, dropping, sd>> /\ Ends(q) /\ Removed(dir)
  BY DEF FilesInv, Fit, Typed, CleanEnds, Releases, process
<1>2. Lone(req, q) /\ rt.episode = None
  BY <1>1, OneWorks DEF Fit, PlacesSound, Uploads
<1>3. \A p \in Requests : ~Flies(req'[p])
  BY <1>1, <1>2, NothingAsked DEF Ends, Lone, Flies
<1>4. faults' = 0 => faults = 0
  BY <1>1 DEF Removed, Fine, Fault
<1> QED BY <1>1, <1>2, <1>3, <1>4 DEF Untouched, Finds, Flies

\* Nor do the tasks and faults beside the requests.
LEMMA OthersUntouched ==
    ASSUME FilesInv, Untouched,
           \/ TeleopReleases \/ TeleopBreaks \/ \E e \in Episodes : Drops(e)
           \/ BeginShutdown \/ EndShutdown \/ Restart
    PROVE  Untouched'
<1>1. faults \in Nat /\ rt \in Runtimes
  BY DEF FilesInv, Fit, Typed
<1>2. CASE TeleopReleases
  <2>1. rt'.episode = rt.episode
    BY <1>1, <1>2 DEF TeleopReleases, Runtimes
  <2> QED BY <1>1, <1>2, <2>1 DEF TeleopReleases, Fine, Fault, Untouched, Finds, disk, process
<1>3. CASE TeleopBreaks
  BY <1>1, <1>3 DEF TeleopBreaks, Fault, Untouched
<1>4. CASE \E e \in Episodes : Drops(e)
  <2>1. PICK e \in dropping : Aborts({e}) /\ sd' = sd
    BY <1>4 DEF Drops
  <2>2. faults' = 0 => faults = 0
    BY <1>1, <2>1 DEF Aborts, Reads, Fine, Fault
  <2> QED BY <2>1, <2>2 DEF Untouched
<1>5. CASE BeginShutdown \/ EndShutdown
  BY <1>5 DEF BeginShutdown, EndShutdown, Untouched
<1>6. CASE Restart
  BY <1>6, NothingAsked DEF Restart, Untouched, Finds, Quiet
<1> QED BY <1>2, <1>3, <1>4, <1>5, <1>6

-----------------------------------------------------------------------------
(* Aborts, confirmations and failures *)

\* Aborting an episode's finalization keeps the invariant.
LEMMA StopAbortsFiles ==
    ASSUME OneOperator, FilesInv, Untouched, NEW q, q \in Requests, StopAborts(q)
    PROVE  FilesInv'
<1> DEFINE x == At("failRow", "none", req[q].copy, {})
           v == [req EXCEPT ![q] = x]
           u == [rt EXCEPT !.final = None]
<1>1. /\ Fit(row, rt, req) /\ TurnsSound /\ faults \in Nat /\ rt \in Runtimes /\ dir \in Directories
      /\ req \in [Requests -> Waiting] /\ req[q].copy \in Rows /\ req[q].eps \in SUBSET Episodes
      /\ req[q].at = "broken" /\ Aborts(req[q].eps) /\ rt' = Compensated(rt)
      /\ Goes(q, "failRow", "none", req[q].copy, {})
      /\ UNCHANGED <<row, busy, remote, sd>>
  BY DEF FilesInv, Fit, Typed, StopAborts, Waiting, Compensates
<1>2. Lone(req, q)
  BY <1>1, OneWorks
<1>3. x \in Waiting /\ Sound(x) /\ x.at = "failRow" /\ req' = v
  BY <1>1, WaitingAt DEF At, Sound, Places, Goes
<1>4. Landed(rt, u) /\ Compensated(u) = Compensated(rt)
  BY <1>1 DEF Landed, Compensated, Runtimes
<1>5. Loses
  BY <1>1, AbortsLose
<1>6. faults' # 0 \/ sd # "up"
  BY <1>1, <1>5 DEF Untouched, Finds, Loses
<1>7. ~reserved
  BY <1>1, <1>2 DEF Fit, PlacesSound, Lone, Uploads, Sends
<1> HIDE DEF x, u
<1>8. /\ Fit(row, u, v) /\ (adrift = {} => Listable(row, v))
      /\ \A p \in Requests : ~Flies(v[p])
  BY <1>1, <1>2, <1>3, <1>4, LandFit DEF Calm
<1>9. \A p \in Operators : ~Reconciles(v[p])
  BY <1>1, <1>2, <1>3 DEF Lone, Reconciles
<1>10. ~Holds(x)
  BY <1>3 DEF Holds
<1> HIDE DEF v
<1>11. Elsewhere /\ row' = row /\ rt' = Compensated(u) /\ req' = v
  BY <1>1, <1>3, <1>4, <1>5 DEF Elsewhere, Loses, remote
<1>12. Fit(row, rt, req)' /\ QuietSound(rt)'
  BY <1>6, <1>7, <1>8, <1>9, <1>11, CompensatedFit
<1>13. TurnsSound'
  <2>1. req' = [req EXCEPT ![q] = x]
    BY <1>3 DEF v
  <2> QED BY <1>1, <1>2, <1>10, <2>1, WorkTurns
<1> QED BY <1>5, <1>12, <1>13 DEF FilesInv, Loses

\* Confirming a finalized episode keeps the invariant.
LEMMA StopConfirmsFiles ==
    ASSUME OneOperator, FilesInv, NEW q, q \in Requests, StopConfirms(q)
    PROVE  FilesInv'
<1> DEFINE c == req[q].copy
           u == Confirmed(rt, c)
           n == [row EXCEPT !.status = u.status]
           v == [req EXCEPT ![q] = Unused]
<1>1. /\ Fit(row, rt, req) /\ TurnsSound /\ faults \in Nat /\ rt \in Runtimes /\ dir \in Directories
      /\ req \in [Requests -> Waiting] /\ c \in Rows /\ row \in Rows
      /\ req[q].at = "confirm" /\ Ends(q)
      /\ UNCHANGED <<dir, busy, remote, process>>
  BY DEF FilesInv, Fit, Typed, StopConfirms, Waiting
<1>2. Lone(req, q)
  BY <1>1, OneWorks
<1>3. c.status \notin Bad
  BY <1>1 DEF Fit, StatusSound
<1>4. /\ u \in Runtimes /\ u.teleop = rt.teleop /\ u.episode = rt.episode /\ u.final = None
      /\ u.status \in {c.status, "failed"}
  BY <1>1 DEF Confirmed, Fails, Runtimes, Rows, Statuses
<1> HIDE DEF u
<1>5. Landed(rt, u) /\ u.status \in Statuses /\ u.status \notin Bad
  BY <1>3, <1>4 DEF Landed, Runtimes, Bad
<1>6. Fit(n, rt, req)
  <2>1. ~Over(row, rt, req)
    BY <1>1 DEF Over, Reconciles
  <2> QED BY <1>1, <1>5, <2>1, StatusFit DEF Bad
<1>7. row' = row \/ row' = n
  <2>1. row' = row \/ row' = Stored(row, c, With(c, u.status))
    BY DEF StopConfirms, Commits, CommitFails, u
  <2>2. row = [row EXCEPT !.status = row.status]
    BY <1>1 DEF Rows
  <2> QED BY <1>1, <1>5, <2>1, <2>2, StatusStored
<1> HIDE DEF n
<1>8. Fit(row', rt, req)
  BY <1>1, <1>6, <1>7
<1>9. Unused \in Waiting /\ Sound(Unused) /\ Unused.at = "free"
  BY NothingAsked
<1>10. /\ Fit(row', u, v) /\ (adrift = {} => Listable(row', v)) /\ \A p \in Requests : ~Flies(v[p])
  BY <1>1, <1>2, <1>5, <1>8, <1>9, LandFit DEF Calm
<1>11. req' = v /\ (Fine \/ Fault) /\ (rt' = u \/ (rt' = Compensated(u) /\ Fault))
  BY DEF StopConfirms, Ends, Commits, CommitFails, Compensates, u
<1>12. Elsewhere
  BY <1>1, <1>11 DEF Elsewhere, remote, process, Kept, Fine, Fault
<1>13. TurnsSound'
  BY <1>1, <1>2, <1>9, <1>11, WorkTurns DEF Holds
<1> HIDE DEF v
<1>14. CASE rt' = u
  <2>1. Fit(row, rt, req)'
    BY <1>10, <1>11, <1>12, <1>14, NowFit
  <2>2. QuietSound(rt)'
    BY <1>5, <1>14 DEF QuietSound, Bad
  <2> QED BY <1>12, <1>13, <2>1, <2>2 DEF FilesInv, Elsewhere
<1>15. CASE rt' = Compensated(u) /\ Fault
  <2>1. faults' # 0
    BY <1>1, <1>15 DEF Fault
  <2>2. Fit(row, rt, req)' /\ QuietSound(rt)'
    BY <1>10, <1>11, <1>12, <1>15, <2>1, CompensatedFit
  <2> QED BY <1>12, <1>13, <2>2 DEF FilesInv, Elsewhere
<1> QED BY <1>11, <1>14, <1>15

\* Writing a failure on the row keeps the invariant.
LEMMA FailsRowFiles ==
    ASSUME OneOperator, FilesInv, NEW q, q \in Requests, FailsRow(q)
    PROVE  FilesInv'
<1> DEFINE c == req[q].copy
           n == [row EXCEPT !.status = "failed"]
           v == [req EXCEPT ![q] = Unused]
<1>1. /\ Fit(row, rt, req) /\ TurnsSound /\ faults \in Nat /\ rt \in Runtimes /\ dir \in Directories
      /\ req \in [Requests -> Waiting] /\ c \in Rows /\ row \in Rows /\ QuietSound(rt)
      /\ req[q].at = "failRow" /\ req' = v
      /\ UNCHANGED <<rt, disk, busy, remote, process>>
      /\ row' = row \/ row' = Stored(row, c, With(c, "failed"))
      /\ Fine \/ Fault
  BY DEF FilesInv, Fit, Typed, FailsRow, Waiting, Ends, Commits, CommitFails
<1>2. Lone(req, q)
  BY <1>1, OneWorks
<1>3. ~Over(row, rt, req)
  BY <1>1 DEF Over, Reconciles
<1>4. Fit(n, rt, req)
  BY <1>1, <1>3, StatusFit DEF Bad, Statuses
<1>5. row' = row \/ row' = n
  <2>1. row = [row EXCEPT !.status = row.status]
    BY <1>1 DEF Rows
  <2> QED BY <1>1, <2>1, StatusStored DEF Statuses
<1> HIDE DEF n
<1>6. Fit(row', rt, req)
  BY <1>1, <1>4, <1>5
<1>7. Unused \in Waiting /\ Sound(Unused) /\ Unused.at = "free"
  BY NothingAsked
<1>8. Fit(row', rt, v)
  BY <1>1, <1>2, <1>6, <1>7, CalmFit DEF Calm, Lone
<1>9. Elsewhere
  BY <1>1, StillElsewhere
<1>10. TurnsSound'
  BY <1>1, <1>2, <1>7, WorkTurns DEF Holds
<1> HIDE DEF v
<1>11. Fit(row, rt, req)'
  BY <1>1, <1>8, <1>9, NowFit
<1>12. QuietSound(rt)'
  BY <1>1, <1>9, QuietStays
<1> QED BY <1>9, <1>10, <1>11, <1>12 DEF FilesInv, Elsewhere

-----------------------------------------------------------------------------
(* Teleoperation comes down *)

\* Teleoperation that has come down leaves what it recorded as it is.
Off(t, u) ==
    /\ u \in Runtimes /\ u.teleop = "off"
    /\ u.episode = t.episode /\ u.final = t.final /\ u.task = t.task
    /\ u.status \in {t.status, "ready", "draft"}

\* Teleoperation that is off agrees with the row it left.
LEMMA OffFit ==
    ASSUME NEW r, NEW t, NEW w, NEW u, Fit(r, t, w), Elsewhere, Off(t, u),
           row' = r, rt' = u, req' = w,
           adrift = {} => ~Over(r, t, w) \/ Listable(r, w),
           adrift = {} /\ faults' <= 1 /\ u.status = "uploading" => u.err = "none"
    PROVE  Fit(row, rt, req)'
<1>1. /\ u \in Runtimes /\ u.teleop = "off"
      /\ u.episode = t.episode /\ u.final = t.final /\ u.task = t.task
      /\ u.status \in {t.status, "ready", "draft"}
  BY DEF Off
<1>2. AtWork(u, w) = AtWork(t, w) /\ AtWork(rt, req)' = AtWork(t, w)
      /\ Kept' \subseteq Kept /\ Kept \subseteq Kept' \cup adrift' /\ adrift \subseteq adrift'
      /\ (adrift' = {} => adrift = {} /\ Kept' = Kept)
  BY <1>1 DEF AtWork, Elsewhere
<1>3. Typed(row, rt, req)' /\ MotionSound(rt, req)'
  BY <1>1 DEF Fit, Typed, MotionSound, Elsewhere
<1>4. PlacesSound(rt, req)'
  BY <1>1 DEF Fit, PlacesSound, Elsewhere
<1>5. StatusSound(row, rt, req)'
  BY <1>1, <1>2 DEF Fit, StatusSound, Bad
<1>6. KeptSound(row, rt, req)'
  BY <1>1, <1>2 DEF Fit, KeptSound, Settles, Flying, Elsewhere
<1>7. CopiesSound(row, rt, req)'
  <2>1. \A q \in Requests : req'[q].at = "scan" => ScanSound(row, rt, req, req[q])'
    BY <1>1, <1>2 DEF Fit, CopiesSound, ScanSound, Elsewhere
  <2>2. \A q \in Requests : req'[q].at = "merge" => MergeSound(row, rt, req, req[q])'
    BY <1>1, <1>2 DEF Fit, CopiesSound, MergeSound, Elsewhere
  <2> QED BY <1>1, <2>1, <2>2 DEF Fit, CopiesSound, Elsewhere
<1>8. UploadedSound(row, rt, req)'
  BY <1>1, <1>2 DEF Fit, UploadedSound, SaysUploaded, Elsewhere
<1>9. ListSound(row, rt, req)'
  BY <1>1, <1>2 DEF Fit, ListSound, Listable, Remote, Elsewhere
<1>10. TargetSound(row, rt, req)'
  BY <1>1 DEF Fit, TargetSound, Elsewhere
<1> QED BY <1>3, <1>4, <1>5, <1>6, <1>7, <1>8, <1>9, <1>10 DEF Fit

\* Teleoperation's own release keeps the invariant.
LEMMA TeleopReleasesFiles ==
    ASSUME OneOperator, FilesInv, TeleopReleases
    PROVE  FilesInv'
<1>1. /\ Fit(row, rt, req) /\ TurnsSound /\ QuietSound(rt) /\ faults \in Nat /\ rt \in Runtimes /\ dir \in Directories
      /\ rt.teleop = "closing" /\ UNCHANGED <<row, disk, busy, remote, req, process>>
      /\ \/ Fine /\ rt' = [rt EXCEPT !.teleop = "off"]
         \/ Fault /\ rt' = [rt EXCEPT !.teleop = "off", !.err = "other"]
  BY DEF FilesInv, Fit, Typed, TeleopReleases
<1>2. Off(rt, rt') /\ rt'.status = rt.status /\ (rt'.err = rt.err \/ faults' = faults + 1)
  BY <1>1 DEF Off, Runtimes, Fault
<1>3. Elsewhere
  BY <1>1, StillElsewhere
<1>4. adrift = {} /\ faults' <= 1 /\ rt'.status = "uploading" => rt'.err = "none"
  <2>1. SUFFICES ASSUME adrift = {}, faults' <= 1, rt.status = "uploading" PROVE rt'.err = "none"
    BY <1>2
  <2>2. faults <= 1
    BY <1>1, <1>3, <2>1 DEF Elsewhere
  <2>3. rt.err = "none"
    BY <1>1, <2>1, <2>2 DEF Fit, TargetSound
  <2>4. faults # 0
    BY <1>1, <2>1 DEF QuietSound
  <2> QED BY <1>1, <1>2, <2>1, <2>3, <2>4
<1>5. ~Over(row, rt, req)
  BY <1>1 DEF Over
<1>6. Fit(row, rt, req)'
  BY <1>1, <1>2, <1>3, <1>4, <1>5, OffFit
<1>7. TurnsSound'
  BY <1>1, <1>2, <1>3 DEF TurnsSound, Off, Elsewhere
<1>8. QuietSound(rt)'
  BY <1>2 DEF QuietSound, Off
<1> QED BY <1>3, <1>6, <1>7, <1>8 DEF FilesInv, Elsewhere

\* The end of a stop of teleoperation keeps the invariant.
LEMMA TeleopStoppedFiles ==
    ASSUME OneOperator, FilesInv, NEW q, q \in Requests, TeleopStopped(q)
    PROVE  FilesInv'
<1> DEFINE c == req[q].copy
           clean == [rt EXCEPT !.teleop = "off", !.status = Counted(rt), !.err = "none"]
           n == [row EXCEPT !.status = clean.status]
           v == [req EXCEPT ![q] = Unused]
<1>1. /\ Fit(row, rt, req) /\ TurnsSound /\ faults \in Nat /\ rt \in Runtimes /\ dir \in Directories
      /\ req \in [Requests -> Waiting] /\ c \in Rows /\ row \in Rows
      /\ req[q].at = "stopping" /\ req' = v
      /\ UNCHANGED <<dir, busy, remote, process>>
  BY DEF FilesInv, Fit, Typed, TeleopStopped, Waiting, Ends
<1>2. Lone(req, q)
  BY <1>1, OneWorks
<1>3. /\ Off(rt, clean) /\ clean \in Runtimes /\ clean.status \in {"ready", "draft"}
      /\ clean.err = "none" /\ BroughtDown(rt, Compensated(clean))
  <2>1. clean \in Runtimes /\ clean.status \in {"ready", "draft"} /\ clean.teleop = "off"
    BY <1>1 DEF Counted, Runtimes, Statuses
  <2>2. Off(rt, clean) /\ clean.err = "none"
    BY <1>1, <2>1 DEF Off, Runtimes
  <2> HIDE DEF clean
  <2>3. Compensated(clean) \in Runtimes
    BY <2>1, RuntimeCompensated
  <2>4. BroughtDown(rt, Compensated(clean))
    BY <2>1, <2>3 DEF BroughtDown, Compensated, Runtimes
  <2> QED BY <2>1, <2>2, <2>4
<1> DEFINE off == [rt EXCEPT !.teleop = "off"]
<1>4. Off(rt, off) /\ off.err = rt.err /\ off.status = rt.status
  BY <1>1 DEF Off, Runtimes
<1>5. \/ row' = row \/ row' = Stored(row, c, With(c, clean.status))
  BY DEF TeleopStopped, Commits, CommitFails
<1>6. \/ rt' = clean \/ rt' = off
      \/ rt' = Compensated(clean) /\ faults' # 0
  <2>1. Fault => faults' # 0
    BY <1>1 DEF Fault
  <2> QED BY <2>1 DEF TeleopStopped, CommitFails, Compensates
<1>7. Elsewhere
  <2>1. Fine \/ Fault
    BY DEF TeleopStopped, Commits, CommitFails
  <2> QED BY <1>1, <2>1 DEF Elsewhere, remote, process, Kept, Fine, Fault
<1> HIDE DEF clean, off
<1>8. row' = row \/ row' = n
  <2>1. row = [row EXCEPT !.status = row.status]
    BY <1>1 DEF Rows
  <2>2. clean.status \in Statuses
    BY <1>3 DEF Statuses
  <2> QED BY <1>1, <1>5, <2>1, <2>2, StatusStored
<1>9. ~Over(row, rt, req) /\ ~Over(n, rt, req)
  BY <1>1 DEF Over, Reconciles
<1>10. Fit(n, rt, req)
  BY <1>1, <1>3, <1>9, StatusFit DEF Bad, Statuses
<1> HIDE DEF n
<1>11. Fit(row', rt, req) /\ ~Over(row', rt, req)
  BY <1>1, <1>8, <1>9, <1>10
<1>12. Unused \in Waiting /\ Sound(Unused) /\ Unused.at = "free"
  BY NothingAsked
<1>13. Fit(row', rt, v)
  BY <1>1, <1>2, <1>11, <1>12, CalmFit DEF Calm, Lone
<1>14. TurnsSound'
  BY <1>1, <1>2, <1>7, <1>12, WorkTurns DEF Holds
<1>15. /\ v[q] = Unused /\ \A p \in Requests : p # q => v[p] = req[p]
  BY <1>1
<1> HIDE DEF v
<1>16. \A p \in Requests : ~Flies(v[p])
  BY <1>2, <1>12, <1>15 DEF Lone, Flies
<1>17. adrift = {} => Listable(row', v)
  <2>1. adrift = {} => row'.eps \subseteq Kept \/ Remote(row', req)
    BY <1>11 DEF Fit, ListSound
  <2>2. Remote(row', req) => Remote(row', v)
    BY <1>12, <1>15 DEF Remote, Reconciles, Sends
  <2> QED BY <2>1, <2>2 DEF Listable
<1>18. CASE rt' = clean \/ rt' = off
  <2>1. Off(rt, rt') /\ rt'.teleop = "off"
    BY <1>3, <1>4, <1>18 DEF Off
  <2>2. adrift = {} /\ faults' <= 1 /\ rt'.status = "uploading" => rt'.err = "none"
    <3>1. faults' <= 1 => faults <= 1
      BY <1>7 DEF Elsewhere
    <3> QED BY <1>1, <1>3, <1>4, <1>18, <3>1 DEF Fit, TargetSound
  <2>3. Fit(row, rt, req)'
    BY <1>1, <1>7, <1>13, <1>17, <2>1, <2>2, OffFit
  <2>4. QuietSound(rt)'
    BY <2>1 DEF QuietSound
  <2> QED BY <1>7, <1>14, <2>3, <2>4 DEF FilesInv, Elsewhere
<1>19. CASE rt' = Compensated(clean) /\ faults' # 0
  <2>1. Fit(row, rt, req)' /\ QuietSound(rt)'
    BY <1>1, <1>3, <1>7, <1>13, <1>16, <1>17, <1>19, BroughtDownFit
  <2> QED BY <1>7, <1>14, <2>1 DEF FilesInv, Elsewhere
<1> QED BY <1>6, <1>18, <1>19

-----------------------------------------------------------------------------
(* An upload gets on *)

\* While an upload is under way nothing moves, and no other request does more than read.
LEMMA OneUploads ==
    ASSUME OneOperator, Fit(row, rt, req), NEW q, q \in Requests, Uploads(req[q])
    PROVE  /\ Lone(req, q) /\ reserved /\ rt.episode = None /\ rt.teleop # "on" /\ rt.final = None
           /\ ~AtWork(rt, req) /\ ~Flies(req[q]) /\ ~Reconciles(req[q])
           /\ \A e : ~Settles(req, e)
           /\ \A p \in Requests : ~Flies(req[p]) /\ req[p].at # "confirm"
<1>1. Lone(req, q)
  BY OneWorks DEF Uploads, Sends
<1>2. ~Flies(req[q]) /\ ~Reconciles(req[q]) /\ req[q].at # "confirm"
  BY DEF Uploads, Sends, Flies, Reconciles
<1>3. reserved /\ rt.episode = None /\ rt.teleop # "on"
  BY DEF Fit, PlacesSound
<1>4. \A p \in Requests : ~Flies(req[p]) /\ req[p].at # "confirm"
  BY <1>1, <1>2 DEF Lone
<1>5. rt.final = None
  BY <1>4 DEF Fit, MotionSound
<1> QED BY <1>1, <1>2, <1>3, <1>4, <1>5 DEF AtWork, Settles, Flies

\* An upload gets on with the repository.
SendsOn(q, b) ==
    /\ Sends(req[q]) /\ b \in {"look", "create", "mark", "send", "collided"}
    /\ Proceeds(q, b) /\ UNCHANGED <<row, rt, dir, reserved, hub, sd, adrift, faults, busy>>
    /\ adrift = {} =>
          /\ repo = "ours" => repo' = "ours"
          /\ b = "send" => repo' = "ours"
          /\ b = "create" => repo' = "absent"
          /\ b = "collided" /\ req[q].trusted => repo' # "ours"
          /\ faults <= 1 /\ (b = "collided" \/ (b = "look" /\ ~req[q].trusted)) =>
                repo' \notin {"bare", "ours"}

\* An upload that gets on with the repository keeps the invariant.
LEMMA SendsOnFiles ==
    ASSUME OneOperator, FilesInv, NEW q, NEW b, q \in Requests, SendsOn(q, b)
    PROVE  FilesInv'
<1> DEFINE x == [req[q] EXCEPT !.at = b]
           v == req'
<1>0. /\ Fit(row, rt, req) /\ TurnsSound /\ QuietSound(rt) /\ faults \in Nat
      /\ req[q] \in Waiting /\ Sound(req[q]) /\ req \in [Requests -> Waiting]
      /\ \A p \in Requests : Sound(req[p])
  BY DEF FilesInv, Fit, Typed
<1>1. /\ Sends(req[q]) /\ Uploads(req[q]) /\ b \in {"look", "create", "mark", "send", "collided"}
      /\ v = [req EXCEPT ![q] = x]
      /\ row' = row /\ rt' = rt /\ dir' = dir /\ reserved' = reserved /\ hub' = hub /\ sd' = sd
      /\ adrift' = adrift /\ faults' = faults /\ busy' = busy /\ Kept' = Kept
  BY DEF SendsOn, Uploads, Proceeds, Kept
<1>2. /\ x.at = b /\ x.kind = req[q].kind /\ x.copy = req[q].copy /\ x.trusted = req[q].trusted
      /\ x \in Waiting /\ Sound(x)
  BY <1>0, <1>1 DEF Waiting, Places, Sound, Sends
<1>3. /\ Lone(req, q) /\ reserved /\ rt.episode = None /\ rt.teleop # "on" /\ rt.final = None
      /\ ~AtWork(rt, req)
      /\ \A p \in Requests : ~Flies(req[p]) /\ req[p].at # "confirm"
  BY <1>0, <1>1, OneUploads
<1> HIDE DEF v, x
<1>4. /\ v[q] = x /\ \A p \in Requests : p # q => v[p] = req[p]
      /\ v \in [Requests -> Waiting] /\ \A p \in Requests : Sound(v[p])
  BY <1>0, <1>1, <1>2
<1>5. /\ Sends(x) /\ Uploads(x) /\ ~Flies(x) /\ ~Reconciles(x) /\ ~Reconciles(req[q]) /\ ~Holds(x)
      /\ x.at \notin {"scan", "merge", "settled", "confirm", "sent", "cleaning"}
      /\ req[q].at \notin {"scan", "merge", "settled", "confirm", "sent", "cleaning", "free"}
  BY <1>1, <1>2 DEF Sends, Uploads, Flies, Reconciles, Holds
<1>6. /\ \A p \in Requests : p # q => v[p] = req[p] /\ p \in Pollers /\ v[p].at \in {"free", "scan", "merge"}
      /\ \A p \in Requests : Reconciles(v[p]) = Reconciles(req[p]) /\ (Reconciles(v[p]) => v[p] = req[p] /\ p # q)
      /\ \A p \in Requests : Uploads(v[p]) \/ Sends(v[p]) => p = q
      /\ \A p \in Requests : ~Flies(v[p]) /\ ~Flies(req[p])
      /\ \A p \in Operators : p = q /\ ~Reconciles(v[p])
      /\ \A p \in Requests : v[p].at \notin {"settled", "confirm", "sent", "cleaning"}
                              /\ req[p].at \notin {"sent", "cleaning"}
      /\ q \notin Pollers
  BY <1>3, <1>4, <1>5 DEF Lone, Reconciles
<1>7. ~AtWork(rt, v)
  BY <1>3, <1>6 DEF AtWork
<1>8. Typed(row, rt, req)'
  BY <1>0, <1>1, <1>4 DEF Fit, Typed, v
<1>9. PlacesSound(rt, req)'
  <2>1. \A p \in Pollers : /\ v[p].at \in {"free", "scan", "merge"}
                           /\ Reconciles(v[p]) => v[p].kind = "state"
    BY <1>0, <1>6, RecordingBounds DEF Fit, PlacesSound
  <2>2. \A p \in Requests : Sends(v[p]) =>
           /\ v[p].kind \in {"ready", "failed"}
           /\ v[p].copy.status = "uploading" /\ v[p].copy.upload = "uploading"
    BY <1>0, <1>1, <1>2, <1>4, <1>6 DEF Fit, PlacesSound
  <2>3. \E p \in Requests : Uploads(v[p])
    BY <1>4, <1>5
  <2> QED BY <1>1, <1>3, <1>6, <2>1, <2>2, <2>3 DEF PlacesSound, v
<1>10. MotionSound(rt, req)'
  BY <1>1, <1>3, <1>6 DEF MotionSound, v
<1>11. StatusSound(row, rt, req)'
  BY <1>1, <1>3, <1>6, <1>7 DEF StatusSound, v
<1>12. KeptSound(row, rt, req)'
  <2>1. \A e \in Kept : e \in row.eps \/ e \in adrift
    BY <1>0, <1>1, OneUploads DEF Fit, KeptSound
  <2> QED BY <1>1, <1>6, <1>7, <2>1 DEF KeptSound, v
<1>13. CopiesSound(row, rt, req)'
  <2>0. CopiesSound(row, rt, req)
    BY <1>0 DEF Fit
  <2>1. \A p \in Requests : v[p].at = "scan" => ScanSound(row, rt, req, req[p])'
    <3>1. SUFFICES ASSUME NEW p \in Requests, v[p].at = "scan" PROVE ScanSound(row, rt, req, req[p])'
      OBVIOUS
    <3>2. v[p] = req[p] /\ ScanSound(row, rt, req, req[p])
      BY <1>6, <2>0, <3>1 DEF CopiesSound, Reconciles
    <3> QED BY <1>1, <1>6, <3>2 DEF ScanSound, v
  <2>2. \A p \in Requests : v[p].at = "merge" => MergeSound(row, rt, req, req[p])'
    <3>1. SUFFICES ASSUME NEW p \in Requests, v[p].at = "merge" PROVE MergeSound(row, rt, req, req[p])'
      OBVIOUS
    <3>2. v[p] = req[p] /\ MergeSound(row, rt, req, req[p])
      BY <1>6, <2>0, <3>1 DEF CopiesSound, Reconciles
    <3> QED BY <1>1, <1>7, <3>2 DEF MergeSound, v
  <2>3. \A p \in Operators : v[p].at # "scan" /\ ~Reconciles(v[p])
    BY <1>6 DEF Reconciles
  <2>4. adrift = {} => \A p \in Requests : Reconciles(v[p]) =>
           v[p].copy.count = Cardinality(v[p].copy.eps)
    BY <1>6, <2>0 DEF CopiesSound
  <2>5. \A p \in Requests : Sends(v[p]) =>
         v[p].copy.eps \subseteq row.eps /\ row.eps \subseteq v[p].copy.eps \cup adrift
    BY <1>1, <1>2, <1>4, <1>6, <2>0 DEF CopiesSound
  <2> QED BY <1>1, <1>6, <2>1, <2>2, <2>3, <2>4, <2>5 DEF CopiesSound, v
<1>14. UploadedSound(row, rt, req)'
  <2>1. SaysUploaded(row, rt, v) => SaysUploaded(row, rt, req)
    BY <1>6 DEF SaysUploaded
  <2> QED BY <1>0, <1>1, <2>1 DEF Fit, UploadedSound, SaysUploaded, v
<1>15. adrift = {} =>
          /\ repo = "ours" => repo' = "ours"
          /\ b = "send" => repo' = "ours"
          /\ b = "create" => repo' = "absent"
          /\ b = "collided" /\ req[q].trusted => repo' # "ours"
          /\ faults <= 1 /\ (b = "collided" \/ (b = "look" /\ ~req[q].trusted)) =>
                repo' \notin {"bare", "ours"}
  BY DEF SendsOn
<1>16. ListSound(row, rt, req)'
  <2>1. SUFFICES ASSUME adrift = {} PROVE ListSound(row, rt, req)'
    BY <1>1 DEF ListSound
  <2>2. ListSound(row, rt, req)
    BY <1>0 DEF Fit
  <2>3. Remote(row, req) => Remote(row, req)'
    <3>1. SUFFICES ASSUME Remote(row, req) PROVE Remote(row, req)'
      OBVIOUS
    <3>2. HasTarget(row) /\ repo' = "ours" /\ x.trusted
      BY <1>1, <1>2, <1>15, <2>1, <3>1 DEF Remote
    <3>3. \A p \in Requests : Reconciles(v[p]) => HasTarget(v[p].copy)
      BY <1>6, <3>1 DEF Remote
    <3>4. \A p \in Requests : Sends(v[p]) => v[p].trusted
      BY <1>4, <1>6, <3>2
    <3> QED BY <1>1, <3>2, <3>3, <3>4 DEF Remote, v
  <2>4. ~Over(row, rt, req)
    BY <1>5 DEF Over, Reconciles
  <2>5. HasTarget(row)
    BY <1>1, <2>1, <2>2 DEF ListSound
  <2>6. \A p \in Requests : v[p].at \notin {"closing", "naming", "settled"}
    BY <1>6 DEF Flies
  <2>7. /\ \A p \in Requests : v[p].at \in {"send", "sent", "cleaning"} => repo' = "ours"
        /\ \A p \in Requests : v[p].at = "create" => repo' = "absent"
        /\ \A p \in Requests : v[p].at = "collided" /\ v[p].trusted => repo' # "ours"
    BY <1>2, <1>4, <1>6, <1>15, <2>1
  <2>8. row.eps \subseteq Kept \/ Remote(row, req)'
    BY <2>1, <2>2, <2>3, <2>4 DEF ListSound
  <2>9. rt.episode \notin row.eps /\ row.eps \subseteq Kept \cup hub /\ row.count = Cardinality(row.eps)
    BY <2>1, <2>2 DEF ListSound
  <2> QED BY <1>1, <2>5, <2>6, <2>7, <2>8, <2>9 DEF ListSound, v
<1>17. TargetSound(row, rt, req)'
  <2>1. SUFFICES ASSUME adrift = {} PROVE TargetSound(row, rt, req)'
    BY <1>1 DEF TargetSound
  <2>2. TargetSound(row, rt, req) /\ HasTarget(row)
    BY <1>0, <1>1, <2>1 DEF Fit, ListSound
  <2>3. faults <= 1 =>
        /\ \A p \in Requests : v[p].at \in {"convert", "look"} /\ ~v[p].trusted => repo' \notin {"bare", "ours"}
        /\ \A p \in Requests : v[p].at = "collided" => repo' \notin {"bare", "ours"}
    BY <1>1, <1>2, <1>4, <1>6, <1>15, <2>1
  <2> QED BY <1>1, <1>6, <2>1, <2>2, <2>3 DEF TargetSound, v
<1>18. TurnsSound'
  BY <1>0, <1>1, <1>3, <1>5, WorkTurns DEF v
<1>19. QuietSound(rt)'
  BY <1>0, <1>1 DEF QuietSound
<1> QED BY <1>0, <1>1, <1>8, <1>9, <1>10, <1>11, <1>12, <1>13, <1>14, <1>16, <1>17, <1>18, <1>19
    DEF FilesInv, Fit

\* So do its four steps there: converting, looking, creating and marking.
LEMMA SendingFiles ==
    ASSUME OneOperator, FilesInv, NEW q, q \in Requests,
           Converts(q) \/ Looks(q) \/ Creates(q) \/ Marks(q)
    PROVE  FilesInv'
<1>1. Sends(req[q]) /\ UNCHANGED <<row, rt, dir, reserved, hub, sd, adrift, faults, busy>>
  BY DEF Converts, Looks, Creates, Marks, Quietly, disk, remote, process, Sends
<1>2. /\ adrift = {} /\ req[q].at = "create" => repo = "absent"
      /\ adrift = {} /\ faults <= 1 /\ req[q].at \in {"convert", "look"} /\ ~req[q].trusted =>
             repo \notin {"bare", "ours"}
  BY DEF FilesInv, Fit, ListSound, TargetSound
<1>3. CASE Converts(q)
  <2>1. SendsOn(q, "look")
    BY <1>1, <1>2, <1>3 DEF SendsOn, Converts, remote
  <2> QED BY <2>1, SendsOnFiles
<1>4. CASE Looks(q)
  <2>1. PICK found \in Found :
          /\ repo' = found
          /\ Proceeds(q, CASE found = "absent" -> "create"
                           [] found # "absent" /\ ~Resumable(q, found) -> "collided"
                           [] Resumable(q, found) /\ found = "ours" -> "send"
                           [] Resumable(q, found) /\ found # "ours" -> "mark")
    BY <1>4 DEF Looks
  <2>2. /\ repo = "absent" => repo' \in {"absent", "vacant", "theirs"}
        /\ repo # "absent" => repo' = repo
    BY <2>1 DEF Found
  <2>3. CASE found = "absent"
    <3>1. Proceeds(q, "create") /\ repo' = "absent"
      BY <2>1, <2>3 DEF Resumable
    <3>2. SendsOn(q, "create")
      BY <1>1, <2>2, <3>1 DEF SendsOn
    <3> QED BY <3>2, SendsOnFiles
  <2>4. CASE found # "absent" /\ ~Resumable(q, found)
    <3>1. Proceeds(q, "collided") /\ repo' = found
      BY <2>1, <2>4 DEF Resumable
    <3>2. req[q].trusted => repo' \notin {"bare", "vacant", "ours"}
      BY <2>4, <3>1 DEF Resumable
    <3>3. req[q].at = "look"
      BY <1>4 DEF Looks
    <3>4. SendsOn(q, "collided")
      BY <1>1, <1>2, <2>2, <3>1, <3>2, <3>3 DEF SendsOn
    <3> QED BY <3>4, SendsOnFiles
  <2>5. CASE Resumable(q, found) /\ found = "ours"
    <3>1. Proceeds(q, "send") /\ repo' = "ours"
      BY <2>1, <2>5
    <3>2. SendsOn(q, "send")
      BY <1>1, <3>1 DEF SendsOn
    <3> QED BY <3>2, SendsOnFiles
  <2>6. CASE Resumable(q, found) /\ found # "ours" /\ found # "absent"
    <3>1. Proceeds(q, "mark") /\ repo' = found
      BY <2>1, <2>6
    <3>2. SendsOn(q, "mark")
      BY <1>1, <2>2, <2>6, <3>1 DEF SendsOn
    <3> QED BY <3>2, SendsOnFiles
  <2> QED BY <2>3, <2>4, <2>5, <2>6
<1>5. CASE Creates(q)
  <2>1. CASE repo' = "bare" /\ Proceeds(q, "mark")
    <3>1. SendsOn(q, "mark")
      BY <1>1, <1>2, <1>5, <2>1 DEF SendsOn, Creates
    <3> QED BY <3>1, SendsOnFiles
  <2>2. CASE repo' \in Found \ {"absent"} /\ Proceeds(q, "collided")
    <3>1. SendsOn(q, "collided")
      BY <1>1, <1>2, <1>5, <2>2 DEF SendsOn, Creates, Found
    <3> QED BY <3>1, SendsOnFiles
  <2> QED BY <1>5, <2>1, <2>2 DEF Creates
<1>6. CASE Marks(q)
  <2>1. SendsOn(q, "send")
    BY <1>1, <1>6 DEF SendsOn, Marks
  <2> QED BY <2>1, SendsOnFiles
<1> QED BY <1>3, <1>4, <1>5, <1>6

-----------------------------------------------------------------------------
(* An upload ends *)

\* The end of an upload's thread: what it writes on the row, if anything, and what it knows
\* of the Hub by then.
Answered(q, x, s, u) ==
    /\ Sends(req[q]) /\ req' = [req EXCEPT ![q] = x]
    /\ UNCHANGED <<rt, dir, sd, adrift, busy>>
    /\ faults' \in Nat /\ faults <= faults'
    /\ \/ x = Unused /\ reserved' = FALSE
       \/ x = At("sent", "none", Blank, {}) /\ reserved' = reserved /\ row'.upload = u
    /\ \/ row' = row
       \/ row' = [status |-> s, count |-> row.count, eps |-> req[q].copy.eps, upload |-> u]
    /\ \/ /\ s = "uploaded" /\ u = "uploaded" /\ repo' = repo /\ req[q].at = "send"
          /\ hub' = hub \cup req[q].copy.eps
       \/ /\ s \in {"ready", "failed"} /\ hub' = hub /\ x = Unused
          /\ u = "failed" \/ (u = "none" /\ req[q].at = "collided" /\ repo' = repo)
    /\ adrift = {} /\ repo = "ours" => repo' = "ours"

\* What an upload's end writes keeps the invariant: the row says uploaded only when
\* what it lists, and what is kept, was sent.
LEMMA AnsweredFiles ==
    ASSUME OneOperator, FilesInv, NEW q, NEW x, NEW s, NEW u, q \in Requests, Answered(q, x, s, u)
    PROVE  FilesInv'
<1> DEFINE v == req'
           r == row'
           C == req[q].copy.eps
<1>1. /\ Fit(row, rt, req) /\ TurnsSound /\ QuietSound(rt) /\ faults \in Nat
      /\ req[q] \in Waiting /\ Sound(req[q]) /\ req \in [Requests -> Waiting]
      /\ (\A p \in Requests : Sound(req[p])) /\ row \in Rows /\ C \in SUBSET Episodes
  BY DEF FilesInv, Fit, Typed, Waiting, Rows
<1>2. /\ Sends(req[q]) /\ Uploads(req[q]) /\ v = [req EXCEPT ![q] = x]
      /\ rt' = rt /\ dir' = dir /\ sd' = sd /\ adrift' = adrift /\ busy' = busy /\ Kept' = Kept
      /\ faults' \in Nat /\ faults <= faults' /\ hub \subseteq hub'
      /\ s \in {"ready", "failed", "uploaded"} /\ u \in {"none", "failed", "uploaded"}
      /\ s = "uploaded" => hub' = hub \cup C /\ u = "uploaded" /\ repo' = repo /\ req[q].at = "send"
      /\ u = "none" => req[q].at = "collided" /\ repo' = repo
      /\ adrift = {} /\ repo = "ours" => repo' = "ours"
  BY DEF Answered, Uploads, Kept
<1>3. /\ x.at \in {"free", "sent"} /\ x \in Waiting /\ Sound(x)
      /\ x.at = "free" => ~reserved'
      /\ x.at = "sent" => reserved' = reserved /\ s = "uploaded" /\ r.upload = "uploaded"
  <2>1. Unused.at = "free" /\ Unused \in Waiting /\ Sound(Unused)
    BY NothingAsked
  <2>2. LET y == At("sent", "none", Blank, {}) IN y.at = "sent" /\ y \in Waiting /\ Sound(y) /\ y # Unused
    <3>1. Blank \in Rows
      BY DEF Blank, Rows, Statuses
    <3> QED BY <3>1, <2>1, WaitingAt DEF At, Sound, Places
  <2> QED BY <1>2, <2>1, <2>2 DEF Answered
<1>4. /\ Lone(req, q) /\ reserved /\ rt.episode = None /\ rt.teleop # "on" /\ rt.final = None
      /\ ~AtWork(rt, req) /\ \A e : ~Settles(req, e)
  BY <1>1, <1>2, OneUploads
<1>5. /\ r \in Rows /\ r.count = row.count
      /\ r = row \/ (r.status = s /\ r.upload = u /\ r.eps = C)
  <2>1. [status |-> s, count |-> row.count, eps |-> C, upload |-> u] \in Rows
    BY <1>1, <1>2 DEF Rows, Statuses
  <2> QED BY <1>1, <2>1 DEF Answered
<1> HIDE DEF v, r
<1>6. /\ v[q] = x /\ \A p \in Requests : p # q => v[p] = req[p]
      /\ v \in [Requests -> Waiting] /\ \A p \in Requests : Sound(v[p])
  BY <1>1, <1>2, <1>3
<1>7. /\ \A p \in Requests : p # q => v[p] = req[p] /\ p \in Pollers /\ v[p].at \in {"free", "scan", "merge"}
      /\ \A p \in Requests : Reconciles(v[p]) => v[p] = req[p] /\ p # q /\ Reconciles(req[p])
      /\ \A p \in Requests : ~Sends(v[p]) /\ ~Flies(v[p])
      /\ \A p \in Requests : Uploads(v[p]) => p = q /\ x.at = "sent"
      /\ \A p \in Operators : p = q /\ ~Reconciles(v[p])
      /\ \A p \in Requests : v[p].at \in {"free", "scan", "merge", "sent"} /\ (v[p].at = "sent" => p = q /\ x.at = "sent")
      /\ q \notin Pollers /\ ~Reconciles(v[q])
  BY <1>3, <1>4, <1>6 DEF Lone, Reconciles, Sends, Flies, Uploads
<1>8. ~AtWork(rt, v)
  BY <1>4, <1>7 DEF AtWork
<1>9. /\ C \subseteq row.eps /\ row.eps \subseteq C \cup adrift
      /\ r.eps \subseteq row.eps /\ row.eps \subseteq r.eps \cup adrift
      /\ Kept \subseteq row.eps \cup adrift
  <2>1. C \subseteq row.eps /\ row.eps \subseteq C \cup adrift
    BY <1>1, <1>2 DEF Fit, CopiesSound
  <2>2. Kept \subseteq row.eps \cup adrift
    BY <1>1, <1>4 DEF Fit, KeptSound
  <2> QED BY <1>5, <2>1, <2>2
<1>10. Typed(row, rt, req)'
  BY <1>1, <1>2, <1>5, <1>6 DEF Fit, Typed, v, r
<1>11. PlacesSound(rt, req)'
  <2>1. \A p \in Pollers : /\ v[p].at \in {"free", "scan", "merge"}
                           /\ Reconciles(v[p]) => v[p].kind = "state"
    BY <1>1, <1>7, RecordingBounds DEF Fit, PlacesSound
  <2>2. reserved' => Uploads(v[q])
    BY <1>3, <1>6 DEF Uploads
  <2>3. \A p \in Requests : Uploads(v[p]) => reserved'
    BY <1>3, <1>4, <1>7
  <2> QED BY <1>2, <1>4, <1>7, <2>1, <2>2, <2>3 DEF PlacesSound, v
<1>12. MotionSound(rt, req)'
  BY <1>2, <1>4, <1>7 DEF MotionSound, v
<1>13. StatusSound(row, rt, req)'
  BY <1>2, <1>4, <1>7, <1>8 DEF StatusSound, v, r
<1>14. KeptSound(row, rt, req)'
  BY <1>2, <1>7, <1>8, <1>9 DEF KeptSound, v, r
<1>15. CopiesSound(row, rt, req)'
  <2>0. CopiesSound(row, rt, req)
    BY <1>1 DEF Fit
  <2>1. \A p \in Requests : v[p].at = "scan" => ScanSound(row, rt, req, req[p])'
    <3>1. SUFFICES ASSUME NEW p \in Requests, v[p].at = "scan" PROVE ScanSound(row, rt, req, req[p])'
      OBVIOUS
    <3>2. v[p] = req[p] /\ ScanSound(row, rt, req, req[p])
      BY <1>7, <2>0, <3>1 DEF CopiesSound, Reconciles
    <3> QED BY <1>2, <1>7, <1>9, <3>2 DEF ScanSound, v, r
  <2>2. \A p \in Requests : v[p].at = "merge" => MergeSound(row, rt, req, req[p])'
    <3>1. SUFFICES ASSUME NEW p \in Requests, v[p].at = "merge" PROVE MergeSound(row, rt, req, req[p])'
      OBVIOUS
    <3>2. v[p] = req[p] /\ MergeSound(row, rt, req, req[p])
      BY <1>7, <2>0, <3>1 DEF CopiesSound, Reconciles
    <3> QED BY <1>2, <1>8, <1>9, <3>2 DEF MergeSound, v, r
  <2>3. \A p \in Operators : v[p].at # "scan" /\ ~Reconciles(v[p])
    BY <1>7 DEF Reconciles
  <2>4. adrift = {} => \A p \in Requests : Reconciles(v[p]) =>
           v[p].copy.count = Cardinality(v[p].copy.eps)
    BY <1>7, <2>0 DEF CopiesSound
  <2> QED BY <1>2, <1>7, <2>1, <2>2, <2>3, <2>4 DEF CopiesSound, v
<1>16. UploadedSound(row, rt, req)'
  <2>1. CASE s = "uploaded"
    BY <1>2, <1>9, <2>1 DEF UploadedSound, r
  <2>2. CASE s # "uploaded"
    <3>1. SaysUploaded(r, rt, v) => SaysUploaded(row, rt, req)
      BY <1>3, <1>5, <1>7, <2>2 DEF SaysUploaded
    <3> QED BY <1>1, <1>2, <1>9, <3>1 DEF Fit, UploadedSound, SaysUploaded, v, r
  <2> QED BY <2>1, <2>2
<1>17. ListSound(row, rt, req)'
  <2>1. SUFFICES ASSUME adrift = {} PROVE ListSound(row, rt, req)'
    BY <1>2 DEF ListSound
  <2>2. ListSound(row, rt, req) /\ r.eps = row.eps /\ HasTarget(row)
    BY <1>1, <1>2, <1>9, <2>1 DEF Fit, ListSound
  <2>3. u # "none" => HasTarget(r)
    BY <1>2, <1>5, <2>2 DEF HasTarget
  <2>4. Remote(row, req) => Remote(row, req)'
    <3>1. SUFFICES ASSUME Remote(row, req) PROVE Remote(row, req)'
      OBVIOUS
    <3>2. req[q].trusted /\ repo = "ours" /\ repo' = "ours"
      BY <1>2, <2>1, <3>1 DEF Remote
    <3>3. u # "none"
      BY <1>2, <2>1, <2>2, <3>2 DEF ListSound
    <3>4. \A p \in Requests : Reconciles(v[p]) => HasTarget(v[p].copy)
      BY <1>7, <3>1 DEF Remote
    <3> QED BY <1>7, <2>3, <3>2, <3>3, <3>4 DEF Remote, v, r
  <2>5. ~Over(row, rt, req)
    <3>1. req[q].at # "free" /\ ~Reconciles(req[q])
      BY <1>2 DEF Sends, Reconciles
    <3> QED BY <3>1 DEF Over
  <2>6. r.eps \subseteq Kept \/ Remote(row, req)'
    BY <2>1, <2>2, <2>4, <2>5 DEF ListSound
  <2>7. x.at = "sent" => repo' = "ours" /\ HasTarget(r)
    BY <1>2, <1>3, <2>1, <2>2, <2>3 DEF ListSound
  <2>8. /\ \A p \in Requests : v[p].at \in {"send", "sent", "cleaning"} => repo' = "ours"
        /\ \A p \in Requests : v[p].at \notin {"create", "collided", "closing", "naming", "settled"}
        /\ \A p \in Requests : Uploads(v[p]) => HasTarget(r)
    BY <1>7, <2>7
  <2>9. rt.episode \notin r.eps /\ r.eps \subseteq Kept \cup hub' /\ r.count = Cardinality(r.eps)
    BY <1>2, <1>5, <2>1, <2>2 DEF ListSound
  <2> QED BY <1>2, <2>6, <2>8, <2>9 DEF ListSound, v, r
<1>18. TargetSound(row, rt, req)'
  <2>1. SUFFICES ASSUME adrift = {} PROVE TargetSound(row, rt, req)'
    BY <1>2 DEF TargetSound
  <2>2. TargetSound(row, rt, req) /\ HasTarget(row)
    BY <1>1, <1>2, <2>1 DEF Fit, ListSound
  <2>3. faults' = 0 => faults = 0
    BY <1>1, <1>2
  <2>4. faults' <= 1 => faults <= 1
    BY <1>1, <1>2
  <2>5. reserved
    BY <1>4
  <2>6. faults' = 0 /\ rt.teleop = "closing" =>
          /\ sd # "up"
          /\ \A p \in Pollers : ~Reconciles(v[p])
    <3>1. SUFFICES ASSUME faults' = 0, rt.teleop = "closing" PROVE sd # "up" /\ \A p \in Pollers : ~Reconciles(v[p])
      OBVIOUS
    <3>2. sd # "up" /\ \A p \in Pollers : ~Reconciles(req[p])
      BY <2>1, <2>2, <2>3, <2>5, <3>1 DEF TargetSound
    <3> QED BY <1>7, <3>2, RecordingBounds
  <2>7. faults' <= 1 =>
       /\ rt.status = "uploading" => rt.err = "none"
       /\ r.status = "uploading" => HasTarget(r)
       /\ repo' \in {"bare", "ours"} => HasTarget(r)
       /\ \A p \in Requests : Reconciles(v[p]) /\ v[p].copy.status = "uploading" =>
              HasTarget(v[p].copy)
    <3>1. SUFFICES ASSUME faults' <= 1, faults <= 1 PROVE
       /\ rt.status = "uploading" => rt.err = "none"
       /\ r.status = "uploading" => HasTarget(r)
       /\ repo' \in {"bare", "ours"} => HasTarget(r)
       /\ \A p \in Requests : Reconciles(v[p]) /\ v[p].copy.status = "uploading" =>
              HasTarget(v[p].copy)
      BY <2>4
    <3>2. rt.status = "uploading" => rt.err = "none"
      BY <2>1, <2>2, <3>1 DEF TargetSound
    <3>3. r.status = "uploading" => HasTarget(r)
      BY <1>2, <1>5, <2>2
    <3>4. HasTarget(r) \/ u = "none"
      BY <1>2, <1>5, <2>2 DEF HasTarget
    <3>5. u = "none" => repo' \notin {"bare", "ours"}
      BY <1>2, <2>1, <2>2, <3>1 DEF TargetSound
    <3>6. \A p \in Requests : Reconciles(v[p]) /\ v[p].copy.status = "uploading" => HasTarget(v[p].copy)
      BY <1>7, <2>1, <2>2, <3>1 DEF TargetSound
    <3> QED BY <3>2, <3>3, <3>4, <3>5, <3>6
  <2> QED BY <1>2, <1>4, <1>7, <2>1, <2>6, <2>7 DEF TargetSound, v, r
<1>19. TurnsSound'
  <2>1. ~Holds(x) /\ ~Holds(req[q])
    BY <1>2, <1>3 DEF Holds, Sends
  <2> QED BY <1>1, <1>2, <1>4, <2>1, WorkTurns DEF v
<1>20. QuietSound(rt)'
  BY <1>1, <1>2 DEF QuietSound
<1> QED BY <1>2, <1>10, <1>11, <1>12, <1>13, <1>14, <1>15, <1>16, <1>17, <1>18, <1>19, <1>20
    DEF FilesInv, Fit

\* What an upload's thread writes at its end replaces the list by the one it began with.
LEMMA AnswerIs ==
    ASSUME NEW r \in Rows, NEW c \in Rows, c.status = "uploading", c.upload = "uploading",
           NEW s \in {"ready", "failed", "uploaded"}, NEW u \in {"none", "failed", "uploaded"}
    PROVE  Stored(r, c, [c EXCEPT !.status = s, !.upload = u]) =
              [status |-> s, count |-> r.count, eps |-> c.eps, upload |-> u]
BY DEF Stored, Meta, Rows

\* The three ends of an upload keep the invariant.
LEMMA UploadEndsFiles ==
    ASSUME OneOperator, FilesInv, NEW q, q \in Requests,
           UploadSucceeds(q) \/ UploadFails(q) \/ UploadCollides(q)
    PROVE  FilesInv'
<1> DEFINE c == req[q].copy
           S(s, u) == [c EXCEPT !.status = s, !.upload = u]
           R(s, u) == [status |-> s, count |-> row.count, eps |-> c.eps, upload |-> u]
<1>1. /\ Fit(row, rt, req) /\ faults \in Nat /\ row \in Rows /\ c \in Rows
      /\ Sends(req[q]) /\ UNCHANGED <<rt, dir, sd, adrift, busy>>
      /\ c.status = "uploading" /\ c.upload = "uploading" /\ req[q].kind \in {"ready", "failed"}
  <2>1. Sends(req[q])
    BY DEF UploadSucceeds, UploadFails, UploadCollides, Sends
  <2>2. UNCHANGED <<rt, dir, sd, adrift, busy>>
    BY DEF UploadSucceeds, UploadFails, UploadCollides, Gives, disk, process
  <2>3. Fit(row, rt, req) /\ faults \in Nat /\ row \in Rows /\ c \in Rows
    BY DEF FilesInv, Fit, Typed, Waiting
  <2> QED BY <2>1, <2>2, <2>3 DEF Fit, PlacesSound
<1>2. \A s \in {"ready", "failed", "uploaded"}, u \in {"none", "failed", "uploaded"} :
         Stored(row, c, S(s, u)) = R(s, u)
  BY <1>1, AnswerIs
<1>3. faults' \in Nat /\ faults <= faults'
  BY <1>1 DEF UploadSucceeds, UploadFails, UploadCollides, Gives, Commits, CommitFails, Fine, Fault
<1>4. CASE UploadSucceeds(q)
  <2>1. /\ req[q].at = "send" /\ hub' = hub \cup c.eps /\ repo' = repo
        /\ \/ row' = Stored(row, c, S("uploaded", "uploaded"))
              /\ Goes(q, "sent", "none", Blank, {}) /\ reserved' = reserved
           \/ row' \in {row, Stored(row, c, S("uploaded", "uploaded"))} /\ Releases(q)
    BY <1>4 DEF UploadSucceeds, Commits, CommitFails
  <2>2. Stored(row, c, S("uploaded", "uploaded")) = R("uploaded", "uploaded")
    BY <1>2
  <2>3. CASE row' = R("uploaded", "uploaded") /\ Goes(q, "sent", "none", Blank, {}) /\ reserved' = reserved
    <3>1. row'.upload = "uploaded"
      BY <2>3
    <3>2. Answered(q, At("sent", "none", Blank, {}), "uploaded", "uploaded")
      BY <1>1, <1>3, <2>1, <2>3, <3>1 DEF Answered, Goes
    <3> QED BY <3>2, AnsweredFiles
  <2>4. CASE row' \in {row, R("uploaded", "uploaded")} /\ Releases(q)
    <3>1. Answered(q, Unused, "uploaded", "uploaded")
      BY <1>1, <1>3, <2>1, <2>4 DEF Answered, Releases, Ends
    <3> QED BY <3>1, AnsweredFiles
  <2> QED BY <2>1, <2>2, <2>3, <2>4
<1>5. CASE UploadFails(q)
  <2>1. /\ req[q].at \in {"convert", "look", "create", "mark", "send"} /\ repo' \in {repo, Done(q)}
        /\ row' \in {row, Stored(row, c, S("failed", "failed"))} /\ Releases(q) /\ hub' = hub
    BY <1>5 DEF UploadFails, Gives, Commits, CommitFails
  <2>2. adrift = {} /\ repo = "ours" => repo' = "ours"
    BY <1>1, <2>1 DEF Done, Fit, ListSound
  <2>3. row' \in {row, R("failed", "failed")}
    BY <1>2, <2>1
  <2>4. Answered(q, Unused, "failed", "failed")
    BY <1>1, <1>3, <2>1, <2>2, <2>3 DEF Answered, Releases, Ends
  <2> QED BY <2>4, AnsweredFiles
<1>6. CASE UploadCollides(q)
  <2>1. /\ req[q].at = "collided" /\ repo' = repo
        /\ row' \in {row, Stored(row, c, S(req[q].kind, "none"))} /\ Releases(q) /\ hub' = hub
    BY <1>6 DEF UploadCollides, Gives, Commits, CommitFails
  <2>2. row' \in {row, R(req[q].kind, "none")}
    BY <1>1, <1>2, <2>1
  <2>3. Answered(q, Unused, req[q].kind, "none")
    BY <1>1, <1>3, <2>1, <2>2 DEF Answered, Releases, Ends
  <2> QED BY <2>3, AnsweredFiles
<1> QED BY <1>4, <1>5, <1>6

-----------------------------------------------------------------------------
(* What was uploaded is removed *)

\* After an upload the files go, or stay, when no other request is at its directories.
Cleared(q, x) ==
    /\ req[q].at \in {"sent", "cleaning"} /\ req' = [req EXCEPT ![q] = x]
    /\ \/ x = Unused /\ reserved' = FALSE
       \/ x = At("cleaning", "none", Blank, {}) /\ reserved' = reserved
    /\ UNCHANGED <<row, rt, sd, adrift, hub, repo>>
    /\ dir' \in Directories /\ Kept' \subseteq Kept
    /\ Kept' = Kept \/ \A p \in Requests : ~Reconciles(req[p])
    /\ faults \in Nat /\ faults' \in Nat /\ faults <= faults'

\* Removing what was uploaded keeps the agreement: the row says it is on the Hub.
LEMMA ClearedFit ==
    ASSUME OneOperator, Fit(row, rt, req), NEW q, NEW x, q \in Requests, Cleared(q, x)
    PROVE  Fit(row, rt, req)' /\ Lone(req, q) /\ x.at \in {"free", "cleaning"}
<1> DEFINE v == req'
<1>1. /\ req[q] \in Waiting /\ req \in [Requests -> Waiting] /\ \A p \in Requests : Sound(req[p])
  BY DEF Fit, Typed
<1>2. /\ req[q].at \in {"sent", "cleaning"} /\ Uploads(req[q]) /\ v = [req EXCEPT ![q] = x]
      /\ row' = row /\ rt' = rt /\ sd' = sd /\ adrift' = adrift /\ hub' = hub /\ repo' = repo
      /\ dir' \in Directories /\ Kept' \subseteq Kept
      /\ Kept' = Kept \/ \A p \in Requests : ~Reconciles(req[p])
      /\ faults \in Nat /\ faults' \in Nat /\ faults <= faults'
  BY DEF Cleared, Uploads
<1>3. /\ x.at \in {"free", "cleaning"} /\ x \in Waiting /\ Sound(x)
      /\ x.at = "free" => ~reserved'
      /\ x.at = "cleaning" => reserved' = reserved
  <2>1. Unused.at = "free" /\ Unused \in Waiting /\ Sound(Unused)
    BY NothingAsked
  <2>2. LET y == At("cleaning", "none", Blank, {}) IN y.at = "cleaning" /\ y \in Waiting /\ Sound(y)
    <3>1. Blank \in Rows
      BY DEF Blank, Rows, Statuses
    <3> QED BY <3>1, WaitingAt DEF At, Sound, Places
  <2> QED BY <2>1, <2>2 DEF Cleared
<1>4. /\ Lone(req, q) /\ reserved /\ rt.episode = None /\ rt.teleop # "on" /\ rt.final = None
      /\ ~AtWork(rt, req) /\ \A e : ~Settles(req, e)
  BY <1>2, OneUploads
<1> HIDE DEF v
<1>6. /\ v[q] = x /\ \A p \in Requests : p # q => v[p] = req[p]
      /\ v \in [Requests -> Waiting] /\ \A p \in Requests : Sound(v[p])
  BY <1>1, <1>2, <1>3
<1>7. /\ \A p \in Requests : p # q => v[p] = req[p] /\ p \in Pollers /\ v[p].at \in {"free", "scan", "merge"}
      /\ \A p \in Requests : Reconciles(v[p]) => v[p] = req[p] /\ p # q /\ Reconciles(req[p])
      /\ \A p \in Requests : ~Sends(v[p]) /\ ~Flies(v[p])
      /\ \A p \in Requests : Uploads(v[p]) => p = q /\ x.at = "cleaning"
      /\ \A p \in Operators : p = q /\ ~Reconciles(v[p])
      /\ \A p \in Requests : v[p].at \in {"free", "scan", "merge", "cleaning"}
      /\ q \notin Pollers /\ ~Reconciles(v[q])
  BY <1>3, <1>4, <1>6 DEF Lone, Reconciles, Sends, Flies, Uploads
<1>8. ~AtWork(rt, v)
  BY <1>4, <1>7 DEF AtWork
<1>9. Kept \subseteq row.eps \cup adrift
  BY <1>4 DEF Fit, KeptSound
<1>10. Typed(row, rt, req)'
  BY <1>2, <1>6 DEF Fit, Typed, v
<1>11. PlacesSound(rt, req)'
  <2>1. \A p \in Pollers : /\ v[p].at \in {"free", "scan", "merge"}
                           /\ Reconciles(v[p]) => v[p].kind = "state"
    BY <1>7, RecordingBounds DEF Fit, PlacesSound
  <2>2. reserved' => Uploads(v[q])
    BY <1>3, <1>6 DEF Uploads
  <2>3. \A p \in Requests : Uploads(v[p]) => reserved'
    BY <1>3, <1>4, <1>7
  <2> QED BY <1>2, <1>4, <1>7, <2>1, <2>2, <2>3 DEF PlacesSound, v
<1>12. MotionSound(rt, req)'
  BY <1>2, <1>4, <1>7 DEF MotionSound, v
<1>13. StatusSound(row, rt, req)'
  BY <1>2, <1>4, <1>7, <1>8 DEF StatusSound, v
<1>14. KeptSound(row, rt, req)'
  BY <1>2, <1>7, <1>8, <1>9 DEF KeptSound, v
<1>15. CopiesSound(row, rt, req)'
  <2>0. CopiesSound(row, rt, req)
    BY DEF Fit
  <2>1. \A p \in Requests : v[p].at = "scan" => ScanSound(row, rt, req, req[p])'
    <3>1. SUFFICES ASSUME NEW p \in Requests, v[p].at = "scan" PROVE ScanSound(row, rt, req, req[p])'
      OBVIOUS
    <3>2. v[p] = req[p] /\ ScanSound(row, rt, req, req[p])
      BY <1>7, <2>0, <3>1 DEF CopiesSound, Reconciles
    <3> QED BY <1>2, <1>7, <3>2 DEF ScanSound, v
  <2>2. \A p \in Requests : v[p].at = "merge" => MergeSound(row, rt, req, req[p])'
    <3>1. SUFFICES ASSUME NEW p \in Requests, v[p].at = "merge" PROVE MergeSound(row, rt, req, req[p])'
      OBVIOUS
    <3>2. v[p] = req[p] /\ MergeSound(row, rt, req, req[p]) /\ Kept' = Kept
      BY <1>2, <1>7, <2>0, <3>1 DEF CopiesSound, Reconciles
    <3> QED BY <1>2, <1>8, <3>2 DEF MergeSound, v
  <2>3. \A p \in Operators : v[p].at # "scan" /\ ~Reconciles(v[p])
    BY <1>7 DEF Reconciles
  <2>4. adrift = {} => \A p \in Requests : Reconciles(v[p]) =>
           v[p].copy.count = Cardinality(v[p].copy.eps)
    BY <1>7, <2>0 DEF CopiesSound
  <2> QED BY <1>2, <1>7, <2>1, <2>2, <2>3, <2>4 DEF CopiesSound, v
<1>16. Kept \cup row.eps \subseteq hub \cup adrift
  BY <1>2 DEF Fit, UploadedSound, SaysUploaded
<1>17. UploadedSound(row, rt, req)'
  BY <1>2, <1>16 DEF UploadedSound
<1>18. ListSound(row, rt, req)'
  <2>1. SUFFICES ASSUME adrift = {} PROVE ListSound(row, rt, req)'
    BY <1>2 DEF ListSound
  <2>2. ListSound(row, rt, req) /\ HasTarget(row) /\ repo = "ours"
    BY <1>2, <2>1 DEF Fit, ListSound
  <2>3. Remote(row, req) => Remote(row, req)'
    BY <1>2, <1>7 DEF Remote, v
  <2>4. (\A p \in Requests : ~Reconciles(req[p])) => Remote(row, req)'
    BY <1>2, <1>7, <2>2 DEF Remote, v
  <2>5. ~Over(row, rt, req)
    BY <1>2 DEF Over, Reconciles
  <2>6. row.eps \subseteq Kept' \/ Remote(row, req)'
    BY <1>2, <2>1, <2>2, <2>3, <2>4, <2>5 DEF ListSound
  <2>7. \A p \in Requests : v[p].at \notin {"create", "collided", "closing", "naming", "settled"}
    BY <1>7
  <2>8. rt.episode \notin row.eps /\ row.eps \subseteq Kept' \cup hub /\ row.count = Cardinality(row.eps)
    BY <1>16, <2>1, <2>2 DEF ListSound
  <2> QED BY <1>2, <2>2, <2>6, <2>7, <2>8 DEF ListSound, v
<1>19. TargetSound(row, rt, req)'
  <2>1. SUFFICES ASSUME adrift = {} PROVE TargetSound(row, rt, req)'
    BY <1>2 DEF TargetSound
  <2>2. TargetSound(row, rt, req)
    BY DEF Fit
  <2>3. (faults' = 0 => faults = 0) /\ (faults' <= 1 => faults <= 1)
    BY <1>2
  <2>4. faults' = 0 /\ rt.teleop = "closing" =>
          /\ sd # "up"
          /\ \A p \in Pollers : ~Reconciles(v[p])
    <3>1. SUFFICES ASSUME faults' = 0, rt.teleop = "closing" PROVE sd # "up" /\ \A p \in Pollers : ~Reconciles(v[p])
      OBVIOUS
    <3>2. sd # "up" /\ \A p \in Pollers : ~Reconciles(req[p])
      BY <1>4, <2>1, <2>2, <2>3, <3>1 DEF TargetSound
    <3> QED BY <1>7, <3>2, RecordingBounds
  <2>5. faults' <= 1 =>
       /\ rt.status = "uploading" => rt.err = "none"
       /\ row.status = "uploading" => HasTarget(row)
       /\ repo \in {"bare", "ours"} => HasTarget(row)
       /\ \A p \in Requests : Reconciles(v[p]) /\ v[p].copy.status = "uploading" =>
              HasTarget(v[p].copy)
    BY <1>7, <2>1, <2>2, <2>3 DEF TargetSound
  <2> QED BY <1>2, <1>4, <1>7, <2>1, <2>4, <2>5 DEF TargetSound, v
<1> QED BY <1>3, <1>4, <1>10, <1>11, <1>12, <1>13, <1>14, <1>15, <1>17, <1>18, <1>19 DEF Fit

\* The clean-up that finds the directories free, or gives up, keeps the invariant.
LEMMA CleanBeginsFiles ==
    ASSUME OneOperator, FilesInv, NEW q, q \in Requests, CleanBegins(q)
    PROVE  FilesInv'
<1> DEFINE x == At("cleaning", "none", Blank, {})
<1>1. /\ Fit(row, rt, req) /\ TurnsSound /\ QuietSound(rt) /\ faults \in Nat /\ dir \in Directories
      /\ req \in [Requests -> Waiting] /\ req[q].at = "sent"
      /\ UNCHANGED <<row, rt, dir, dropping, hub, repo, process, faults>> /\ Kept' = Kept
  BY DEF FilesInv, Fit, Typed, CleanBegins, Kept
<1>2. QuietSound(rt)' /\ faults' \in Nat
  BY <1>1 DEF QuietSound, process
<1>3. CASE Releases(q) /\ UNCHANGED busy
  <2>1. Cleared(q, Unused)
    BY <1>1, <1>3 DEF Cleared, Releases, Ends, process
  <2>2. Fit(row, rt, req)' /\ Lone(req, q)
    BY <1>1, <2>1, ClearedFit
  <2>3. TurnsSound'
    BY <1>1, <1>3, <2>2, NothingAsked, WorkTurns DEF Holds, Releases, Ends
  <2> QED BY <1>2, <2>2, <2>3 DEF FilesInv
<1>4. CASE ~busy /\ busy' = TRUE /\ Goes(q, "cleaning", "none", Blank, {}) /\ UNCHANGED reserved
  <2>1. Cleared(q, x) /\ req' = [req EXCEPT ![q] = x]
    BY <1>1, <1>4 DEF Cleared, Goes, process
  <2>2. Fit(row, rt, req)' /\ Lone(req, q)
    BY <1>1, <2>1, ClearedFit
  <2>3. \A p \in Requests : ~Holds(req[p])
    BY <1>1, <1>4 DEF TurnsSound
  <2>4. /\ \A p \in Requests : p # q => req'[p] = req[p]
        /\ req'[q].at = "cleaning"
    BY <1>1, <2>1 DEF At
  <2>5. \A p \in Operators : p = q
    BY <2>2 DEF Lone
  <2>6. TurnsSound'
    BY <1>4, <2>3, <2>4, <2>5 DEF TurnsSound, Holds
  <2> QED BY <1>2, <2>2, <2>6 DEF FilesInv
<1> QED BY <1>3, <1>4 DEF CleanBegins

\* So does its end.
LEMMA CleanEndsFiles ==
    ASSUME OneOperator, FilesInv, NEW q, q \in Requests, CleanEnds(q)
    PROVE  FilesInv'
<1>1. /\ Fit(row, rt, req) /\ TurnsSound /\ QuietSound(rt) /\ faults \in Nat /\ dir \in Directories
      /\ req \in [Requests -> Waiting] /\ req[q].at = "cleaning" /\ Releases(q) /\ Removed(dir)
      /\ UNCHANGED <<row, dropping, rt, hub, repo, process>>
  BY DEF FilesInv, Fit, Typed, CleanEnds
<1>2. dir' \in Directories /\ Kept' \subseteq Kept /\ faults' \in Nat /\ faults <= faults'
  <2>1. PICK E : dir' = [e \in Episodes |-> IF e \in E THEN "absent" ELSE dir[e]]
    <3>1. CASE dir' = [e \in Episodes |-> "absent"]
      BY <3>1
    <3>2. CASE \E E \in SUBSET Episodes : dir' = [e \in Episodes |-> IF e \in E THEN "absent" ELSE dir[e]]
      BY <3>2
    <3> QED BY <1>1, <3>1, <3>2 DEF Removed
  <2>2. dir' \in Directories /\ Kept' \subseteq Kept
    BY <1>1, <2>1 DEF Directories, Kept
  <2> QED BY <1>1, <2>2 DEF Removed, Fine, Fault
<1>3. \A p \in Requests : ~Reconciles(req[p])
  BY <1>1 DEF TurnsSound, Holds, Reconciles
<1>4. Cleared(q, Unused)
  BY <1>1, <1>2, <1>3 DEF Cleared, Releases, Ends, process
<1>5. Fit(row, rt, req)' /\ Lone(req, q)
  BY <1>1, <1>4, ClearedFit
<1>6. TurnsSound'
  BY <1>1, <1>5, NothingAsked, WorkTurns DEF Holds, Releases, Ends
<1>7. QuietSound(rt)'
  BY <1>1, <1>2 DEF QuietSound, process
<1> QED BY <1>2, <1>5, <1>6, <1>7 DEF FilesInv

-----------------------------------------------------------------------------
(* Scanning *)

\* The scan leaves what is kept; what it found is on the row, but for what is adrift.
LEMMA ScanFit ==
    ASSUME Fit(row, rt, req), NEW q, q \in Requests, req[q].at = "scan",
           NEW found \in SUBSET (Kept \ req[q].eps)
    PROVE  Fit(row, rt, [req EXCEPT ![q] = At("merge", req[q].kind, req[q].copy, found)])
<1> DEFINE a == req[q]
           x == At("merge", a.kind, a.copy, found)
           v == [req EXCEPT ![q] = x]
<1>1. /\ a \in Waiting /\ Sound(a) /\ req \in [Requests -> Waiting] /\ (\A p \in Requests : Sound(req[p]))
      /\ a.at = "scan" /\ ScanSound(row, rt, req, a)
  BY DEF Fit, Typed, CopiesSound
<1>2. /\ x \in Waiting /\ Sound(x) /\ x.at = "merge" /\ x.kind = a.kind /\ x.copy = a.copy
      /\ x.eps = found /\ found \subseteq Kept
  <2>1. a.kind \in Kinds /\ a.copy \in Rows /\ found \in SUBSET Episodes
    BY <1>1 DEF Sound, Waiting, Kept
  <2> QED BY <2>1, WaitingAt DEF At, Sound, Places
<1> HIDE DEF x
<1>3. /\ v[q] = x /\ \A p \in Requests : p # q => v[p] = req[p]
      /\ v \in [Requests -> Waiting] /\ \A p \in Requests : Sound(v[p])
  BY <1>1, <1>2
<1> HIDE DEF v
<1>4. /\ \A p \in Requests : Uploads(v[p]) = Uploads(req[p])
      /\ \A p \in Requests : Flies(v[p]) = Flies(req[p]) /\ (Flies(req[p]) => v[p] = req[p])
      /\ \A p \in Requests : Sends(v[p]) = Sends(req[p]) /\ (Sends(req[p]) => v[p] = req[p])
      /\ \A p \in Requests : Reconciles(v[p]) = Reconciles(req[p])
      /\ \A p \in Requests : v[p].copy = req[p].copy /\ v[p].kind = req[p].kind
      /\ \A p \in Requests : v[p].at \notin {"scan", "merge"} \/ req[p].at \notin {"scan", "merge"} => v[p] = req[p]
      /\ \A p \in Requests : v[p].at = "scan" => v[p] = req[p]
  BY <1>1, <1>2, <1>3 DEF Uploads, Flies, Sends, Reconciles
<1>5. AtWork(rt, v) = AtWork(rt, req) /\ \A e : Flying(v, e) = Flying(req, e) /\ Settles(v, e) = Settles(req, e)
  BY <1>4 DEF AtWork, Flying, Settles
<1>6. Operators \subseteq Requests
  BY DEF Operators
<1>7. Typed(row, rt, v)
  BY <1>3 DEF Fit, Typed
<1>8. PlacesSound(rt, v)
  <2>1. \A p \in Pollers : v[p].at \in {"free", "scan", "merge"} /\ (Reconciles(v[p]) => v[p].kind = "state")
    BY <1>1, <1>2, <1>3, <1>4, RecordingBounds DEF Fit, PlacesSound
  <2> QED BY <1>4, <2>1 DEF Fit, PlacesSound
<1>9. MotionSound(rt, v)
  <2>1. MotionSound(rt, req)
    BY DEF Fit
  <2>2. rt.final # None => \E p \in Requests : \/ Flies(v[p]) /\ v[p].eps = {rt.final}
                                               \/ v[p].at = "confirm"
    BY <1>4, <2>1 DEF MotionSound
  <2>3. \A p \in Requests : Flies(v[p]) =>
           rt.episode = None /\ (sd # "down" => rt.final \in v[p].eps /\ rt.task)
    BY <1>4, <2>1 DEF MotionSound
  <2> QED BY <2>2, <2>3 DEF MotionSound
<1>10. StatusSound(row, rt, v)
  BY <1>4, <1>5, <1>6 DEF Fit, StatusSound
<1>11. KeptSound(row, rt, v)
  BY <1>4, <1>5 DEF Fit, KeptSound
<1>12. CopiesSound(row, rt, v)
  <2>0. CopiesSound(row, rt, req)
    BY DEF Fit
  <2>1. \A p \in Requests : v[p].at = "scan" => ScanSound(row, rt, v, v[p])
    <3>1. SUFFICES ASSUME NEW p \in Requests, v[p].at = "scan" PROVE ScanSound(row, rt, v, v[p])
      OBVIOUS
    <3>2. v[p] = req[p] /\ ScanSound(row, rt, req, req[p])
      BY <1>4, <2>0, <3>1 DEF CopiesSound
    <3> QED BY <1>4, <3>2 DEF ScanSound
  <2>2. MergeSound(row, rt, v, x)
    <3>1. a.eps = {} => ~AtWork(rt, req) /\ (\A e : ~Settles(req, e)) /\ row.eps \subseteq a.copy.eps
      <4>1. SUFFICES ASSUME a.eps = {}
                     PROVE  ~AtWork(rt, req) /\ (\A e : ~Settles(req, e)) /\ row.eps \subseteq a.copy.eps
        OBVIOUS
      <4>2. \A p \in Requests : ~Flies(req[p])
        BY <1>1, <4>1 DEF ScanSound, Sound, Flies
      <4>3. rt.episode = None /\ rt.final = None /\ row.eps \subseteq a.copy.eps
        BY <1>1, <4>1 DEF ScanSound
      <4> QED BY <4>2, <4>3 DEF AtWork, Settles, Flies
    <3>2. a.eps # {} => x.eps \subseteq a.copy.eps
      BY <1>1, <1>2 DEF ScanSound
    <3>3. a.eps = {} => x.eps \subseteq row.eps \cup adrift
      BY <1>2, <3>1 DEF Fit, KeptSound
    <3>4. x.eps \subseteq a.copy.eps \cup adrift
      BY <3>1, <3>2, <3>3
    <3> QED BY <1>1, <1>2, <1>5, <3>1, <3>2, <3>4 DEF ScanSound, MergeSound
  <2>3. \A p \in Requests : v[p].at = "merge" => MergeSound(row, rt, v, v[p])
    <3>1. SUFFICES ASSUME NEW p \in Requests, p # q, req[p].at = "merge" PROVE MergeSound(row, rt, v, req[p])
      BY <1>3, <2>2
    <3>2. MergeSound(row, rt, req, req[p])
      BY <2>0, <3>1 DEF CopiesSound
    <3> QED BY <1>5, <3>2 DEF MergeSound
  <2>4. /\ \A p \in Operators : Reconciles(v[p]) =>
             /\ row.eps = v[p].copy.eps /\ row.count = v[p].copy.count
             /\ HasTarget(row) = HasTarget(v[p].copy)
        /\ \A p \in Operators : v[p].at = "scan" /\ rt.teleop = "on" =>
             v[p].eps = {rt.episode, rt.final} \ {None}
    BY <1>4, <1>6, <2>0 DEF CopiesSound
  <2>5. adrift = {} => \A p \in Requests : Reconciles(v[p]) \/ Flies(v[p]) =>
           v[p].copy.count = Cardinality(v[p].copy.eps)
    BY <1>4, <2>0 DEF CopiesSound
  <2>6. \A p \in Requests : Flies(v[p]) =>
           /\ row.eps = v[p].copy.eps /\ HasTarget(row) = HasTarget(v[p].copy)
           /\ adrift = {} => row.count = v[p].copy.count
    BY <1>4, <2>0 DEF CopiesSound
  <2>7. \A p \in Requests : Sends(v[p]) =>
           v[p].copy.eps \subseteq row.eps /\ row.eps \subseteq v[p].copy.eps \cup adrift
    BY <1>4, <2>0 DEF CopiesSound
  <2> QED BY <2>1, <2>3, <2>4, <2>5, <2>6, <2>7 DEF CopiesSound
<1>13. UploadedSound(row, rt, v)
  <2>1. SaysUploaded(row, rt, v) => SaysUploaded(row, rt, req)
    BY <1>4 DEF SaysUploaded
  <2> QED BY <2>1 DEF Fit, UploadedSound
<1>14. ListSound(row, rt, v)
  <2>1. Remote(row, req) => Remote(row, v)
    BY <1>4 DEF Remote
  <2>2. Over(row, rt, req) => Over(row, rt, v)
    BY <1>1, <1>3, <1>4 DEF Over
  <2>3. \A p \in Requests : v[p].at \in {"closing", "naming", "settled", "send", "sent", "cleaning", "create",
           "collided"} => v[p] = req[p]
    BY <1>4
  <2> QED BY <1>4, <2>1, <2>2, <2>3 DEF Fit, ListSound
<1>15. TargetSound(row, rt, v)
  <2>1. TargetSound(row, rt, req)
    BY DEF Fit
  <2>2. \A p \in Requests : v[p].at \in {"convert", "look", "collided"} => v[p] = req[p]
    BY <1>4
  <2> QED BY <1>4, <1>6, <2>1, <2>2, RecordingBounds DEF TargetSound
<1> QED BY <1>7, <1>8, <1>9, <1>10, <1>11, <1>12, <1>13, <1>14, <1>15 DEF Fit, v, x

\* A scan keeps the invariant: it finds what is kept, and nothing a finalization holds.
LEMMA ScanFiles ==
    ASSUME OneOperator, FilesInv, NEW q, q \in Requests, Scan(q)
    PROVE  FilesInv'
<1>0. PICK lost \in SUBSET (Kept \ req[q].eps) :
         /\ Reads(lost) /\ dir' = Scanned(req[q].eps, lost)
         /\ Goes(q, "merge", req[q].kind, req[q].copy, Kept \ (req[q].eps \cup lost))
  BY DEF Scan
<1> DEFINE x == At("merge", req[q].kind, req[q].copy, Kept \ (req[q].eps \cup lost))
           v == [req EXCEPT ![q] = x]
<1>1. /\ Fit(row, rt, req) /\ TurnsSound /\ QuietSound(rt) /\ faults \in Nat /\ dir \in Directories
      /\ req \in [Requests -> Waiting] /\ req[q].at = "scan" /\ req' = v
      /\ UNCHANGED <<row, rt, dropping, busy, remote, sd>>
  BY <1>0 DEF FilesInv, Fit, Typed, Scan, Goes
<1>2. dir' \in Directories /\ Kept' = Kept \ lost
  BY <1>0, <1>1 DEF Scanned, Directories, Kept
<1>3. Loses
  <2>1. faults' \in Nat /\ faults <= faults' /\ adrift' = adrift \cup lost
    BY <1>0, <1>1 DEF Reads, Fine, Fault
  <2> QED BY <1>2, <2>1 DEF Loses
<1>4. Fit(row, rt, v)
  BY <1>1, ScanFit
<1>5. Fit(row, rt, req)'
  <2>1. Elsewhere
    BY <1>1, <1>3 DEF Elsewhere, Loses, remote
  <2> HIDE DEF v
  <2> QED BY <1>1, <1>4, <2>1, NowFit
<1>6. TurnsSound'
  <2>1. /\ x.at = "merge" /\ x.copy = req[q].copy /\ x.eps = Kept \ (req[q].eps \cup lost)
        /\ req'[q] = x /\ \A p \in Requests : p # q => req'[p] = req[p]
    BY <1>1 DEF At
  <2> HIDE DEF x
  <2>2. \A p \in Requests : Holds(req'[p]) = Holds(req[p])
    BY <1>1, <2>1 DEF Holds
  <2>3. q \in Operators /\ rt.teleop = "on" /\ rt.episode = None => req[q].eps = {}
    <3>1. SUFFICES ASSUME q \in Operators, rt.teleop = "on", rt.episode = None PROVE req[q].eps = {}
      OBVIOUS
    <3>2. \A p \in Requests : p # q => req[p].at \in {"free", "scan", "merge"}
      BY <1>1, <3>1, OthersPoll DEF Fit
    <3>3. rt.final = None
      BY <1>1, <3>2 DEF Fit, MotionSound, Flies
    <3> QED BY <1>1, <3>1, <3>3 DEF Fit, CopiesSound
  <2>4. \A p \in Operators : q \in Operators => p = q
    BY DEF OneOperator
  <2>5. \A p \in Operators : p # q => req'[p] = req[p]
    BY <2>1 DEF Operators
  <2> QED BY <1>1, <1>2, <2>1, <2>2, <2>3, <2>5 DEF TurnsSound
<1>7. QuietSound(rt)'
  BY <1>1, <1>3 DEF QuietSound, Loses
<1> QED BY <1>3, <1>5, <1>6, <1>7 DEF FilesInv, Loses

-----------------------------------------------------------------------------
(* Tasks, faults and restarts *)

\* Teleoperation goes down, or the process does: the runtime gives up what it does, and says
\* no more than before, or that it failed.
Halts(u) ==
    /\ UNCHANGED <<row, req, hub, repo, reserved, busy>> /\ rt' = u /\ Loses
    /\ u \in Runtimes /\ u.teleop # "on" /\ u.episode = None
    /\ (u.teleop = rt.teleop /\ u.err = rt.err) \/ (rt.teleop = "on" /\ u.teleop = "closing")
    /\ u.final \in {rt.final, None}
    /\ sd' = "down" \/ (u.final = rt.final /\ u.task = rt.task /\ sd # "down")
    /\ (u.status = rt.status /\ u.err = rt.err) \/ u.status = "failed"
    /\ faults' # 0 \/ sd' # "up"

\* A runtime going down keeps the invariant.
LEMMA HaltsFiles ==
    ASSUME FilesInv, NEW u, Halts(u)
    PROVE  FilesInv'
<1>1. /\ row' = row /\ req' = req /\ hub' = hub /\ repo' = repo /\ reserved' = reserved
      /\ busy' = busy /\ rt' = u /\ dir' \in Directories /\ Kept' \subseteq Kept
      /\ Kept \subseteq Kept' \cup adrift' /\ adrift \subseteq adrift'
      /\ adrift' = {} => adrift = {} /\ Kept' = Kept
      /\ u \in Runtimes /\ u.teleop # "on" /\ u.episode = None
      /\ u.final \in {rt.final, None}
      /\ faults' \in Nat /\ faults <= faults'
  BY DEF Halts, Loses
<1>2. /\ (u.teleop = rt.teleop /\ u.err = rt.err) \/ (rt.teleop = "on" /\ u.teleop = "closing")
      /\ sd' = "down" \/ (u.final = rt.final /\ u.task = rt.task /\ sd # "down")
      /\ (u.status = rt.status /\ u.err = rt.err) \/ u.status = "failed"
      /\ faults' # 0 \/ sd' # "up"
  BY DEF Halts
<1>3. Fit(row, rt, req) /\ TurnsSound /\ QuietSound(rt) /\ faults \in Nat
  BY DEF FilesInv
<1>4. AtWork(u, req) => AtWork(rt, req)
  BY <1>1 DEF AtWork
<1>5. Operators \subseteq Requests
  BY DEF Operators
<1>6. rt.teleop = "on" => rt.status \notin Bad /\ ~reserved /\ ~Over(row, rt, req)
  BY <1>3 DEF Fit, StatusSound, PlacesSound, Over
<1>7. Typed(row, rt, req)'
  BY <1>1, <1>3 DEF Fit, Typed
<1>8. PlacesSound(rt, req)'
  BY <1>1, <1>3 DEF Fit, PlacesSound
<1>9. MotionSound(rt, req)'
  <2>1. u.final # None => u.final = rt.final
    BY <1>1
  <2> QED BY <1>1, <1>2, <1>3, <2>1 DEF Fit, MotionSound
<1>10. StatusSound(row, rt, req)'
  <2>1. AtWork(rt, req)' = AtWork(u, req)
    BY <1>1 DEF AtWork
  <2> QED BY <1>1, <1>2, <1>3, <1>4, <2>1 DEF Fit, StatusSound, Bad
<1>11. KeptSound(row, rt, req)'
  <2>1. AtWork(rt, req)' = AtWork(u, req)
    BY <1>1 DEF AtWork
  <2> QED BY <1>1, <1>3, <1>4, <2>1 DEF Fit, KeptSound, Settles, Flying
<1>12. CopiesSound(row, rt, req)'
  <2>0. CopiesSound(row, rt, req)
    BY <1>3 DEF Fit
  <2>1. \A q \in Requests : req'[q].at = "scan" => ScanSound(row, rt, req, req[q])'
    BY <1>1, <2>0 DEF CopiesSound, ScanSound
  <2>2. \A q \in Requests : req'[q].at = "merge" => MergeSound(row, rt, req, req[q])'
    <3>1. AtWork(rt, req)' = AtWork(u, req)
      BY <1>1 DEF AtWork
    <3> QED BY <1>1, <1>4, <2>0, <3>1 DEF CopiesSound, MergeSound
  <2> QED BY <1>1, <2>0, <2>1, <2>2 DEF CopiesSound
<1>13. UploadedSound(row, rt, req)'
  BY <1>1, <1>2, <1>3 DEF Fit, UploadedSound, SaysUploaded
<1>14. ListSound(row, rt, req)'
  <2>1. Over(row, rt, req) => Over(row, u, req)
    BY <1>1, <1>2, <1>6 DEF Over
  <2>2. adrift = {} => u.episode \notin row.eps
    BY <1>1, <1>3, EpisodesAreNumbers DEF Fit, Typed, Rows
  <2>3. Remote(row, req)' = Remote(row, req) /\ Over(row, rt, req)' = Over(row, u, req)
    BY <1>1 DEF Remote, Over
  <2> QED BY <1>1, <1>3, <2>1, <2>2, <2>3 DEF Fit, ListSound
<1>15. TargetSound(row, rt, req)'
  <2>1. SUFFICES ASSUME adrift' = {}, adrift = {} PROVE TargetSound(row, rt, req)'
    BY <1>1 DEF TargetSound
  <2>2. TargetSound(row, rt, req) /\ (faults' <= 1 => faults <= 1) /\ (faults' = 0 => faults = 0)
    BY <1>1, <1>3 DEF Fit
  <2>3. faults' = 0 /\ u.teleop = "closing" => sd' # "up" /\ \A q \in Pollers : Reconciles(req[q]) => ~reserved
    BY <1>1, <1>2, <1>6, <2>1, <2>2 DEF TargetSound
  <2>4. faults' <= 1 /\ u.status = "uploading" => u.err = "none"
    BY <1>2, <2>1, <2>2 DEF TargetSound
  <2>5. \A q \in Operators : Reconciles(req[q]) /\ faults' = 0 /\ u.teleop = "closing" =>
           req[q].copy.status # "uploading"
    BY <1>1, <1>2, <2>1, <2>2 DEF TargetSound
  <2> QED BY <1>1, <2>1, <2>2, <2>3, <2>4, <2>5 DEF TargetSound
<1>16. TurnsSound'
  BY <1>1, <1>3 DEF TurnsSound
<1>17. QuietSound(rt)'
  BY <1>1, <1>2, <1>3, <1>6 DEF QuietSound, Bad
<1> QED BY <1>1, <1>7, <1>8, <1>9, <1>10, <1>11, <1>12, <1>13, <1>14, <1>15, <1>16, <1>17 DEF FilesInv, Fit

\* The tasks and faults beside the requests keep the invariant.
LEMMA OthersFiles ==
    ASSUME FilesInv, EpisodesInv,
           \/ TeleopBreaks \/ \E e \in Episodes : Drops(e)
           \/ BeginShutdown \/ EndShutdown
    PROVE  FilesInv'
<1>1. /\ Fit(row, rt, req) /\ TurnsSound /\ QuietSound(rt) /\ faults \in Nat /\ rt \in Runtimes /\ dir \in Directories
      /\ sd \in {"up", "closing", "down"} /\ (sd # "up" => rt.episode = None /\ rt.teleop # "on")
  BY DEF FilesInv, Fit, Typed, EpisodesInv, EpisodesTypeOK, NoneRecorded
<1>2. CASE TeleopBreaks
  <2> DEFINE u == [rt EXCEPT !.teleop = "closing", !.episode = None, !.status = "failed", !.err = "other"]
  <2>1. /\ u \in Runtimes /\ u.teleop = "closing" /\ u.episode = None /\ u.final = rt.final
        /\ u.task = rt.task /\ u.status = "failed"
    BY <1>1 DEF Runtimes, Statuses
  <2>2. Halts(u)
    BY <1>1, <1>2, <2>1 DEF Halts, Loses, TeleopBreaks, Fault, remote, process, Kept
  <2> QED BY <2>2, HaltsFiles
<1>3. CASE BeginShutdown
  <2> DEFINE u == [rt EXCEPT !.teleop = IF @ = "on" THEN "closing" ELSE @, !.episode = None]
  <2>1. /\ u \in Runtimes /\ u.episode = None /\ u.final = rt.final
        /\ u.task = rt.task /\ u.status = rt.status /\ u.err = rt.err
        /\ u.teleop = IF rt.teleop = "on" THEN "closing" ELSE rt.teleop
    BY <1>1 DEF Runtimes, Statuses
  <2>2. /\ rt' = u /\ sd' = "closing" /\ sd = "up" /\ faults' = faults
        /\ UNCHANGED <<row, dir, busy, remote, req, adrift>>
    BY <1>3 DEF BeginShutdown, disk
  <2> HIDE DEF u
  <2>3. u.teleop = rt.teleop \/ (rt.teleop = "on" /\ u.teleop = "closing")
    BY <2>1
  <2>4. u.teleop # "on"
    BY <2>1
  <2>5. Halts(u)
    BY <1>1, <2>1, <2>2, <2>3, <2>4 DEF Halts, Loses, remote, Kept
  <2> QED BY <2>5, HaltsFiles
<1>4. CASE EndShutdown
  <2> DEFINE u == [rt EXCEPT !.final = None, !.task = FALSE]
  <2>1. /\ u \in Runtimes /\ u.episode = rt.episode /\ u.final = None
        /\ u.status = rt.status /\ u.err = rt.err /\ u.teleop = rt.teleop
    BY <1>1 DEF Runtimes
  <2>2. Loses
    BY <1>1, <1>4, AbortsLose DEF EndShutdown
  <2>3. /\ rt' = u /\ sd' = "down" /\ sd = "closing"
        /\ UNCHANGED <<row, busy, remote, req>>
    BY <1>4 DEF EndShutdown
  <2> HIDE DEF u
  <2>4. Halts(u)
    BY <1>1, <2>1, <2>2, <2>3 DEF Halts, remote
  <2> QED BY <2>4, HaltsFiles
<1>5. CASE \E e \in Episodes : Drops(e)
  <2>1. UNCHANGED <<row, rt, busy, remote, req, sd>> /\ Loses
    BY <1>1, <1>5, AbortsLose DEF Drops
  <2>2. Elsewhere
    BY <1>1, <2>1 DEF Elsewhere, Loses, remote
  <2>3. Fit(row, rt, req)'
    BY <1>1, <2>1, <2>2, NowFit
  <2> QED BY <1>1, <2>1, <2>3 DEF FilesInv, TurnsSound, QuietSound, Loses
<1> QED BY <1>2, <1>3, <1>4, <1>5

\* What a process finds when it starts: the row as it was, or with what is kept; the files
\* but those of an upload that is over, and those lost.
Restarted ==
    /\ rt' = Quiet /\ ~busy' /\ ~reserved' /\ req' = [q \in Requests |-> Unused]
    /\ adrift \subseteq adrift' /\ (\A e \in Kept' : e \in row'.eps \cup adrift')
    /\ UNCHANGED <<hub, repo>>
    /\ row' \in Rows /\ dir' \in Directories /\ HasTarget(row') = HasTarget(row)
    /\ Kept' \subseteq Kept /\ (Kept \subseteq Kept' \cup adrift' \/ row.status = "uploaded")
    /\ faults' \in Nat /\ faults <= faults'
    /\ \/ row' = row
       \/ /\ row'.eps = row.eps \cup Kept' /\ row'.count = Cardinality(row'.eps)
          /\ row'.status \notin Bad /\ row.status # "uploaded"

\* What a new process finds satisfies the invariant.
LEMMA RestartedFiles ==
    ASSUME FilesInv, Restarted
    PROVE  FilesInv'
<1>1. Fit(row, rt, req) /\ faults \in Nat /\ row \in Rows
  BY DEF FilesInv, Fit, Typed
<1>2. /\ rt' = Quiet /\ ~busy' /\ ~reserved' /\ req' = [q \in Requests |-> Unused]
      /\ adrift \subseteq adrift' /\ (\A e \in Kept' : e \in row'.eps \cup adrift')
      /\ hub' = hub /\ repo' = repo
      /\ row' \in Rows /\ dir' \in Directories /\ HasTarget(row') = HasTarget(row)
      /\ Kept' \subseteq Kept /\ (Kept \subseteq Kept' \cup adrift' \/ row.status = "uploaded")
      /\ faults' \in Nat /\ faults <= faults'
      /\ \/ row' = row
         \/ /\ row'.eps = row.eps \cup Kept' /\ row'.count = Cardinality(row'.eps)
            /\ row'.status \notin Bad /\ row.status # "uploaded"
  BY DEF Restarted
<1>3. /\ Quiet \in Runtimes /\ Quiet.teleop = "off" /\ Quiet.episode = None /\ Quiet.final = None
      /\ Quiet.status = "draft" /\ Quiet.err = "none"
  BY DEF Quiet, Runtimes, Statuses
<1>4. Unused \in Waiting /\ Sound(Unused) /\ Unused.at = "free"
  BY NothingAsked
<1>5. /\ req' \in [Requests -> Waiting]
      /\ \A q \in Requests : /\ req'[q].at = "free" /\ Sound(req'[q])
                             /\ ~Reconciles(req'[q]) /\ ~Flies(req'[q]) /\ ~Sends(req'[q]) /\ ~Uploads(req'[q])
                             /\ ~Holds(req'[q])
  <2>1. \A q \in Requests : req'[q] = Unused
    BY <1>2
  <2>2. req' \in [Requests -> Waiting]
    BY <1>2, <1>4
  <2> QED BY <1>4, <2>1, <2>2 DEF Reconciles, Flies, Sends, Uploads, Holds
<1>6. \A q \in Operators : req'[q].at = "free" /\ ~Reconciles(req'[q])
  BY <1>5 DEF Operators
<1>7. Pollers \subseteq Requests
  BY RecordingBounds
<1>8. ~AtWork(rt, req)'
  BY <1>2, <1>3, <1>5 DEF AtWork
<1>9. Typed(row, rt, req)'
  BY <1>2, <1>3, <1>5 DEF Typed
<1>10. PlacesSound(rt, req)' /\ MotionSound(rt, req)' /\ StatusSound(row, rt, req)'
  BY <1>2, <1>3, <1>5, <1>6, <1>7, <1>8 DEF PlacesSound, MotionSound, StatusSound
<1>11. KeptSound(row, rt, req)'
  BY <1>2, <1>5, <1>8 DEF KeptSound
<1>12. CopiesSound(row, rt, req)'
  BY <1>5, <1>6 DEF CopiesSound
<1>13. row.status = "uploaded" => Kept \cup row.eps \subseteq hub \cup adrift
  BY <1>1 DEF Fit, UploadedSound, SaysUploaded
<1>14. UploadedSound(row, rt, req)'
  <2>1. SaysUploaded(row, rt, req)' => row' = row /\ row.status = "uploaded"
    BY <1>2, <1>3, <1>5 DEF SaysUploaded, Bad
  <2> QED BY <1>2, <1>13, <2>1 DEF UploadedSound
<1>15. ListSound(row, rt, req)'
  <2>1. SUFFICES ASSUME adrift' = {} PROVE ListSound(row, rt, req)'
    BY DEF ListSound
  <2>2. adrift = {} /\ ListSound(row, rt, req)
    BY <1>1, <1>2, <2>1 DEF Fit
  <2>3. HasTarget(row) /\ repo = "ours" => Remote(row, req)'
    BY <1>2, <1>5 DEF Remote
  <2>4. row' = row /\ row.status = "uploaded" => Over(row, rt, req)'
    BY <1>2, <1>3, <1>5 DEF Over
  <2>5. row.eps \subseteq Kept \/ Remote(row, req)' \/ row.status = "uploaded"
    BY <2>2, <2>3 DEF ListSound, Remote, Over
  <2>6. row'.eps \subseteq Kept' \/ Remote(row, req)' \/ Over(row, rt, req)'
    BY <1>2, <2>1, <2>4, <2>5
  <2>7. row'.eps \subseteq Kept' \cup hub /\ row'.count = Cardinality(row'.eps)
    BY <1>2, <1>13, <2>1, <2>2 DEF ListSound
  <2>8. Quiet.episode \notin row'.eps
    BY <1>2, <1>3, EpisodesAreNumbers DEF Rows
  <2> QED BY <1>2, <1>5, <2>6, <2>7, <2>8 DEF ListSound
<1>16. TargetSound(row, rt, req)'
  <2>1. SUFFICES ASSUME adrift' = {} PROVE TargetSound(row, rt, req)'
    BY DEF TargetSound
  <2>2. adrift = {} /\ TargetSound(row, rt, req) /\ (faults' <= 1 => faults <= 1)
    BY <1>1, <1>2, <2>1 DEF Fit
  <2>3. faults' <= 1 =>
         /\ row'.status = "uploading" => HasTarget(row')
         /\ repo \in {"bare", "ours"} => HasTarget(row')
    BY <1>2, <2>2 DEF TargetSound, Bad
  <2> QED BY <1>2, <1>3, <1>5, <1>6, <2>3 DEF TargetSound
<1>17. TurnsSound' /\ QuietSound(rt)'
  BY <1>2, <1>3, <1>5, <1>6 DEF TurnsSound, QuietSound
<1> QED BY <1>2, <1>9, <1>10, <1>11, <1>12, <1>14, <1>15, <1>16, <1>17 DEF FilesInv, Fit

\* What starting makes of the row.
LEMMA RecoveredRow ==
    ASSUME row \in Rows, NEW found \in SUBSET Episodes
    PROVE  /\ Recovered(found) \in Rows /\ HasTarget(Recovered(found)) = HasTarget(row)
           /\ Recovered(found).eps = row.eps \cup found
           /\ Recovered(found).count = Cardinality(Recovered(found).eps)
           /\ row.status # "uploaded" => Recovered(found).status \notin Bad
<1> DEFINE r == Recovered(found)
<1>1. r \in Rows
  <2>1. row.eps \cup found \in SUBSET Episodes /\ Cardinality(row.eps \cup found) \in Nat
    BY EpisodesCounted DEF Rows
  <2> QED BY <2>1 DEF Recovered, Broken, Rows, Statuses
<1>2. r.eps = row.eps \cup found /\ r.count = Cardinality(row.eps \cup found)
  BY DEF Recovered, Rows
<1>3. r.upload = IF row.status = "uploading" THEN Broken(row.upload) ELSE row.upload
  BY DEF Recovered, Rows
<1>4. HasTarget(r) = HasTarget(row)
  BY <1>3 DEF HasTarget, Broken
<1>5. row.status # "uploaded" => r.status \notin Bad
  BY DEF Recovered, Rows, Bad
<1> QED BY <1>1, <1>2, <1>4, <1>5

\* So a restart keeps it, with reconciliation of the row or without.
LEMMA RestartFiles ==
    ASSUME FilesInv, Restart
    PROVE  FilesInv'
<1>1. row \in Rows /\ dir \in Directories /\ faults \in Nat
  BY DEF FilesInv, Fit, Typed
<1>2. PICK lost \in SUBSET Kept :
         /\ \/ Fault /\ dir' = Left(lost) /\ row' = row
            \/ lost = {} /\ row.status = "uploaded" /\ row' = row /\ Removed(Left(lost))
            \/ /\ row.status # "uploaded" /\ dir' = Scanned({}, lost)
               /\ \/ lost = {} /\ Fine /\ row' = Recovered(Kept)
                  \/ Fault /\ row' \in {row, Recovered(Kept \ lost)}
         /\ adrift' = adrift \cup lost
                       \cup {e \in Episodes : dir'[e] = "kept" /\ e \notin row'.eps}
  BY DEF Restart
<1>3. /\ Left(lost) \in Directories
      /\ {e \in Episodes : Left(lost)[e] = "kept"} = Kept \ lost
  BY <1>1 DEF Left, Directories, Kept
<1>4. /\ Scanned({}, lost) \in Directories
      /\ {e \in Episodes : Scanned({}, lost)[e] = "kept"} = Kept \ lost
  BY <1>1 DEF Scanned, Directories, Kept
<1>5. faults' \in Nat /\ faults <= faults'
  BY <1>1, <1>2 DEF Fault, Fine, Removed
<1>6. Removed(Left(lost)) => dir' \in Directories /\ Kept' \subseteq Kept
  <2>1. CASE dir' = [e \in Episodes |-> "absent"]
    BY <2>1 DEF Directories, Kept
  <2>2. CASE \E E \in SUBSET Episodes :
                dir' = [e \in Episodes |-> IF e \in E THEN "absent" ELSE Left(lost)[e]]
    BY <1>3, <2>2 DEF Directories, Kept
  <2> QED BY <2>1, <2>2 DEF Removed
<1>7. dir' \in {Left(lost), Scanned({}, lost)} => dir' \in Directories /\ Kept' = Kept \ lost
  BY <1>3, <1>4 DEF Kept
<1>8. dir' \in Directories /\ Kept' \subseteq Kept
      /\ (Kept \subseteq Kept' \cup adrift' \/ row.status = "uploaded")
  BY <1>2, <1>6, <1>7
<1>9. \A e \in Kept' : e \in row'.eps \cup adrift'
  BY <1>2 DEF Kept
<1>10. Kept \subseteq Episodes
  BY DEF Kept
<1>11. /\ row' \in Rows /\ HasTarget(row') = HasTarget(row)
       /\ \/ row' = row
          \/ /\ row'.eps = row.eps \cup Kept' /\ row'.count = Cardinality(row'.eps)
             /\ row'.status \notin Bad /\ row.status # "uploaded"
  <2>1. row' = row \/ (/\ row' = Recovered(Kept \ lost) /\ row.status # "uploaded"
                      /\ dir' = Scanned({}, lost))
    BY <1>2
  <2> QED BY <1>1, <1>7, <1>10, <2>1, RecoveredRow
<1>12. Restarted
  BY <1>2, <1>5, <1>8, <1>9, <1>11 DEF Restart, Restarted
<1> QED BY <1>12, RestartedFiles

-----------------------------------------------------------------------------
(* The theorems *)

\* It holds before any request.
LEMMA FilesAtFirst ==
    ASSUME RecordingsInit
    PROVE  FilesInv /\ Untouched
<1>1. /\ row = Blank /\ rt = Quiet /\ dir = [e \in Episodes |-> "absent"] /\ dropping = {}
      /\ busy = FALSE /\ reserved = FALSE /\ hub = {} /\ repo = "absent"
      /\ req = [q \in Requests |-> Unused] /\ faults = 0 /\ adrift = {}
  BY DEF RecordingsInit
<1>2. /\ Quiet \in Runtimes /\ Quiet.teleop = "off" /\ Quiet.episode = None /\ Quiet.final = None
      /\ Quiet.status = "draft" /\ Quiet.err = "none"
  BY DEF Quiet, Runtimes, Statuses
<1>3. Blank \in Rows /\ Blank.status = "draft" /\ Blank.count = 0 /\ Blank.eps = {} /\ Blank.upload = "none"
  BY DEF Blank, Rows, Statuses
<1>4. Unused \in Waiting /\ Sound(Unused) /\ Unused.at = "free"
  BY NothingAsked
<1>5. dir \in Directories /\ Kept = {}
  BY <1>1 DEF Directories, Kept
<1>6. /\ req \in [Requests -> Waiting]
      /\ \A q \in Requests : /\ req[q].at = "free" /\ Sound(req[q])
                             /\ ~Reconciles(req[q]) /\ ~Flies(req[q]) /\ ~Sends(req[q]) /\ ~Uploads(req[q])
                             /\ ~Holds(req[q])
  <2>1. \A q \in Requests : req[q] = Unused
    BY <1>1
  <2>2. req \in [Requests -> Waiting]
    BY <1>1, <1>4
  <2> QED BY <1>4, <2>1, <2>2 DEF Reconciles, Flies, Sends, Uploads, Holds
<1>7. \A q \in Operators : req[q].at = "free" /\ ~Reconciles(req[q])
  BY <1>6 DEF Operators
<1>8. ~AtWork(rt, req)
  BY <1>1, <1>2, <1>6 DEF AtWork
<1>9. Typed(row, rt, req)
  BY <1>1, <1>2, <1>3, <1>5, <1>6 DEF Typed
<1>10. PlacesSound(rt, req) /\ MotionSound(rt, req) /\ StatusSound(row, rt, req) /\ KeptSound(row, rt, req)
  BY <1>1, <1>2, <1>5, <1>6, <1>7, <1>8, RecordingBounds DEF PlacesSound, MotionSound, StatusSound, KeptSound
<1>11. CopiesSound(row, rt, req) /\ UploadedSound(row, rt, req)
  BY <1>1, <1>3, <1>5, <1>6, <1>7 DEF CopiesSound, UploadedSound
<1>12. ListSound(row, rt, req)
  BY <1>1, <1>3, <1>6, FS_EmptySet DEF ListSound
<1>13. TargetSound(row, rt, req)
  BY <1>1, <1>2, <1>3, <1>6, <1>7 DEF TargetSound
<1>14. QuietSound(rt) /\ TurnsSound
  BY <1>1, <1>2, <1>6, <1>7 DEF QuietSound, TurnsSound
<1>15. Untouched
  BY <1>1, <1>2, <1>6 DEF Untouched, Finds
<1> QED BY <1>1, <1>9, <1>10, <1>11, <1>12, <1>13, <1>14, <1>15 DEF FilesInv, Fit

\* Every step keeps it.
LEMMA FilesNext ==
    ASSUME OneOperator, FilesInv, Untouched, EpisodesInv, [RecordingsNext]_recordingVars
    PROVE  FilesInv' /\ Untouched'
<1>1. CASE UNCHANGED recordingVars
  <2>1. Kept' = Kept /\ faults \in Nat
    BY <1>1 DEF recordingVars, disk, Kept, FilesInv
  <2>2. /\ row' = row /\ rt' = rt /\ req' = req /\ dir' = dir /\ dropping' = dropping /\ busy' = busy
        /\ reserved' = reserved /\ hub' = hub /\ repo' = repo /\ sd' = sd /\ adrift' = adrift /\ faults' = faults
    BY <1>1 DEF recordingVars, disk, remote, process
  <2>3. Elsewhere
    BY <2>1, <2>2 DEF Elsewhere, FilesInv, Fit, Typed
  <2>4. Fit(row, rt, req)'
    BY <2>2, <2>3, NowFit DEF FilesInv
  <2>5. TurnsSound' /\ QuietSound(rt)'
    BY <2>1, <2>2 DEF FilesInv, TurnsSound, QuietSound
  <2>6. Untouched'
    BY <2>2 DEF Untouched, Finds
  <2> QED BY <2>1, <2>2, <2>4, <2>5, <2>6 DEF FilesInv
<1>2. ASSUME NEW q, q \in Requests, Works(q)
      PROVE  FilesInv' /\ Untouched'
  <2>1. CASE Scan(q)
    BY <1>2, <2>1, ScanFiles, ScanUntouched
  <2>2. CASE Merge(q)
    BY <1>2, <2>2, MergeFiles, MergeUntouched
  <2>3. CASE TeleopStopped(q)
    BY <1>2, <2>3, TeleopStoppedFiles, RestsUntouched
  <2>4. CASE Renames(q)
    BY <1>2, <2>4, RenamesFiles, RenamesUntouched
  <2>5. CASE Publishes(q)
    BY <1>2, <2>5, PublishesFiles, RenamesUntouched
  <2>6. CASE StopSettles(q)
    BY <1>2, <2>6, StopSettlesFiles, RestsUntouched
  <2>7. CASE StopConfirms(q)
    BY <1>2, <2>7, StopConfirmsFiles, RestsUntouched
  <2>8. CASE StopAborts(q)
    BY <1>2, <2>8, StopAbortsFiles, RestsUntouched
  <2>9. CASE FailsRow(q)
    BY <1>2, <2>9, FailsRowFiles, RestsUntouched
  <2>10. CASE Converts(q) \/ Looks(q) \/ Creates(q) \/ Marks(q)
    BY <1>2, <2>10, SendingFiles, UploadsUntouched
  <2>11. CASE UploadSucceeds(q) \/ UploadFails(q) \/ UploadCollides(q)
    BY <1>2, <2>11, UploadEndsFiles, UploadsUntouched
  <2>12. CASE CleanBegins(q)
    BY <1>2, <2>12, CleanBeginsFiles, UploadsUntouched
  <2>13. CASE CleanEnds(q)
    BY <1>2, <2>13, CleanEndsFiles, CleansUntouched
  <2> QED BY <1>2, <2>1, <2>2, <2>3, <2>4, <2>5, <2>6, <2>7, <2>8, <2>9, <2>10, <2>11, <2>12, <2>13 DEF Works
<1>3. ASSUME NEW q, NEW kind, q \in Requests, kind \in Asks(q), Arrive(q, kind)
      PROVE  FilesInv' /\ Untouched'
  BY <1>3, ArriveFiles, ArriveUntouched
<1>4. CASE TeleopReleases
  BY <1>4, TeleopReleasesFiles, OthersUntouched
<1>5. CASE TeleopBreaks \/ (\E e \in Episodes : Drops(e)) \/ BeginShutdown \/ EndShutdown
  BY <1>5, OthersFiles, OthersUntouched
<1>6. CASE Restart
  BY <1>6, RestartFiles, OthersUntouched
<1> QED BY <1>1, <1>2, <1>3, <1>4, <1>5, <1>6 DEF RecordingsNext

\* With one operator and any number of polling pages, for any bounds, faults and restarts: at
\* every await of every handler the row, the runtime, the copies requests work from, the
\* directories and the repository agree; and until something fails every finalization finds
\* its episode's files.
THEOREM FilesInductive ==
    ASSUME OneOperator
    PROVE  RecordingsSpec => [](FilesInv /\ Untouched)
<1>1. RecordingsInit => FilesInv /\ Untouched
  BY FilesAtFirst
<1>2. /\ FilesInv /\ Untouched
      /\ EpisodesInv
      /\ [RecordingsNext]_recordingVars
      => FilesInv' /\ Untouched'
  BY FilesNext
<1>3. RecordingsSpec => []EpisodesInv
  BY EpisodesInductive
<1> QED BY <1>1, <1>2, <1>3, PTL DEF RecordingsSpec

\* RowMatchesFiles: unless an episode is adrift, the row counts the episodes it lists, each is in
\* staging or on the Hub, a row that says uploaded lists only uploaded ones, and after at
\* most one fault it names the repository its upload has created.
THEOREM RowAgrees ==
    ASSUME OneOperator
    PROVE  RecordingsSpec => []RowMatchesFiles
<1>1. FilesInv => RowMatchesFiles
  <2>1. SUFFICES ASSUME FilesInv, adrift = {}
                 PROVE  /\ row.count = Cardinality(row.eps)
                        /\ row.eps \subseteq Kept \cup hub
                        /\ row.status = "uploaded" => row.eps \subseteq hub
                        /\ faults <= 1 /\ repo \in {"bare", "ours"} => HasTarget(row)
    BY DEF RowMatchesFiles
  <2>2. /\ ListSound(row, rt, req) /\ UploadedSound(row, rt, req) /\ TargetSound(row, rt, req)
    BY <2>1 DEF FilesInv, Fit
  <2>3. row.count = Cardinality(row.eps) /\ row.eps \subseteq Kept \cup hub
    BY <2>1, <2>2 DEF ListSound
  <2>4. row.status = "uploaded" => row.eps \subseteq hub
    BY <2>1, <2>2 DEF UploadedSound, SaysUploaded
  <2>5. faults <= 1 /\ repo \in {"bare", "ours"} => HasTarget(row)
    BY <2>1, <2>2 DEF TargetSound
  <2> QED BY <2>3, <2>4, <2>5
<1>2. RecordingsSpec => [](FilesInv /\ Untouched)
  BY FilesInductive
<1> QED BY <1>1, <1>2, PTL

\* The files of a finalized episode are there after the step, or in H.
StaysOr(H) == \A e \in Episodes : dir[e] = "kept" /\ dir'[e] # "kept" => e \in H

\* A handler's turn removes no finalized episode.
LEMMA HandlesKeep ==
    ASSUME dir \in Directories, NEW q, NEW kind \in Kinds, NEW c, NEW r, NEW t, NEW scanning,
           c \in Rows, t \in Runtimes, Handles(q, kind, c, r, t, scanning)
    PROVE  StaysOr({})
<1>1. CASE kind = "look"
  BY <1>1 DEF Handles, LookUp, Refuse, disk, StaysOr
<1>2. CASE kind = "state"
  BY <1>2 DEF Handles, ShowState, disk, StaysOr
<1>3. CASE kind = "teleopStart"
  BY <1>3 DEF Handles, TeleopStarts, Refuse, disk, StaysOr
<1>4. CASE kind = "teleopStop"
  BY <1>4 DEF Handles, TeleopStops, Refuse, disk, StaysOr
<1>5. CASE kind = "start"
  <2> DEFINE u == Ensured(t, c)
             e == Min(Available(u))
  <2>1. CASE dir' = dir
    BY <2>1 DEF StaysOr
  <2>2. CASE Available(u) # {} /\ dir' = Opened(e)
    <3>1. Available(u) \in SUBSET Nat
      BY EpisodesAreNumbers DEF Available
    <3>2. e \in Available(u)
      BY <2>2, <3>1, LeastOf
    <3> HIDE DEF e, u
    <3>3. e \in Episodes /\ dir[e] = "absent"
      BY <3>2 DEF Available
    <3> QED BY <2>2, <3>3 DEF Opened, StaysOr, Directories
  <2> QED BY <1>5, <2>1, <2>2 DEF Handles, StartEpisode, Refuse, disk
<1>6. CASE kind = "stop"
  BY <1>6 DEF Handles, StopEpisode, Refuse, disk, StaysOr
<1>7. CASE kind = "upload"
  BY <1>7 DEF Handles, Upload, Refuse, disk, StaysOr
<1> QED BY <1>1, <1>2, <1>3, <1>4, <1>5, <1>6, <1>7 DEF Kinds

\* Nor does one that marks an interrupted upload first.
LEMMA ServesKeep ==
    ASSUME dir \in Directories, NEW q, NEW kind \in Kinds, NEW c, NEW r, NEW t, NEW scanning,
           c \in Rows, t \in Runtimes, Serves(q, kind, c, r, t, scanning)
    PROVE  StaysOr({})
<1>1. CASE Handles(q, kind, c, r, t, scanning)
  BY <1>1, HandlesKeep
<1>2. CASE Handles(q, kind, Interrupted(c), Stored(r, c, Interrupted(c)), t, scanning)
  <2>1. Interrupted(c) \in Rows
    BY RowsChanged
  <2> QED BY <1>2, <2>1, HandlesKeep
<1>3. CASE UNCHANGED disk
  BY <1>3 DEF disk, StaysOr
<1> QED BY <1>1, <1>2, <1>3 DEF Serves

\* An abort removes one only if it cannot read its manifest.
LEMMA AbortsKeep ==
    ASSUME NEW E, Aborts(E)
    PROVE  StaysOr(hub \cup adrift')
BY DEF Aborts, Reads, Without, StaysOr

\* A request at work removes a finalized episode only when the Hub has it.
LEMMA WorksKeep ==
    ASSUME FilesInv, NEW q, q \in Requests, Works(q)
    PROVE  StaysOr(hub \cup adrift')
<1>1. /\ Fit(row, rt, req) /\ dir \in Directories /\ faults \in Nat /\ req \in [Requests -> Waiting] /\ row \in Rows
      /\ rt \in Runtimes /\ req[q] \in Waiting /\ Sound(req[q])
  BY DEF FilesInv, Fit, Typed
<1>2. StaysOr({}) => StaysOr(hub \cup adrift')
  BY DEF StaysOr
<1>3. CASE Scan(q)
  <2>1. PICK lost : Reads(lost) /\ dir' = Scanned(req[q].eps, lost)
    BY <1>3 DEF Scan
  <2> QED BY <2>1 DEF Reads, Scanned, StaysOr
<1>4. CASE Merge(q)
  <2> DEFINE n == Merged(req[q].copy, req[q].eps)
             u == Refreshed(rt, n)
             kind == req[q].kind
  <2>1. n \in Rows /\ kind \in Kinds
    BY <1>1, <1>4, RowsChanged DEF Waiting, Sound, Merge
  <2>2. u \in Runtimes
    BY <1>1, <2>1, RuntimeEnsured DEF SameMotion
  <2>3. UNCHANGED dir \/ Serves(q, kind, n, Stored(row, req[q].copy, n), u, FALSE)
    BY <1>4 DEF Merge
  <2> HIDE DEF n, u, kind
  <2>4. StaysOr({})
    BY <1>1, <2>1, <2>2, <2>3, ServesKeep DEF StaysOr
  <2> QED BY <1>2, <2>4
<1>5. CASE Renames(q)
  <2>1. \/ dir[Subject(q)] = "open" /\ dir' = [dir EXCEPT ![Subject(q)] = "renamed"]
        \/ dir' = dir
    BY <1>5 DEF Renames
  <2> QED BY <1>1, <2>1 DEF Directories, StaysOr
<1>6. CASE Publishes(q)
  <2>1. dir' = [dir EXCEPT ![Subject(q)] = "kept"] \/ dir' = dir
    BY <1>6 DEF Publishes
  <2> QED BY <1>1, <2>1 DEF Directories, StaysOr
<1>7. CASE StopAborts(q)
  BY <1>7, AbortsKeep DEF StopAborts
<1>8. CASE CleanEnds(q)
  <2>1. Kept \subseteq hub \cup adrift'
    BY <1>1, <1>8 DEF Fit, UploadedSound, SaysUploaded, CleanEnds, process
  <2> QED BY <2>1 DEF StaysOr, Kept
<1>9. CASE \/ TeleopStopped(q) \/ StopSettles(q) \/ StopConfirms(q) \/ FailsRow(q)
           \/ Converts(q) \/ Looks(q) \/ Creates(q) \/ Marks(q)
           \/ UploadSucceeds(q) \/ UploadFails(q) \/ UploadCollides(q) \/ CleanBegins(q)
  <2>1. dir' = dir
    BY <1>9 DEF TeleopStopped, StopSettles, StopConfirms, FailsRow, Converts, Looks, Creates, Marks,
       UploadSucceeds, UploadFails, UploadCollides, CleanBegins, Gives, Quietly, disk
  <2> QED BY <2>1 DEF StaysOr
<1> QED BY <1>3, <1>4, <1>5, <1>6, <1>7, <1>8, <1>9 DEF Works

\* Nothing else removes one that is neither on the Hub nor adrift.
LEMMA OthersKeep ==
    ASSUME FilesInv,
           \/ \E q \in Requests, kind \in Kinds : Arrive(q, kind)
           \/ TeleopReleases \/ TeleopBreaks \/ \E e \in Episodes : Drops(e)
           \/ BeginShutdown \/ EndShutdown \/ Restart
    PROVE  StaysOr(hub \cup adrift')
<1>1. Fit(row, rt, req) /\ dir \in Directories /\ row \in Rows /\ rt \in Runtimes
  BY DEF FilesInv, Fit, Typed
<1>2. CASE \E q \in Requests, kind \in Kinds : Arrive(q, kind)
  <2>1. PICK q \in Requests, kind \in Kinds : Arrive(q, kind)
    BY <1>2
  <2>2. UNCHANGED dir \/ Serves(q, kind, row, row, rt, TRUE)
    BY <2>1 DEF Arrive
  <2> QED BY <1>1, <2>2, ServesKeep DEF StaysOr
<1>3. CASE TeleopReleases \/ TeleopBreaks \/ BeginShutdown
  BY <1>3 DEF TeleopReleases, TeleopBreaks, BeginShutdown, disk, StaysOr
<1>4. CASE (\E e \in Episodes : Drops(e)) \/ EndShutdown
  BY <1>4, AbortsKeep DEF Drops, EndShutdown
<1>5. CASE Restart
  <2>0. PICK lost \in SUBSET Kept :
           /\ dir' \in {Left(lost), Scanned({}, lost)} \/ row.status = "uploaded"
           /\ adrift \cup lost \subseteq adrift'
    BY <1>5 DEF Restart
  <2>1. CASE dir' \in {Left(lost), Scanned({}, lost)}
    BY <2>0, <2>1 DEF Left, Scanned, StaysOr
  <2>2. CASE row.status = "uploaded"
    <3>1. Kept \subseteq hub \cup adrift'
      BY <1>1, <2>0, <2>2 DEF Fit, UploadedSound, SaysUploaded
    <3> QED BY <3>1 DEF StaysOr, Kept
  <2> QED BY <2>0, <2>1, <2>2
<1> QED BY <1>2, <1>3, <1>4, <1>5

\* KeptUntilUploaded: with one operator, no step removes the files of a finalized episode
\* that is not on the Hub, unless its publication was not committed or its manifest could
\* not be read.
THEOREM FilesKept ==
    ASSUME OneOperator
    PROVE  RecordingsSpec => KeptUntilUploaded
<1>1. FilesInv /\ [RecordingsNext]_recordingVars =>
         [\A e \in Episodes : dir[e] = "kept" /\ dir'[e] # "kept" => e \in hub \cup adrift']_recordingVars
  <2>1. SUFFICES ASSUME FilesInv, RecordingsNext PROVE StaysOr(hub \cup adrift')
    BY DEF StaysOr
  <2>2. \A q \in Requests : Asks(q) \subseteq Kinds
    BY DEF Asks, Kinds
  <2> QED BY <2>1, <2>2, WorksKeep, OthersKeep DEF RecordingsNext
<1>2. RecordingsSpec => [](FilesInv /\ Untouched)
  BY FilesInductive
<1> QED BY <1>1, <1>2, PTL DEF RecordingsSpec, KeptUntilUploaded
=============================================================================
