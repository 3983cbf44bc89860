-------------------------- MODULE LegacyPairProofs --------------------------
(***************************************************************************)
(* For any configurations and any number of pairs made one after another:  *)
(* a command reaches an open arm, which nobody closes under it, no device  *)
(* is forgotten before its close was tried, and a pair is reconfigured     *)
(* only once that was done.                                                *)
(* And of the setup that does the reconfiguring (module YamSetup, at the   *)
(* end): an operation that fails leaves the record and a configuration it  *)
(* can name, and nothing is connected without consent or after a failure.  *)
(***************************************************************************)
EXTENDS LegacyPair, YamSetup, WellFoundedInduction, TLAPS

Devices == [leader : {"none", "made", "open", "closed", "stuck"},
            follower : {"none", "made", "open", "closed", "stuck"},
            mode : {"none", "gravity", "position"}, config : Configs]

DriverOK ==
    driver \in [config : Configs, status : Statuses \cup {"connected"}, accepting : BOOLEAN,
                   stop : BOOLEAN, leader : {None} \cup Pairs, follower : {None} \cup Pairs,
                   position : BOOLEAN, connected : BOOLEAN,
                   thread : {"none", "unstarted", "alive", "dead"}]
DeviceOK == device \in [Pairs -> Devices]
LockOK == lock \in [leader : {"free", "life", "sampler"},
                    follower : {"free", "sampler", "writer"}]
LifeOK == life \in [pc : {"idle", "make", "leader", "follower", "sample", "undo", "accept",
                       "thread", "join", "close", "closed"},
                 op : {"none", "startup", "shutdown", "replace"}]
SamplerOK == sampler \in [pc : {"none", "top", "leader", "leader read", "follower",
                                "follower read", "store", "fault", "finally", "close", "end"},
                          leader : {None} \cup Pairs, follower : {None} \cup Pairs]
WriterOK == writer \in [pc : {"idle", "lock", "check", "mode", "command", "shut"},
                   follower : {None} \cup Pairs]
TypeOK == DriverOK /\ DeviceOK /\ LockOK /\ LifeOK /\ SamplerOK /\ WriterOK

(* Each lock is held where its holder's code says so.                      *)
LocksHeld ==
    /\ lock.leader = "life" <=> life.pc = "close"
    /\ lock.leader = "sampler" <=> sampler.pc \in {"leader read", "close"}
    /\ lock.follower = "sampler" <=> sampler.pc = "follower read"
    /\ lock.follower = "writer" <=> writer.pc \in {"check", "mode", "command", "shut"}

(* The driver has one pair, of the configuration it is run with, and what  *)
(* is open is that pair's.                                                 *)
OnePair ==
    /\ driver.follower # None => driver.follower = driver.leader
    /\ driver.leader # None => device[driver.leader].config = driver.config
    /\ \A p \in Pairs : /\ device[p].leader = "open" => driver.leader = p
                        /\ device[p].follower = "open" => driver.follower = p
    /\ driver.position => /\ driver.follower # None
                          /\ device[driver.follower].mode = "position"

Starting == life.pc \in {"leader", "follower", "sample", "accept", "thread"}

(* The sampling thread is alive exactly while it has something to do, and  *)
(* a lifecycle operation that works on the devices has none beside it.     *)
ThreadSound ==
    /\ Alive <=> sampler.pc # "none"
    /\ Alive => life.pc \in {"idle", "join"}
    /\ driver.thread = "unstarted" => life.pc \in {"thread", "undo", "close", "closed"}
    /\ driver.stop => ~driver.accepting
    /\ Alive \/ life.pc = "thread" => driver.stop \/ driver.accepting
    /\ life.pc \in {"make", "leader", "follower", "sample", "accept"} => ~driver.stop
    /\ sampler.pc \in {"close", "end"} => driver.stop
    /\ driver.accepting => \/ driver.thread = "unstarted" /\ life.pc = "thread"
                           \/ Alive /\ life.pc = "idle"

(* Which devices there are at each place of the lifecycle.                 *)
DevicesSound ==
    /\ \/ life.pc \in {"idle", "join"} /\ ~Alive
       \/ life.pc \in {"make", "closed"}
       \/ sampler.pc = "end"
       => driver.leader = None
    /\ life.pc = "make" => \E p \in Pairs : device[p].leader = "none"
    /\ Starting \/ driver.accepting => driver.leader # None
    /\ life.pc \in {"leader", "follower", "sample", "accept"} =>
          driver.follower # None /\ ~driver.position
    /\ (life.pc \in {"sample", "accept", "thread"} \/ Alive) /\ driver.follower # None
          => device[driver.follower].follower = "open"

(* A command past its checks has the follower it looked at, and no start   *)
(* is beside it.                                                           *)
WriterSound ==
    /\ writer.pc \in {"mode", "command"} =>
          /\ writer.follower # None /\ writer.follower = driver.follower
          /\ device[writer.follower].follower = "open"
    /\ writer.pc = "command" => driver.position
    /\ writer.pc \in {"mode", "command", "shut"} =>
          /\ driver.leader # None
          /\ life.pc \notin {"make", "leader", "follower", "sample", "accept"}

IInv == TypeOK /\ LocksHeld /\ OnePair /\ ThreadSound /\ DevicesSound /\ WriterSound

-----------------------------------------------------------------------------
(* Pairs and devices *)

LEMMA NoneIsNoPair == None \notin Pairs
  BY PairAssumption DEF None, Pairs

(* The factory's pair is the first that was not made yet.                  *)
LEMMA FirstOf == ASSUME NEW S \in SUBSET Nat, S # {} PROVE \E q \in S : \A r \in S : q <= r
  <1> DEFINE R == {ss \in Nat \X Nat : ss[1] < ss[2]}
  <1>1. IsWellFoundedOn(R, Nat)
    BY NatLessThanWellFounded, Zenon DEF OpToRel
  <1>2. \A a, b \in Nat : a < b => <<a, b>> \in R
    OBVIOUS
  <1> HIDE DEF R
  <1>3. PICK x \in S : \A y \in S : ~(<<y, x>> \in R)
    BY <1>1, WFMin
  <1>4. ASSUME NEW r \in S PROVE x <= r
    <2>1. ~(r < x)
      BY <1>2, <1>3, Zenon
    <2> QED BY <2>1
  <1> QED BY <1>4

LEMMA DevicesNamed ==
    ASSUME TypeOK
    PROVE  /\ driver.leader \in {None} \cup Pairs /\ driver.follower \in {None} \cup Pairs
           /\ writer.follower \in {None} \cup Pairs
  BY DEF TypeOK, DriverOK, WriterOK

LEMMA SameTypes ==
    ASSUME TypeOK
    PROVE  /\ UNCHANGED driver => DriverOK'
           /\ UNCHANGED device => DeviceOK'
           /\ UNCHANGED lock => LockOK'
           /\ UNCHANGED life => LifeOK'
           /\ UNCHANGED sampler => SamplerOK'
           /\ UNCHANGED writer => WriterOK'
  BY DEF TypeOK, DriverOK, DeviceOK, LockOK, LifeOK, SamplerOK, WriterOK

-----------------------------------------------------------------------------
(* Steps of the lifecycle *)

LEMMA StartsUpKeeps == ASSUME IInv, StartsUp PROVE IInv'
  <1>1. /\ life.pc = "idle" /\ ~driver.accepting /\ driver.thread # "alive"
        /\ \E p \in Pairs : device[p].leader = "none"
    BY DEF StartsUp, Alive
  <1>2. UNCHANGED <<device, lock, sampler, writer>>
    BY DEF StartsUp, Owner
  <1>3. /\ DriverOK' /\ UNCHANGED <<driver.config, driver.accepting, driver.leader, driver.follower,
                                   driver.thread>>
        /\ ~driver'.position \/ driver'.position = driver.position
        /\ ~driver'.stop \/ driver'.stop = driver.stop
    BY DEF StartsUp, IInv, TypeOK, DriverOK, Statuses
  <1>4. life' = life \/ life' = [pc |-> "make", op |-> "startup"]
    BY DEF StartsUp
  <1>5. LifeOK' /\ (life'.pc = "idle" \/ life'.pc = "make")
    BY <1>1, <1>4 DEF IInv, TypeOK, LifeOK
  <1>6. life'.pc = "make" => ~driver'.stop /\ ~driver'.position
    BY <1>1 DEF StartsUp, IInv, TypeOK, DriverOK
  <1>7. TypeOK'
    BY <1>1, <1>2, <1>3, <1>4, <1>5, <1>6, SameTypes DEF IInv, TypeOK
  <1>8. LocksHeld' /\ ThreadSound'
    BY <1>1, <1>2, <1>3, <1>4, <1>5, <1>6 DEF IInv, LocksHeld, ThreadSound, DevicesSound,
       WriterSound, Alive
  <1>9. OnePair'
    BY <1>1, <1>2, <1>3, <1>4, <1>5, <1>6, NoneIsNoPair, DevicesNamed DEF IInv, OnePair,
       DevicesSound, WriterSound
  <1>10. DevicesSound' /\ WriterSound'
    BY <1>1, <1>2, <1>3, <1>4, <1>5, <1>6, NoneIsNoPair, DevicesNamed DEF IInv, LocksHeld,
       OnePair, ThreadSound, DevicesSound, WriterSound, Starting, Alive
  <1> QED BY <1>7, <1>8, <1>9, <1>10 DEF IInv

LEMMA MakesPair ==
    ASSUME IInv, Makes
    PROVE  \E p \in Pairs :
              /\ device[p].leader = "none"
              /\ device' = [device EXCEPT ![p] = [leader |-> "made", follower |-> "made",
                                                  mode |-> "none", config |-> driver.config]]
              /\ driver' = [driver EXCEPT !.leader = p, !.follower = p]
  <1> DEFINE U == {q \in Pairs : device[q].leader = "none"}
  <1>1. U \in SUBSET Nat /\ U # {}
    BY PairAssumption DEF Pairs, Makes, IInv, DevicesSound
  <1>2. PICK p \in U : \A r \in U : p <= r
    BY <1>1, FirstOf
  <1>3. \E q \in Pairs : /\ device[q].leader = "none"
                         /\ \A r \in Pairs : device[r].leader = "none" => q <= r
    BY <1>2
  <1> QED BY <1>3 DEF Makes

LEMMA MakesKeeps == ASSUME IInv, Makes PROVE IInv'
  <1>1. PICK p \in Pairs :
        /\ device[p].leader = "none"
        /\ device' = [device EXCEPT ![p] = [leader |-> "made", follower |-> "made",
                                            mode |-> "none", config |-> driver.config]]
        /\ driver' = [driver EXCEPT !.leader = p, !.follower = p]
    BY MakesPair
  <1>2. life.pc = "make" /\ UNCHANGED <<lock, sampler, writer>>
    BY DEF Makes, Owner
  <1>3. /\ DriverOK' /\ driver'.leader = p /\ driver'.follower = p
        /\ UNCHANGED <<driver.config, driver.accepting, driver.stop, driver.position,
                       driver.thread>>
    BY <1>1 DEF IInv, TypeOK, DriverOK
  <1>4. /\ DeviceOK' /\ device'[p].leader = "made" /\ device'[p].follower = "made"
        /\ device'[p].config = driver.config /\ \A q \in Pairs : q # p => device'[q] = device[q]
    BY <1>1 DEF IInv, TypeOK, DeviceOK, DriverOK, Devices
  <1>5. LifeOK' /\ life'.pc = "leader"
    BY DEF Makes, GoesOn, IInv, TypeOK, LifeOK
  <1>6. TypeOK'
    BY <1>1, <1>2, <1>3, <1>4, <1>5, SameTypes DEF IInv, TypeOK
  <1>7. LocksHeld' /\ ThreadSound'
    BY <1>1, <1>2, <1>3, <1>4, <1>5 DEF IInv, LocksHeld, ThreadSound, DevicesSound, WriterSound,
       Alive
  <1>8. OnePair'
    BY <1>1, <1>2, <1>3, <1>4, <1>5, NoneIsNoPair, DevicesNamed DEF IInv, OnePair, DevicesSound,
       WriterSound
  <1>9. DevicesSound' /\ WriterSound'
    BY <1>1, <1>2, <1>3, <1>4, <1>5, NoneIsNoPair, DevicesNamed DEF IInv, LocksHeld, OnePair,
       ThreadSound, DevicesSound, WriterSound, Starting, Alive
  <1> QED BY <1>6, <1>7, <1>8, <1>9 DEF IInv

LEMMA ConnectsLeaderKeeps == ASSUME IInv, ConnectsLeader PROVE IInv'
  <1>1. /\ life.pc = "leader" /\ lock.leader = "free" /\ driver.leader \in Pairs
        /\ UNCHANGED <<driver, lock, sampler, writer>>
    BY DEF ConnectsLeader, Owner, IInv, TypeOK, DriverOK, DevicesSound, Starting
  <1>2. /\ DeviceOK' /\ \A q \in Pairs : q # driver.leader => device'[q].leader = device[q].leader
        /\ \A q \in Pairs : /\ device'[q].follower = device[q].follower
                            /\ device'[q].mode = device[q].mode
                            /\ device'[q].config = device[q].config
    BY <1>1 DEF ConnectsLeader, IInv, TypeOK, DeviceOK, Devices
  <1>3. LifeOK' /\ life'.pc = "follower"
    BY DEF ConnectsLeader, GoesOn, IInv, TypeOK, LifeOK
  <1>4. TypeOK'
    BY <1>1, <1>2, <1>3, SameTypes DEF IInv, TypeOK
  <1>5. LocksHeld' /\ ThreadSound'
    BY <1>1, <1>2, <1>3 DEF IInv, LocksHeld, ThreadSound, DevicesSound, WriterSound, Alive
  <1>6. OnePair'
    BY <1>1, <1>2, <1>3, NoneIsNoPair, DevicesNamed DEF IInv, OnePair, DevicesSound, WriterSound
  <1>7. DevicesSound' /\ WriterSound'
    BY <1>1, <1>2, <1>3, NoneIsNoPair, DevicesNamed DEF IInv, LocksHeld, OnePair, ThreadSound,
       DevicesSound, WriterSound, Starting, Alive
  <1> QED BY <1>4, <1>5, <1>6, <1>7 DEF IInv

LEMMA ConnectsFollowerKeeps == ASSUME IInv, ConnectsFollower PROVE IInv'
  <1>1. /\ life.pc = "follower" /\ lock.follower = "free" /\ driver.follower \in Pairs
        /\ UNCHANGED <<driver, lock, sampler, writer>>
    BY DEF ConnectsFollower, Owner, IInv, TypeOK, DriverOK, DevicesSound
  <1>2. /\ DeviceOK' /\ device'[driver.follower].follower = "open"
        /\ \A q \in Pairs : /\ device'[q].leader = device[q].leader
                            /\ device'[q].config = device[q].config
        /\ \A q \in Pairs : q # driver.follower =>
                device'[q].follower = device[q].follower /\ device'[q].mode = device[q].mode
    BY <1>1 DEF ConnectsFollower, IInv, TypeOK, DeviceOK, Devices
  <1>3. LifeOK' /\ life'.pc = "sample"
    BY DEF ConnectsFollower, GoesOn, IInv, TypeOK, LifeOK
  <1>4. TypeOK'
    BY <1>1, <1>2, <1>3, SameTypes DEF IInv, TypeOK
  <1>5. LocksHeld' /\ ThreadSound'
    BY <1>1, <1>2, <1>3 DEF IInv, LocksHeld, ThreadSound, DevicesSound, WriterSound, Alive
  <1>6. OnePair'
    BY <1>1, <1>2, <1>3, NoneIsNoPair, DevicesNamed DEF IInv, OnePair, DevicesSound, WriterSound
  <1>7. DevicesSound' /\ WriterSound'
    BY <1>1, <1>2, <1>3, NoneIsNoPair, DevicesNamed DEF IInv, LocksHeld, OnePair, ThreadSound,
       DevicesSound, WriterSound, Starting, Alive
  <1> QED BY <1>4, <1>5, <1>6, <1>7 DEF IInv

LEMMA SamplesFirstKeeps == ASSUME IInv, SamplesFirst PROVE IInv'
  <1>1. life.pc = "sample" /\ UNCHANGED <<device, lock, sampler, writer>>
    BY DEF SamplesFirst, Owner
  <1>2. /\ DriverOK' /\ UNCHANGED <<driver.config, driver.accepting, driver.stop, driver.leader,
                                     driver.follower, driver.position, driver.thread>>
    BY DEF SamplesFirst, IInv, TypeOK, DriverOK
  <1>3. LifeOK' /\ life'.pc = "accept"
    BY DEF SamplesFirst, GoesOn, IInv, TypeOK, LifeOK
  <1>4. TypeOK'
    BY <1>1, <1>2, <1>3, SameTypes DEF IInv, TypeOK
  <1>5. LocksHeld' /\ ThreadSound'
    BY <1>1, <1>2, <1>3 DEF IInv, LocksHeld, ThreadSound, DevicesSound, WriterSound, Alive
  <1>6. OnePair'
    BY <1>1, <1>2, <1>3, NoneIsNoPair, DevicesNamed DEF IInv, OnePair, DevicesSound, WriterSound
  <1>7. DevicesSound' /\ WriterSound'
    BY <1>1, <1>2, <1>3, NoneIsNoPair, DevicesNamed DEF IInv, LocksHeld, OnePair, ThreadSound,
       DevicesSound, WriterSound, Starting, Alive
  <1> QED BY <1>4, <1>5, <1>6, <1>7 DEF IInv

LEMMA StartFailsKeeps == ASSUME IInv, StartFails PROVE IInv'
  <1>1. /\ life.pc \in {"make", "leader", "follower", "sample"}
        /\ UNCHANGED <<driver, lock, sampler, writer>>
    BY DEF StartFails, Owner
  <1>2. \/ UNCHANGED device
        \/ /\ life.pc = "follower" /\ driver.follower \in Pairs
           /\ device' = [device EXCEPT ![driver.follower].follower = "open",
                                       ![driver.follower].mode = "gravity"]
    BY DevicesNamed DEF StartFails, IInv, DevicesSound
  <1>3. /\ DeviceOK'
        /\ \A q \in Pairs : /\ device'[q].leader = device[q].leader
                            /\ device'[q].config = device[q].config
        /\ \A q \in Pairs : q # driver.follower \/ life.pc # "follower" => device'[q] = device[q]
    BY <1>2 DEF IInv, TypeOK, DeviceOK, Devices
  <1>4. LifeOK' /\ life'.pc = "undo"
    BY DEF StartFails, GoesOn, IInv, TypeOK, LifeOK
  <1>5. TypeOK'
    BY <1>1, <1>2, <1>3, <1>4, SameTypes DEF IInv, TypeOK
  <1>6. LocksHeld' /\ ThreadSound'
    BY <1>1, <1>2, <1>3, <1>4 DEF IInv, LocksHeld, ThreadSound, DevicesSound, WriterSound, Alive
  <1>7. OnePair'
    BY <1>1, <1>2, <1>3, <1>4, NoneIsNoPair, DevicesNamed DEF IInv, OnePair, DevicesSound,
       WriterSound
  <1>8. DevicesSound' /\ WriterSound'
    BY <1>1, <1>2, <1>3, <1>4, NoneIsNoPair, DevicesNamed DEF IInv, LocksHeld, OnePair,
       ThreadSound, DevicesSound, WriterSound, Starting, Alive
  <1> QED BY <1>5, <1>6, <1>7, <1>8 DEF IInv

LEMMA AcceptsKeeps == ASSUME IInv, Accepts PROVE IInv'
  <1>1. life.pc = "accept" /\ UNCHANGED <<device, lock, sampler, writer>>
    BY DEF Accepts, Owner
  <1>2. /\ DriverOK' /\ driver'.accepting /\ driver'.thread = "unstarted"
        /\ UNCHANGED <<driver.config, driver.stop, driver.leader, driver.follower,
                       driver.position>>
    BY DEF Accepts, IInv, TypeOK, DriverOK
  <1>3. LifeOK' /\ life'.pc = "thread"
    BY DEF Accepts, GoesOn, IInv, TypeOK, LifeOK
  <1>4. TypeOK'
    BY <1>1, <1>2, <1>3, SameTypes DEF IInv, TypeOK
  <1>5. LocksHeld' /\ ThreadSound'
    BY <1>1, <1>2, <1>3 DEF IInv, LocksHeld, ThreadSound, DevicesSound, WriterSound, Alive
  <1>6. OnePair'
    BY <1>1, <1>2, <1>3, NoneIsNoPair, DevicesNamed DEF IInv, OnePair, DevicesSound, WriterSound
  <1>7. DevicesSound' /\ WriterSound'
    BY <1>1, <1>2, <1>3, NoneIsNoPair, DevicesNamed DEF IInv, LocksHeld, OnePair, ThreadSound,
       DevicesSound, WriterSound, Starting, Alive
  <1> QED BY <1>4, <1>5, <1>6, <1>7 DEF IInv

LEMMA ThreadStartsKeeps ==
    ASSUME IInv, life.pc = "thread", driver' = [driver EXCEPT !.thread = "alive"],
           sampler' = [sampler EXCEPT !.pc = "top"], Ends, UNCHANGED <<device, lock, writer>>
    PROVE  IInv'
  <1>1. life.pc = "thread" /\ sampler.pc = "none" /\ UNCHANGED <<device, lock, writer>>
    BY DEF IInv, ThreadSound, Alive
  <1>2. /\ DriverOK' /\ driver'.thread = "alive"
        /\ UNCHANGED <<driver.config, driver.accepting, driver.stop, driver.leader, driver.follower,
                       driver.position>>
    BY DEF IInv, TypeOK, DriverOK
  <1>3. LifeOK' /\ life'.pc = "idle"
    BY DEF Ends, LifeOK
  <1>4. SamplerOK' /\ sampler'.pc = "top"
    BY DEF IInv, TypeOK, SamplerOK
  <1>5. TypeOK'
    BY <1>1, <1>2, <1>3, <1>4, SameTypes DEF IInv, TypeOK
  <1>6. LocksHeld' /\ ThreadSound'
    BY <1>1, <1>2, <1>3, <1>4 DEF IInv, LocksHeld, ThreadSound, DevicesSound, WriterSound, Alive
  <1>7. OnePair'
    BY <1>1, <1>2, <1>3, <1>4, NoneIsNoPair, DevicesNamed DEF IInv, OnePair, DevicesSound,
       WriterSound
  <1>8. DevicesSound' /\ WriterSound'
    BY <1>1, <1>2, <1>3, <1>4, NoneIsNoPair, DevicesNamed DEF IInv, LocksHeld, OnePair,
       ThreadSound, DevicesSound, WriterSound, Starting, Alive
  <1> QED BY <1>5, <1>6, <1>7, <1>8 DEF IInv

LEMMA NoThreadKeeps ==
    ASSUME IInv, life.pc = "thread", driver' = [driver EXCEPT !.accepting = FALSE, !.stop = TRUE],
           GoesOn("undo"), UNCHANGED sampler, UNCHANGED <<device, lock, writer>>
    PROVE  IInv'
  <1>1. life.pc = "thread" /\ UNCHANGED <<device, lock, sampler, writer>>
    OBVIOUS
  <1>2. /\ DriverOK' /\ ~driver'.accepting /\ driver'.stop
        /\ UNCHANGED <<driver.config, driver.leader, driver.follower, driver.position, driver.thread>>
    BY DEF IInv, TypeOK, DriverOK
  <1>3. LifeOK' /\ life'.pc = "undo"
    BY DEF GoesOn, IInv, TypeOK, LifeOK
  <1>4. TypeOK'
    BY <1>1, <1>2, <1>3, SameTypes DEF IInv, TypeOK
  <1>5. LocksHeld' /\ ThreadSound'
    BY <1>1, <1>2, <1>3 DEF IInv, LocksHeld, ThreadSound, DevicesSound, WriterSound, Alive
  <1>6. OnePair'
    BY <1>1, <1>2, <1>3, NoneIsNoPair, DevicesNamed DEF IInv, OnePair, DevicesSound, WriterSound
  <1>7. DevicesSound' /\ WriterSound'
    BY <1>1, <1>2, <1>3, NoneIsNoPair, DevicesNamed DEF IInv, LocksHeld, OnePair, ThreadSound,
       DevicesSound, WriterSound, Starting, Alive
  <1> QED BY <1>4, <1>5, <1>6, <1>7 DEF IInv

LEMMA StartsThreadKeeps == ASSUME IInv, StartsThread PROVE IInv'
  BY ThreadStartsKeeps, NoThreadKeeps DEF StartsThread

LEMMA StopsKeeps == ASSUME IInv, Stops PROVE IInv'
  <1>1. life.pc = "idle" /\ UNCHANGED <<device, lock, sampler, writer>>
    BY DEF Stops, Owner
  <1>2. /\ DriverOK' /\ ~driver'.accepting /\ driver'.stop
        /\ UNCHANGED <<driver.config, driver.leader, driver.follower, driver.position, driver.thread>>
    BY DEF Stops, IInv, TypeOK, DriverOK
  <1>3. LifeOK' /\ life'.pc = IF driver.thread = "alive" THEN "join" ELSE "undo"
    BY DEF Stops, Alive, IInv, TypeOK, LifeOK
  <1>4. TypeOK'
    BY <1>1, <1>2, <1>3, SameTypes DEF IInv, TypeOK
  <1>5. LocksHeld' /\ ThreadSound'
    BY <1>1, <1>2, <1>3 DEF IInv, LocksHeld, ThreadSound, DevicesSound, WriterSound, Alive
  <1>6. OnePair'
    BY <1>1, <1>2, <1>3, NoneIsNoPair, DevicesNamed DEF IInv, OnePair, DevicesSound, WriterSound
  <1>7. DevicesSound' /\ WriterSound'
    BY <1>1, <1>2, <1>3, NoneIsNoPair, DevicesNamed DEF IInv, LocksHeld, OnePair, ThreadSound,
       DevicesSound, WriterSound, Starting, Alive
  <1> QED BY <1>4, <1>5, <1>6, <1>7 DEF IInv

LEMMA JoinsKeeps == ASSUME IInv, Joins PROVE IInv'
  <1>1. /\ life.pc = "join" /\ driver.thread # "alive"
        /\ UNCHANGED <<driver, device, lock, sampler, writer>>
    BY DEF Joins, Owner, Alive
  <1>2. LifeOK' /\ life'.pc = "undo"
    BY DEF Joins, GoesOn, IInv, TypeOK, LifeOK
  <1>3. TypeOK'
    BY <1>1, <1>2, SameTypes DEF IInv, TypeOK
  <1>4. LocksHeld' /\ ThreadSound'
    BY <1>1, <1>2 DEF IInv, LocksHeld, ThreadSound, DevicesSound, WriterSound, Alive
  <1>5. OnePair'
    BY <1>1, <1>2, NoneIsNoPair, DevicesNamed DEF IInv, OnePair, DevicesSound, WriterSound
  <1>6. DevicesSound' /\ WriterSound'
    BY <1>1, <1>2, NoneIsNoPair, DevicesNamed DEF IInv, LocksHeld, OnePair, ThreadSound,
       DevicesSound, WriterSound, Starting, Alive
  <1> QED BY <1>3, <1>4, <1>5, <1>6 DEF IInv

LEMMA JoinTimesOutKeeps == ASSUME IInv, JoinTimesOut PROVE IInv'
  <1>1. life.pc = "join" /\ driver.thread = "alive" /\ UNCHANGED <<device, lock, sampler, writer>>
    BY DEF JoinTimesOut, Owner, Alive
  <1>2. /\ DriverOK' /\ UNCHANGED <<driver.config, driver.accepting, driver.stop, driver.leader,
                                     driver.follower, driver.position, driver.thread>>
    BY DEF JoinTimesOut, IInv, TypeOK, DriverOK, Statuses
  <1>3. LifeOK' /\ life'.pc = "idle"
    BY DEF JoinTimesOut, Ends, IInv, TypeOK, LifeOK
  <1>4. TypeOK'
    BY <1>1, <1>2, <1>3, SameTypes DEF IInv, TypeOK
  <1>5. LocksHeld' /\ ThreadSound'
    BY <1>1, <1>2, <1>3 DEF IInv, LocksHeld, ThreadSound, DevicesSound, WriterSound, Alive
  <1>6. OnePair'
    BY <1>1, <1>2, <1>3, NoneIsNoPair, DevicesNamed DEF IInv, OnePair, DevicesSound, WriterSound
  <1>7. DevicesSound' /\ WriterSound'
    BY <1>1, <1>2, <1>3, NoneIsNoPair, DevicesNamed DEF IInv, LocksHeld, OnePair, ThreadSound,
       DevicesSound, WriterSound, Starting, Alive
  <1> QED BY <1>4, <1>5, <1>6, <1>7 DEF IInv

(* Whoever closes both devices tries each, and no command has one.          *)
LEMMA ClosedBoth ==
    ASSUME IInv, NEW who \in {"life", "sampler"}, ClosesBoth(who)
    PROVE  /\ DriverOK' /\ driver'.leader = None /\ driver'.follower = None /\ ~driver'.position
           /\ UNCHANGED <<driver.config, driver.accepting, driver.stop, driver.thread>>
           /\ DeviceOK' /\ \A p \in Pairs : /\ device'[p].leader # "open"
                                            /\ device'[p].follower # "open"
           /\ LockOK' /\ lock.leader = who /\ lock'.leader = "free"
           /\ lock.follower = "free" /\ lock'.follower = "free"
  <1>1. /\ DriverOK' /\ driver'.leader = None /\ driver'.follower = None /\ ~driver'.position
        /\ UNCHANGED <<driver.config, driver.accepting, driver.stop, driver.thread>>
    BY DEF ClosesBoth, IInv, TypeOK, DriverOK
  <1>2. /\ LockOK' /\ lock.leader = who /\ lock'.leader = "free"
        /\ lock.follower = "free" /\ lock'.follower = "free"
    BY DEF ClosesBoth, IInv, TypeOK, LockOK
  <1>0. PICK half \in ShutLeader(driver.leader) : device' \in ShutFollower(half, driver.follower)
    BY DEF ClosesBoth
  <1>3. /\ half \in [Pairs -> Devices]
        /\ \A p \in Pairs : half[p].leader # "open" /\ half[p].follower = device[p].follower
    BY <1>0, NoneIsNoPair DEF ShutLeader, IInv, TypeOK, DriverOK, DeviceOK, Devices, OnePair
  <1>5. /\ DeviceOK' /\ \A p \in Pairs : /\ device'[p].leader # "open"
                                         /\ device'[p].follower # "open"
    BY <1>0, <1>3, NoneIsNoPair DEF ShutFollower, IInv, TypeOK, DriverOK, DeviceOK, Devices,
       OnePair
  <1> QED BY <1>1, <1>2, <1>5

LEMMA BeginsToCloseKeeps ==
    ASSUME IInv, life.pc = "undo", TakesLeaderLock("life"), GoesOn("close"), Owner
    PROVE  IInv'
  <1>1. life.pc = "undo" /\ lock.leader = "free" /\ UNCHANGED <<driver, device, sampler, writer>>
    BY DEF TakesLeaderLock, Owner
  <1>2. LockOK' /\ lock'.leader = "life" /\ lock'.follower = lock.follower
    BY DEF TakesLeaderLock, IInv, TypeOK, LockOK
  <1>3. LifeOK' /\ life'.pc = "close"
    BY DEF GoesOn, IInv, TypeOK, LifeOK
  <1>4. TypeOK'
    BY <1>1, <1>2, <1>3, SameTypes DEF IInv, TypeOK
  <1>5. LocksHeld' /\ ThreadSound'
    BY <1>1, <1>2, <1>3 DEF IInv, LocksHeld, ThreadSound, DevicesSound, WriterSound, Alive
  <1>6. OnePair'
    BY <1>1, <1>2, <1>3, NoneIsNoPair, DevicesNamed DEF IInv, OnePair, DevicesSound, WriterSound
  <1>7. DevicesSound' /\ WriterSound'
    BY <1>1, <1>2, <1>3, NoneIsNoPair, DevicesNamed DEF IInv, LocksHeld, OnePair, ThreadSound,
       DevicesSound, WriterSound, Starting, Alive
  <1> QED BY <1>4, <1>5, <1>6, <1>7 DEF IInv

LEMMA ClosesKeeps ==
    ASSUME IInv, life.pc = "close", ClosesBoth("life"), GoesOn("closed"), Owner
    PROVE  IInv'
  <1>1. life.pc = "close" /\ UNCHANGED <<sampler, writer>>
    BY DEF Owner
  <1>2. /\ DriverOK' /\ driver'.leader = None /\ driver'.follower = None /\ ~driver'.position
        /\ UNCHANGED <<driver.config, driver.accepting, driver.stop, driver.thread>>
        /\ DeviceOK' /\ \A p \in Pairs : device'[p].leader # "open" /\ device'[p].follower # "open"
        /\ LockOK' /\ lock.leader = "life" /\ lock'.leader = "free"
        /\ lock.follower = "free" /\ lock'.follower = "free"
    BY ClosedBoth
  <1>3. LifeOK' /\ life'.pc = "closed"
    BY DEF GoesOn, IInv, TypeOK, LifeOK
  <1>4. TypeOK'
    BY <1>1, <1>2, <1>3, SameTypes DEF IInv, TypeOK
  <1>5. LocksHeld' /\ ThreadSound'
    BY <1>1, <1>2, <1>3 DEF IInv, LocksHeld, ThreadSound, DevicesSound, WriterSound, Alive
  <1>6. OnePair'
    BY <1>1, <1>2, <1>3, NoneIsNoPair, DevicesNamed DEF IInv, OnePair, DevicesSound, WriterSound
  <1>7. DevicesSound' /\ WriterSound'
    BY <1>1, <1>2, <1>3, NoneIsNoPair, DevicesNamed DEF IInv, LocksHeld, OnePair, ThreadSound,
       DevicesSound, WriterSound, Starting, Alive
  <1> QED BY <1>4, <1>5, <1>6, <1>7 DEF IInv

LEMMA UndoesKeeps == ASSUME IInv, Undoes PROVE IInv'
  BY BeginsToCloseKeeps, ClosesKeeps DEF Undoes

LEMMA ConcludesKeeps == ASSUME IInv, Concludes PROVE IInv'
  <1>1. life.pc = "closed" /\ UNCHANGED <<device, lock, sampler, writer>>
    BY DEF Concludes, Owner
  <1>2. /\ DriverOK' /\ driver'.thread = "none"
        /\ UNCHANGED <<driver.accepting, driver.stop, driver.leader, driver.follower, driver.position>>
    BY DEF Concludes, IInv, TypeOK, DriverOK, Statuses
  <1>3. LifeOK' /\ life'.pc = "idle"
    BY DEF Concludes, Ends, IInv, TypeOK, LifeOK
  <1>4. TypeOK'
    BY <1>1, <1>2, <1>3, SameTypes DEF IInv, TypeOK
  <1>5. LocksHeld' /\ ThreadSound'
    BY <1>1, <1>2, <1>3 DEF IInv, LocksHeld, ThreadSound, DevicesSound, WriterSound, Alive
  <1>6. OnePair'
    BY <1>1, <1>2, <1>3, NoneIsNoPair, DevicesNamed DEF IInv, OnePair, DevicesSound, WriterSound
  <1>7. DevicesSound' /\ WriterSound'
    BY <1>1, <1>2, <1>3, NoneIsNoPair, DevicesNamed DEF IInv, LocksHeld, OnePair, ThreadSound,
       DevicesSound, WriterSound, Starting, Alive
  <1> QED BY <1>4, <1>5, <1>6, <1>7 DEF IInv

-----------------------------------------------------------------------------
(* Steps of the sampling thread *)

LEMMA TurnsKeeps == ASSUME IInv, Turns PROVE IInv'
  <1>1. sampler.pc = "top" /\ UNCHANGED <<driver, device, lock, life, writer>>
    BY DEF Turns, Sampler
  <1>2. \/ sampler' = [sampler EXCEPT !.pc = "finally"]
        \/ sampler' = [sampler EXCEPT !.pc = "fault"]
        \/ sampler' = [pc |-> "leader", leader |-> driver.leader, follower |-> driver.follower]
    BY DEF Turns, SamplerGoes
  <1>3. sampler' \in [pc : {"finally", "fault", "leader"}, leader : {None} \cup Pairs,
                    follower : {None} \cup Pairs]
    <2>1. driver.leader \in {None} \cup Pairs /\ driver.follower \in {None} \cup Pairs
      BY DevicesNamed DEF IInv
    <2>2. CASE sampler' = [pc |-> "leader", leader |-> driver.leader, follower |-> driver.follower]
      BY <2>1, <2>2
    <2>3. CASE sampler' = [sampler EXCEPT !.pc = "finally"]
      BY <2>3 DEF IInv, TypeOK, SamplerOK
    <2>4. CASE sampler' = [sampler EXCEPT !.pc = "fault"]
      BY <2>4 DEF IInv, TypeOK, SamplerOK
    <2> QED BY <1>2, <2>2, <2>3, <2>4
  <1>4. SamplerOK' /\ sampler'.pc \in {"finally", "fault", "leader"}
    BY <1>3 DEF SamplerOK
  <1>5. TypeOK'
    BY <1>1, <1>2, <1>3, <1>4, SameTypes DEF IInv, TypeOK
  <1>6. LocksHeld' /\ ThreadSound'
    BY <1>1, <1>2, <1>3, <1>4 DEF IInv, LocksHeld, ThreadSound, DevicesSound, WriterSound, Alive
  <1>7. OnePair'
    BY <1>1, <1>2, <1>3, <1>4, NoneIsNoPair, DevicesNamed DEF IInv, OnePair, DevicesSound,
       WriterSound
  <1>8. DevicesSound' /\ WriterSound'
    BY <1>1, <1>2, <1>3, <1>4, NoneIsNoPair, DevicesNamed DEF IInv, LocksHeld, OnePair,
       ThreadSound, DevicesSound, WriterSound, Starting, Alive
  <1> QED BY <1>5, <1>6, <1>7, <1>8 DEF IInv

LEMMA LocksKeeps ==
    ASSUME IInv, NEW side \in {"leader", "follower"}, NEW pc, Locks(side, pc),
           pc = IF side = "leader" THEN "leader read" ELSE "follower read"
    PROVE  IInv'
  <1>1. sampler.pc = side /\ lock[side] = "free" /\ UNCHANGED <<driver, device, life, writer>>
    BY DEF Locks, Sampler
  <1>2. /\ LockOK' /\ lock'[side] = "sampler"
        /\ side = "leader" => lock'.follower = lock.follower
        /\ side = "follower" => lock'.leader = lock.leader
    BY DEF Locks, IInv, TypeOK, LockOK
  <1>3. SamplerOK' /\ sampler'.pc = pc
    BY DEF Locks, SamplerGoes, IInv, TypeOK, SamplerOK
  <1>4. TypeOK'
    BY <1>1, <1>2, <1>3, SameTypes DEF IInv, TypeOK
  <1>5. LocksHeld' /\ ThreadSound'
    BY <1>1, <1>2, <1>3 DEF IInv, LocksHeld, ThreadSound, DevicesSound, WriterSound, Alive
  <1>6. OnePair'
    BY <1>1, <1>2, <1>3, NoneIsNoPair, DevicesNamed DEF IInv, OnePair, DevicesSound, WriterSound
  <1>7. DevicesSound' /\ WriterSound'
    BY <1>1, <1>2, <1>3, NoneIsNoPair, DevicesNamed DEF IInv, LocksHeld, OnePair, ThreadSound,
       DevicesSound, WriterSound, Starting, Alive
  <1> QED BY <1>4, <1>5, <1>6, <1>7 DEF IInv

LEMMA GetsKeeps ==
    ASSUME IInv, NEW side \in {"leader", "follower"}, NEW pc, NEW next \in {"follower", "store"},
           Gets(pc, side, next), pc = IF side = "leader" THEN "leader read" ELSE "follower read"
    PROVE  IInv'
  <1>1. sampler.pc = pc /\ UNCHANGED <<driver, device, life, writer>>
    BY DEF Gets, Sampler
  <1>2. /\ LockOK' /\ lock'[side] = "free"
        /\ side = "leader" => lock'.follower = lock.follower
        /\ side = "follower" => lock'.leader = lock.leader
    BY DEF Gets, IInv, TypeOK, LockOK
  <1>3. SamplerOK' /\ (sampler'.pc = "fault" \/ sampler'.pc = next)
    BY DEF Gets, SamplerGoes, IInv, TypeOK, SamplerOK
  <1>4. TypeOK'
    BY <1>1, <1>2, <1>3, SameTypes DEF IInv, TypeOK
  <1>5. LocksHeld' /\ ThreadSound'
    BY <1>1, <1>2, <1>3 DEF IInv, LocksHeld, ThreadSound, DevicesSound, WriterSound, Alive
  <1>6. OnePair'
    BY <1>1, <1>2, <1>3, NoneIsNoPair, DevicesNamed DEF IInv, OnePair, DevicesSound, WriterSound
  <1>7. DevicesSound' /\ WriterSound'
    BY <1>1, <1>2, <1>3, NoneIsNoPair, DevicesNamed DEF IInv, LocksHeld, OnePair, ThreadSound,
       DevicesSound, WriterSound, Starting, Alive
  <1> QED BY <1>4, <1>5, <1>6, <1>7 DEF IInv

LEMMA SamplesKeeps == ASSUME IInv, Samples PROVE IInv'
  <1>1. CASE Locks("leader", "leader read")
    BY <1>1, LocksKeeps
  <1>2. CASE Gets("leader read", "leader", "follower")
    BY <1>2, GetsKeeps
  <1>3. CASE Locks("follower", "follower read")
    BY <1>3, LocksKeeps
  <1>4. CASE Gets("follower read", "follower", "store")
    BY <1>4, GetsKeeps
  <1> QED BY <1>1, <1>2, <1>3, <1>4 DEF Samples

LEMMA StoresKeeps == ASSUME IInv, Stores PROVE IInv'
  <1>1. sampler.pc = "store" /\ UNCHANGED <<device, lock, life, writer>>
    BY DEF Stores, Sampler
  <1>2. /\ DriverOK' /\ UNCHANGED <<driver.config, driver.accepting, driver.stop, driver.leader,
                                     driver.follower, driver.position, driver.thread>>
    BY DEF Stores, IInv, TypeOK, DriverOK
  <1>3. SamplerOK' /\ sampler'.pc = "top"
    BY DEF Stores, SamplerGoes, IInv, TypeOK, SamplerOK
  <1>4. TypeOK'
    BY <1>1, <1>2, <1>3, SameTypes DEF IInv, TypeOK
  <1>5. LocksHeld' /\ ThreadSound'
    BY <1>1, <1>2, <1>3 DEF IInv, LocksHeld, ThreadSound, DevicesSound, WriterSound, Alive
  <1>6. OnePair'
    BY <1>1, <1>2, <1>3, NoneIsNoPair, DevicesNamed DEF IInv, OnePair, DevicesSound, WriterSound
  <1>7. DevicesSound' /\ WriterSound'
    BY <1>1, <1>2, <1>3, NoneIsNoPair, DevicesNamed DEF IInv, LocksHeld, OnePair, ThreadSound,
       DevicesSound, WriterSound, Starting, Alive
  <1> QED BY <1>4, <1>5, <1>6, <1>7 DEF IInv

LEMMA FaultsKeeps == ASSUME IInv, Faults PROVE IInv'
  <1>1. sampler.pc = "fault" /\ UNCHANGED <<device, lock, life, writer>>
    BY DEF Faults, Sampler
  <1>2. /\ DriverOK' /\ ~driver'.accepting /\ driver'.stop
        /\ UNCHANGED <<driver.config, driver.leader, driver.follower, driver.position, driver.thread>>
    BY DEF Faults, Latched, IInv, TypeOK, DriverOK, Statuses
  <1>3. SamplerOK' /\ sampler'.pc = "finally"
    BY DEF Faults, SamplerGoes, IInv, TypeOK, SamplerOK
  <1>4. TypeOK'
    BY <1>1, <1>2, <1>3, SameTypes DEF IInv, TypeOK
  <1>5. LocksHeld' /\ ThreadSound'
    BY <1>1, <1>2, <1>3 DEF IInv, LocksHeld, ThreadSound, DevicesSound, WriterSound, Alive
  <1>6. OnePair'
    BY <1>1, <1>2, <1>3, NoneIsNoPair, DevicesNamed DEF IInv, OnePair, DevicesSound, WriterSound
  <1>7. DevicesSound' /\ WriterSound'
    BY <1>1, <1>2, <1>3, NoneIsNoPair, DevicesNamed DEF IInv, LocksHeld, OnePair, ThreadSound,
       DevicesSound, WriterSound, Starting, Alive
  <1> QED BY <1>4, <1>5, <1>6, <1>7 DEF IInv

LEMMA SamplerBeginsKeeps ==
    ASSUME IInv, sampler.pc = "finally", driver.stop, TakesLeaderLock("sampler"),
           SamplerGoes("close"), Sampler
    PROVE  IInv'
  <1>1. /\ sampler.pc = "finally" /\ driver.stop /\ lock.leader = "free"
        /\ UNCHANGED <<driver, device, life, writer>>
    BY DEF TakesLeaderLock, Sampler
  <1>2. LockOK' /\ lock'.leader = "sampler" /\ lock'.follower = lock.follower
    BY DEF TakesLeaderLock, IInv, TypeOK, LockOK
  <1>3. SamplerOK' /\ sampler'.pc = "close"
    BY DEF SamplerGoes, IInv, TypeOK, SamplerOK
  <1>4. TypeOK'
    BY <1>1, <1>2, <1>3, SameTypes DEF IInv, TypeOK
  <1>5. LocksHeld' /\ ThreadSound'
    BY <1>1, <1>2, <1>3 DEF IInv, LocksHeld, ThreadSound, DevicesSound, WriterSound, Alive
  <1>6. OnePair'
    BY <1>1, <1>2, <1>3, NoneIsNoPair, DevicesNamed DEF IInv, OnePair, DevicesSound, WriterSound
  <1>7. DevicesSound' /\ WriterSound'
    BY <1>1, <1>2, <1>3, NoneIsNoPair, DevicesNamed DEF IInv, LocksHeld, OnePair, ThreadSound,
       DevicesSound, WriterSound, Starting, Alive
  <1> QED BY <1>4, <1>5, <1>6, <1>7 DEF IInv

LEMMA SamplerClosesKeeps ==
    ASSUME IInv, sampler.pc = "close", ClosesBoth("sampler"), SamplerGoes("end"), Sampler
    PROVE  IInv'
  <1>1. sampler.pc = "close" /\ UNCHANGED <<life, writer>>
    BY DEF Sampler
  <1>2. /\ DriverOK' /\ driver'.leader = None /\ driver'.follower = None /\ ~driver'.position
        /\ UNCHANGED <<driver.config, driver.accepting, driver.stop, driver.thread>>
        /\ DeviceOK' /\ \A p \in Pairs : device'[p].leader # "open" /\ device'[p].follower # "open"
        /\ LockOK' /\ lock.leader = "sampler" /\ lock'.leader = "free"
        /\ lock.follower = "free" /\ lock'.follower = "free"
    BY ClosedBoth
  <1>3. SamplerOK' /\ sampler'.pc = "end"
    BY DEF SamplerGoes, IInv, TypeOK, SamplerOK
  <1>4. TypeOK'
    BY <1>1, <1>2, <1>3, SameTypes DEF IInv, TypeOK
  <1>5. LocksHeld' /\ ThreadSound'
    BY <1>1, <1>2, <1>3 DEF IInv, LocksHeld, ThreadSound, DevicesSound, WriterSound, Alive
  <1>6. OnePair'
    BY <1>1, <1>2, <1>3, NoneIsNoPair, DevicesNamed DEF IInv, OnePair, DevicesSound, WriterSound
  <1>7. DevicesSound' /\ WriterSound'
    BY <1>1, <1>2, <1>3, NoneIsNoPair, DevicesNamed DEF IInv, LocksHeld, OnePair, ThreadSound,
       DevicesSound, WriterSound, Starting, Alive
  <1> QED BY <1>4, <1>5, <1>6, <1>7 DEF IInv

LEMMA SamplerEndsKeeps ==
    ASSUME IInv, sampler.pc = "end", SamplerGoes("none"), driver' = [driver EXCEPT !.thread = "dead"],
           UNCHANGED <<device, lock>>, Sampler
    PROVE  IInv'
  <1>1. sampler.pc = "end" /\ UNCHANGED <<device, lock, life, writer>>
    BY DEF Sampler
  <1>2. /\ DriverOK' /\ driver'.thread = "dead"
        /\ UNCHANGED <<driver.config, driver.accepting, driver.stop, driver.leader, driver.follower,
                       driver.position>>
    BY DEF IInv, TypeOK, DriverOK
  <1>3. SamplerOK' /\ sampler'.pc = "none"
    BY DEF SamplerGoes, IInv, TypeOK, SamplerOK
  <1>4. TypeOK'
    BY <1>1, <1>2, <1>3, SameTypes DEF IInv, TypeOK
  <1>5. LocksHeld' /\ ThreadSound'
    BY <1>1, <1>2, <1>3 DEF IInv, LocksHeld, ThreadSound, DevicesSound, WriterSound, Alive
  <1>6. OnePair'
    BY <1>1, <1>2, <1>3, NoneIsNoPair, DevicesNamed DEF IInv, OnePair, DevicesSound, WriterSound
  <1>7. DevicesSound' /\ WriterSound'
    BY <1>1, <1>2, <1>3, NoneIsNoPair, DevicesNamed DEF IInv, LocksHeld, OnePair, ThreadSound,
       DevicesSound, WriterSound, Starting, Alive
  <1> QED BY <1>4, <1>5, <1>6, <1>7 DEF IInv

LEMMA DiesKeeps == ASSUME IInv, Dies PROVE IInv'
  BY SamplerBeginsKeeps, SamplerClosesKeeps, SamplerEndsKeeps DEF Dies

-----------------------------------------------------------------------------
(* Steps of a command *)

LEMMA AsksKeeps == ASSUME IInv, Asks PROVE IInv'
  <1>1. writer.pc = "idle" /\ UNCHANGED <<driver, device, lock, life, sampler>>
    BY DEF Asks, Writer
  <1>2. WriterOK' /\ writer'.pc = "lock"
    BY DEF Asks, WriterGoes, IInv, TypeOK, WriterOK
  <1>3. TypeOK'
    BY <1>1, <1>2, SameTypes DEF IInv, TypeOK
  <1>4. LocksHeld' /\ ThreadSound'
    BY <1>1, <1>2 DEF IInv, LocksHeld, ThreadSound, DevicesSound, WriterSound, Alive
  <1>5. OnePair'
    BY <1>1, <1>2, NoneIsNoPair, DevicesNamed DEF IInv, OnePair, DevicesSound, WriterSound
  <1>6. DevicesSound' /\ WriterSound'
    BY <1>1, <1>2, NoneIsNoPair, DevicesNamed DEF IInv, LocksHeld, OnePair, ThreadSound,
       DevicesSound, WriterSound, Starting, Alive
  <1> QED BY <1>3, <1>4, <1>5, <1>6 DEF IInv

LEMMA TakesFollowerLockKeeps == ASSUME IInv, TakesFollowerLock PROVE IInv'
  <1>1. writer.pc = "lock" /\ lock.follower = "free" /\ UNCHANGED <<driver, device, life, sampler>>
    BY DEF TakesFollowerLock, Writer
  <1>2. LockOK' /\ lock'.follower = "writer" /\ lock'.leader = lock.leader
    BY DEF TakesFollowerLock, IInv, TypeOK, LockOK
  <1>3. WriterOK' /\ writer'.pc = "check"
    BY DEF TakesFollowerLock, WriterGoes, IInv, TypeOK, WriterOK
  <1>4. TypeOK'
    BY <1>1, <1>2, <1>3, SameTypes DEF IInv, TypeOK
  <1>5. LocksHeld' /\ ThreadSound'
    BY <1>1, <1>2, <1>3 DEF IInv, LocksHeld, ThreadSound, DevicesSound, WriterSound, Alive
  <1>6. OnePair'
    BY <1>1, <1>2, <1>3, NoneIsNoPair, DevicesNamed DEF IInv, OnePair, DevicesSound, WriterSound
  <1>7. DevicesSound' /\ WriterSound'
    BY <1>1, <1>2, <1>3, NoneIsNoPair, DevicesNamed DEF IInv, LocksHeld, OnePair, ThreadSound,
       DevicesSound, WriterSound, Starting, Alive
  <1> QED BY <1>4, <1>5, <1>6, <1>7 DEF IInv

LEMMA RefusesKeeps ==
    ASSUME IInv, writer.pc = "check", Leaves, UNCHANGED <<driver, device>>, Writer
    PROVE  IInv'
  <1>1. writer.pc = "check" /\ UNCHANGED <<driver, device, life, sampler>>
    BY DEF Writer
  <1>2. LockOK' /\ lock'.follower = "free" /\ lock'.leader = lock.leader
    BY DEF Leaves, IInv, TypeOK, LockOK
  <1>3. WriterOK' /\ writer'.pc = "idle"
    BY DEF Leaves, WriterOK
  <1>4. TypeOK'
    BY <1>1, <1>2, <1>3, SameTypes DEF IInv, TypeOK
  <1>5. LocksHeld' /\ ThreadSound'
    BY <1>1, <1>2, <1>3 DEF IInv, LocksHeld, ThreadSound, DevicesSound, WriterSound, Alive
  <1>6. OnePair'
    BY <1>1, <1>2, <1>3, NoneIsNoPair, DevicesNamed DEF IInv, OnePair, DevicesSound, WriterSound
  <1>7. DevicesSound' /\ WriterSound'
    BY <1>1, <1>2, <1>3, NoneIsNoPair, DevicesNamed DEF IInv, LocksHeld, OnePair, ThreadSound,
       DevicesSound, WriterSound, Starting, Alive
  <1> QED BY <1>4, <1>5, <1>6, <1>7 DEF IInv

LEMMA TooOldKeeps ==
    ASSUME IInv, writer.pc = "check", Commandable, driver' = Latched(driver), WriterGoes("shut"),
           UNCHANGED <<device, lock>>, Writer
    PROVE  IInv'
  <1>1. /\ writer.pc = "check" /\ driver.accepting
        /\ UNCHANGED <<device, lock, life, sampler>>
    BY DEF Writer, Commandable
  <1>2. /\ DriverOK' /\ ~driver'.accepting /\ driver'.stop
        /\ UNCHANGED <<driver.config, driver.leader, driver.follower, driver.position, driver.thread>>
    BY DEF Latched, IInv, TypeOK, DriverOK, Statuses
  <1>3. WriterOK' /\ writer'.pc = "shut"
    BY DEF WriterGoes, IInv, TypeOK, WriterOK
  <1>4. TypeOK'
    BY <1>1, <1>2, <1>3, SameTypes DEF IInv, TypeOK
  <1>5. LocksHeld' /\ ThreadSound'
    BY <1>1, <1>2, <1>3 DEF IInv, LocksHeld, ThreadSound, DevicesSound, WriterSound, Alive
  <1>6. OnePair'
    BY <1>1, <1>2, <1>3, NoneIsNoPair, DevicesNamed DEF IInv, OnePair, DevicesSound, WriterSound
  <1>7. DevicesSound' /\ WriterSound'
    BY <1>1, <1>2, <1>3, NoneIsNoPair, DevicesNamed DEF IInv, LocksHeld, OnePair, ThreadSound,
       DevicesSound, WriterSound, Starting, Alive
  <1> QED BY <1>4, <1>5, <1>6, <1>7 DEF IInv

LEMMA AgreesKeeps ==
    ASSUME IInv, writer.pc = "check", Commandable, driver.follower # None,
           writer' = [pc |-> IF driver.position THEN "command" ELSE "mode",
                      follower |-> driver.follower],
           UNCHANGED <<driver, device, lock>>, Writer
    PROVE  IInv'
  <1>1. /\ writer.pc = "check" /\ driver.accepting /\ driver.follower # None
        /\ UNCHANGED <<driver, device, lock, life, sampler>>
    BY DEF Writer, Commandable
  <1>2. /\ WriterOK' /\ writer'.pc = (IF driver.position THEN "command" ELSE "mode")
        /\ writer'.follower = driver.follower
    BY DevicesNamed DEF IInv, WriterOK
  <1>3. TypeOK'
    BY <1>1, <1>2, SameTypes DEF IInv, TypeOK
  <1>4. LocksHeld' /\ ThreadSound'
    BY <1>1, <1>2 DEF IInv, LocksHeld, ThreadSound, DevicesSound, WriterSound, Alive
  <1>5. OnePair'
    BY <1>1, <1>2, NoneIsNoPair, DevicesNamed DEF IInv, OnePair, DevicesSound, WriterSound
  <1>6. DevicesSound' /\ WriterSound'
    BY <1>1, <1>2, NoneIsNoPair, DevicesNamed DEF IInv, LocksHeld, OnePair, ThreadSound,
       DevicesSound, WriterSound, Starting, Alive
  <1> QED BY <1>3, <1>4, <1>5, <1>6 DEF IInv

LEMMA ChecksKeeps == ASSUME IInv, Checks PROVE IInv'
  BY RefusesKeeps, TooOldKeeps, AgreesKeeps DEF Checks

LEMMA SetsModeKeeps == ASSUME IInv, SetsMode PROVE IInv'
  <1>1. /\ writer.pc = "mode" /\ UNCHANGED <<lock, life, sampler>>
        /\ writer.follower \in Pairs /\ writer.follower = driver.follower
    BY DevicesNamed DEF SetsMode, Writer, IInv, WriterSound
  <1>2. /\ DriverOK' /\ driver'.position
        /\ UNCHANGED <<driver.config, driver.accepting, driver.stop, driver.leader, driver.follower,
                       driver.thread>>
    BY DEF SetsMode, IInv, TypeOK, DriverOK
  <1>3. /\ DeviceOK' /\ device'[writer.follower].mode = "position"
        /\ \A q \in Pairs : /\ device'[q].leader = device[q].leader /\ device'[q].follower = device[q].follower
                            /\ device'[q].config = device[q].config
    BY <1>1 DEF SetsMode, IInv, TypeOK, DeviceOK, Devices, WriterOK, WriterSound
  <1>4. WriterOK' /\ writer'.pc = "command" /\ writer'.follower = writer.follower
    BY DEF SetsMode, WriterGoes, IInv, TypeOK, WriterOK
  <1>5. TypeOK'
    BY <1>1, <1>2, <1>3, <1>4, SameTypes DEF IInv, TypeOK
  <1>6. LocksHeld' /\ ThreadSound'
    BY <1>1, <1>2, <1>3, <1>4 DEF IInv, LocksHeld, ThreadSound, DevicesSound, WriterSound, Alive
  <1>7. OnePair'
    BY <1>1, <1>2, <1>3, <1>4, NoneIsNoPair, DevicesNamed DEF IInv, OnePair, DevicesSound,
       WriterSound
  <1>8. DevicesSound'
    BY <1>1, <1>2, <1>3, <1>4, NoneIsNoPair, DevicesNamed DEF IInv, LocksHeld, OnePair,
       ThreadSound, DevicesSound, WriterSound, Starting, Alive
  <1>9. WriterSound'
    BY <1>1, <1>2, <1>3, <1>4, NoneIsNoPair, DevicesNamed DEF IInv, LocksHeld, OnePair,
       ThreadSound, DevicesSound, WriterSound, Starting, Alive
  <1> QED BY <1>5, <1>6, <1>7, <1>8, <1>9 DEF IInv

LEMMA CommandsKeeps == ASSUME IInv, Commands PROVE IInv'
  <1>1. writer.pc = "command" /\ UNCHANGED <<driver, device, life, sampler>>
    BY DEF Commands, Writer
  <1>2. LockOK' /\ lock'.follower = "free" /\ lock'.leader = lock.leader
    BY DEF Commands, Leaves, IInv, TypeOK, LockOK
  <1>3. WriterOK' /\ writer'.pc = "idle"
    BY DEF Commands, Leaves, WriterOK
  <1>4. TypeOK'
    BY <1>1, <1>2, <1>3, SameTypes DEF IInv, TypeOK
  <1>5. LocksHeld' /\ ThreadSound'
    BY <1>1, <1>2, <1>3 DEF IInv, LocksHeld, ThreadSound, DevicesSound, WriterSound, Alive
  <1>6. OnePair'
    BY <1>1, <1>2, <1>3, NoneIsNoPair, DevicesNamed DEF IInv, OnePair, DevicesSound, WriterSound
  <1>7. DevicesSound' /\ WriterSound'
    BY <1>1, <1>2, <1>3, NoneIsNoPair, DevicesNamed DEF IInv, LocksHeld, OnePair, ThreadSound,
       DevicesSound, WriterSound, Starting, Alive
  <1> QED BY <1>4, <1>5, <1>6, <1>7 DEF IInv

LEMMA CommandFailsKeeps == ASSUME IInv, CommandFails PROVE IInv'
  <1>1. writer.pc \in {"mode", "command"} /\ UNCHANGED <<device, lock, life, sampler>>
    BY DEF CommandFails, Writer
  <1>2. /\ DriverOK' /\ ~driver'.accepting /\ driver'.stop
        /\ UNCHANGED <<driver.config, driver.leader, driver.follower, driver.position, driver.thread>>
    BY DEF CommandFails, Latched, IInv, TypeOK, DriverOK, Statuses
  <1>3. WriterOK' /\ writer'.pc = "shut"
    BY DEF CommandFails, WriterGoes, IInv, TypeOK, WriterOK
  <1>4. TypeOK'
    BY <1>1, <1>2, <1>3, SameTypes DEF IInv, TypeOK
  <1>5. LocksHeld' /\ ThreadSound'
    BY <1>1, <1>2, <1>3 DEF IInv, LocksHeld, ThreadSound, DevicesSound, WriterSound, Alive
  <1>6. OnePair'
    BY <1>1, <1>2, <1>3, NoneIsNoPair, DevicesNamed DEF IInv, OnePair, DevicesSound, WriterSound
  <1>7. DevicesSound' /\ WriterSound'
    BY <1>1, <1>2, <1>3, NoneIsNoPair, DevicesNamed DEF IInv, LocksHeld, OnePair, ThreadSound,
       DevicesSound, WriterSound, Starting, Alive
  <1> QED BY <1>4, <1>5, <1>6, <1>7 DEF IInv

LEMMA ShutsFollowerKeeps == ASSUME IInv, ShutsFollower PROVE IInv'
  <1>1. writer.pc = "shut" /\ UNCHANGED <<life, sampler>>
    BY DEF ShutsFollower, Writer
  <1>2. /\ DriverOK' /\ driver'.follower = None /\ ~driver'.position
        /\ UNCHANGED <<driver.config, driver.accepting, driver.stop, driver.leader, driver.thread>>
    BY DEF ShutsFollower, IInv, TypeOK, DriverOK
  <1>3. /\ DeviceOK' /\ \A q \in Pairs : device'[q].follower # "open"
        /\ \A q \in Pairs : /\ device'[q].leader = device[q].leader
                            /\ device'[q].config = device[q].config
    BY NoneIsNoPair DEF ShutsFollower, ShutFollower, IInv, TypeOK, DriverOK, DeviceOK, Devices,
       OnePair
  <1>4. LockOK' /\ lock'.follower = "free" /\ lock'.leader = lock.leader
    BY DEF ShutsFollower, Leaves, IInv, TypeOK, LockOK
  <1>5. WriterOK' /\ writer'.pc = "idle"
    BY DEF ShutsFollower, Leaves, WriterOK
  <1>6. TypeOK'
    BY <1>1, <1>2, <1>3, <1>4, <1>5, SameTypes DEF IInv, TypeOK
  <1>7. LocksHeld' /\ ThreadSound'
    BY <1>1, <1>2, <1>3, <1>4, <1>5 DEF IInv, LocksHeld, ThreadSound, DevicesSound, WriterSound,
       Alive
  <1>8. OnePair'
    BY <1>1, <1>2, <1>3, <1>4, <1>5, NoneIsNoPair, DevicesNamed DEF IInv, OnePair, DevicesSound,
       WriterSound
  <1>9. DevicesSound' /\ WriterSound'
    BY <1>1, <1>2, <1>3, <1>4, <1>5, NoneIsNoPair, DevicesNamed DEF IInv, LocksHeld, OnePair,
       ThreadSound, DevicesSound, WriterSound, Starting, Alive
  <1> QED BY <1>6, <1>7, <1>8, <1>9 DEF IInv

-----------------------------------------------------------------------------
(* The invariant *)

LEMMA InitIInv == Init => IInv
  <1> SUFFICES ASSUME Init PROVE IInv
    OBVIOUS
  <1>1. PICK config \in Configs, status \in Statuses :
          driver = [config |-> config, status |-> status, accepting |-> FALSE, stop |-> FALSE,
                    leader |-> None, follower |-> None, position |-> FALSE,
                    connected |-> FALSE, thread |-> "none"]
    BY DEF Init
  <1>2. \A p \in Pairs : device[p] = [leader |-> "none", follower |-> "none", mode |-> "none",
                                    config |-> config]
    BY <1>1 DEF Init
  <1>3. TypeOK
    <2>1. DriverOK
      BY <1>1 DEF DriverOK
    <2>2. DeviceOK
      BY <1>1 DEF Init, DeviceOK, Devices
    <2>3. LockOK /\ LifeOK /\ SamplerOK /\ WriterOK
      BY DEF Init, LockOK, LifeOK, SamplerOK, WriterOK
    <2> QED BY <2>1, <2>2, <2>3 DEF TypeOK
  <1>4. LocksHeld /\ WriterSound
    BY DEF Init, LocksHeld, WriterSound
  <1>5. OnePair
    BY <1>1, <1>2 DEF OnePair
  <1>6. ThreadSound
    BY <1>1 DEF Init, ThreadSound, Alive
  <1>7. DevicesSound
    BY <1>1 DEF Init, DevicesSound, Starting, Alive
  <1> QED BY <1>3, <1>4, <1>5, <1>6, <1>7 DEF IInv

LEMMA StepIInv == IInv /\ [Next]_vars => IInv'
  <1> SUFFICES ASSUME IInv, [Next]_vars PROVE IInv'
    OBVIOUS
  <1>1. CASE StartsUp
    BY <1>1, StartsUpKeeps
  <1>2. CASE Stops
    BY <1>2, StopsKeeps
  <1>3. CASE Lifecycle
    BY <1>3, MakesKeeps, ConnectsLeaderKeeps, ConnectsFollowerKeeps, SamplesFirstKeeps,
       StartFailsKeeps, AcceptsKeeps, StartsThreadKeeps, JoinsKeeps, JoinTimesOutKeeps,
       UndoesKeeps, ConcludesKeeps DEF Lifecycle
  <1>4. CASE Sampling
    BY <1>4, TurnsKeeps, SamplesKeeps, StoresKeeps, FaultsKeeps, DiesKeeps DEF Sampling
  <1>5. CASE Asks
    BY <1>5, AsksKeeps
  <1>6. CASE Writing
    BY <1>6, TakesFollowerLockKeeps, ChecksKeeps, SetsModeKeeps, CommandsKeeps,
       CommandFailsKeeps, ShutsFollowerKeeps DEF Writing
  <1>7. CASE UNCHANGED vars
    <2>1. TypeOK'
      BY <1>7, SameTypes DEF vars, IInv, TypeOK
    <2>2. LocksHeld' /\ OnePair' /\ ThreadSound'
      BY <1>7 DEF vars, IInv, LocksHeld, OnePair, ThreadSound, Alive
    <2>3. DevicesSound' /\ WriterSound'
      BY <1>7 DEF vars, IInv, DevicesSound, WriterSound, Starting, Alive
    <2> QED BY <2>1, <2>2, <2>3 DEF IInv
  <1> QED BY <1>1, <1>2, <1>3, <1>4, <1>5, <1>6, <1>7 DEF Next

(* What the threads and the lifecycle may rely on at each of their places, *)
(* whatever the configurations and however often the pair is made anew.    *)
THEOREM Inductive == Spec => []IInv
  BY InitIInv, StepIInv, PTL DEF Spec

(* A command that is past its checks (_write) has an open follower of the  *)
(* configuration in force, in position mode, until it is done.             *)
THEOREM CommandsReachOpenArms == Spec => []CommandReachesOpenArm
  <1>1. IInv => CommandReachesOpenArm
    BY DevicesNamed, NoneIsNoPair DEF IInv, OnePair, WriterSound, CommandReachesOpenArm
  <1> QED BY <1>1, Inductive, PTL

(* Whichever thread goes first, a device that was opened and whose close   *)
(* has not been tried is still the driver's, of its configuration, and no  *)
(* other pair's is opened beside it.                                       *)
THEOREM NothingForgotten == Spec => []NoneForgotten
  <1>1. IInv => NoneForgotten
    BY NoneIsNoPair DEF IInv, OnePair, NoneForgotten, Open
  <1> QED BY <1>1, Inductive, PTL

(* Nobody closes a follower between the checks of a command and its end:   *)
(* not the sampling thread, not shutdown, not a reconfiguration, since     *)
(* each waits for the follower's I/O lock.                                 *)
THEOREM NotClosedUnderACommand ==
    Spec => [][writer.pc \in {"mode", "command"} =>
                    device'[writer.follower].follower = "open"]_vars
  <1> DEFINE Stays == writer.pc \in {"mode", "command"} => device'[writer.follower].follower = "open"
  <1>1. ASSUME IInv, Next, IInv' PROVE Stays
    <2> SUFFICES ASSUME writer.pc \in {"mode", "command"}
                 PROVE  device'[writer.follower].follower = "open"
      OBVIOUS
    <2>1. device[writer.follower].follower = "open"
      BY <1>1 DEF IInv, WriterSound
    <2>2. CASE UNCHANGED writer
      BY <1>1, <2>2 DEF IInv, WriterSound
    <2>3. CASE StartsUp \/ Stops \/ Lifecycle
      BY <2>2, <2>3 DEF StartsUp, Stops, Lifecycle, Makes, ConnectsLeader, ConnectsFollower,
         SamplesFirst, StartFails, Accepts, StartsThread, Joins, JoinTimesOut, Undoes, Concludes,
         Owner
    <2>4. CASE Sampling
      BY <2>2, <2>4 DEF Sampling, Turns, Samples, Locks, Gets, Stores, Faults, Dies, Sampler
    <2>5. CASE Asks \/ TakesFollowerLock \/ Checks \/ ShutsFollower
      BY <2>5 DEF Asks, TakesFollowerLock, Checks, ShutsFollower
    <2>6. CASE SetsMode
      <3>1. writer'.pc = "command" /\ writer'.follower = writer.follower
        BY <1>1, <2>6 DEF SetsMode, WriterGoes, IInv, TypeOK, WriterOK
      <3> QED BY <1>1, <3>1 DEF IInv, WriterSound
    <2>7. CASE Commands \/ CommandFails
      BY <2>1, <2>7 DEF Commands, CommandFails
    <2> QED BY <1>1, <2>3, <2>4, <2>5, <2>6, <2>7 DEF Next, Writing
  <1> HIDE DEF Stays
  <1>2. IInv /\ IInv' /\ [Next]_vars => [Stays]_vars
    BY <1>1
  <1>3. Spec => [][Stays]_vars
    BY <1>2, Inductive, PTL DEF Spec
  <1> QED BY <1>3 DEF Stays

(* _replace_config: the configuration changes only while no sampling       *)
(* thread is alive and the close of every device of the old one was tried. *)
THEOREM ReplacedOnlyWhenClosed ==
    Spec => [][driver'.config # driver.config =>
                    ~Alive /\ \A p \in Pairs : ~Open(p)]_vars
  <1> DEFINE Replaced == driver'.config # driver.config => ~Alive /\ \A p \in Pairs : ~Open(p)
  <1>1. ASSUME IInv, Next PROVE Replaced
    <2>0. driver \in [config : Configs, status : Statuses \cup {"connected"}, accepting : BOOLEAN,
                   stop : BOOLEAN, leader : {None} \cup Pairs, follower : {None} \cup Pairs,
                   position : BOOLEAN, connected : BOOLEAN,
                   thread : {"none", "unstarted", "alive", "dead"}]
      BY <1>1 DEF IInv, TypeOK, DriverOK
    <2>1. CASE Concludes
      <3>1. ~Alive /\ driver.leader = None /\ driver.follower = None
        BY <1>1, <2>1 DEF Concludes, IInv, ThreadSound, DevicesSound, OnePair
      <3> QED BY <1>1, <3>1, NoneIsNoPair DEF IInv, OnePair, Open
    <2>2. CASE Makes
      <3>1. PICK p \in Pairs : driver' = [driver EXCEPT !.leader = p, !.follower = p]
        BY <1>1, <2>2, MakesPair
      <3> QED BY <2>0, <3>1
    <2>3. CASE StartsUp \/ Stops \/ SamplesFirst \/ Accepts \/ StartsThread \/ JoinTimesOut
      BY <2>0, <2>3 DEF StartsUp, Stops, SamplesFirst, Accepts, StartsThread, JoinTimesOut
    <2>4. CASE ConnectsLeader \/ ConnectsFollower \/ StartFails \/ Joins
      BY <2>4 DEF ConnectsLeader, ConnectsFollower, StartFails, Joins
    <2>5. CASE Undoes
      BY <2>0, <2>5 DEF Undoes, TakesLeaderLock, ClosesBoth
    <2>6. CASE Sampling
      BY <2>0, <2>6 DEF Sampling, Turns, Samples, Locks, Gets, Stores, Faults, Latched, Dies,
         TakesLeaderLock, ClosesBoth
    <2>7. CASE Asks \/ Writing
      BY <2>0, <2>7 DEF Asks, Writing, TakesFollowerLock, Checks, Latched, SetsMode, Commands,
         CommandFails, ShutsFollower
    <2> QED BY <1>1, <2>1, <2>2, <2>3, <2>4, <2>5, <2>6, <2>7 DEF Next, Lifecycle
  <1> HIDE DEF Replaced
  <1>2. IInv /\ [Next]_vars => [Replaced]_vars
    BY <1>1
  <1>3. Spec => [][Replaced]_vars
    BY <1>2, Inductive, PTL DEF Spec
  <1> QED BY <1>3 DEF Replaced
-----------------------------------------------------------------------------
(* The setup of the rig (YamSetup), for any pairs and cells, of which the pair above is *)
(* one: what a failed operation leaves, and what is connected without being asked.      *)

Parts == UNION {ArmsOf[c] : c \in Setups}
Rigs == [config : Setups \cup {NoSetup}, live : SUBSET Parts, stuck : SUBSET Parts,
            passive : Passive]
Rows(C) == [config : C \cup {NoSetup}, auto : BOOLEAN]
Managers == [error : BOOLEAN, failed : BOOLEAN, pending : BOOLEAN]
Records == [cell : Rows(CellConfigs \cup {Corrupt}), legacy : Rows(LegacyConfigs)]
Outcomes == [ok : BOOLEAN, driver : Rigs]

SetupTypeOK ==
    /\ store \in Records
    /\ rig \in Rigs
    /\ manager \in Managers
    /\ request \in Setups \cup {NoSetup}

\* What is live is of the driver's configuration, and without one the environment has none.
Placed(d) == d.live \subseteq Arms(d) /\ (d.config = NoSetup => Env = NoSetup)

\* A failed attempt is remembered by the manager of a process that runs.
Remembered == tried => Up /\ manager.failed

SetupInv == SetupTypeOK /\ (Up => Placed(rig)) /\ Remembered

-----------------------------------------------------------------------------
\* The configurations of pairs and cells, and what stands for none.
LEMMA ConfigsFacts ==
    /\ NoSetup \notin Setups /\ Corrupt \notin Setups /\ NoSetup # Corrupt
    /\ LegacyConfigs \subseteq Setups /\ CellConfigs \subseteq Setups
    /\ LegacyConfigs \cap CellConfigs = {}
        /\ Setups = LegacyConfigs \cup CellConfigs
    /\ Env \in Setups \cup {NoSetup} /\ ~IsCell(Env)
BY ConfigsAssumption DEF Setups, IsCell

\* A driver's arms are arms of a configuration.
LEMMA ArmsInParts ==
    \A c \in Setups : ArmsOf[c] \subseteq Parts
BY DEF Parts

LEMMA ArmsOfDriver ==
    \A d \in Rigs : Arms(d) \subseteq Parts
BY ConfigsFacts, ArmsInParts DEF Rigs, Arms

\* The driver's operations: what is live and configured after each, whether it raises or not.
LEMMA Disconnected ==
    ASSUME NEW d \in Rigs, NEW S \in SUBSET Parts,
           NEW o \in Disconnect(d, S)
    PROVE  /\ o \in Outcomes /\ o.driver.config = d.config
           /\ o.driver.live = d.live \ S
           /\ ~o.ok => o.driver.stuck # {}
<1>1. PICK T \in SUBSET (S \cap (d.live \cup d.stuck)) :
         LET e == [d EXCEPT !.live = @ \ S, !.stuck = (@ \ S) \cup T] IN
         o = IF T = {} THEN Ok(e) ELSE Raises(e)
  BY DEF Disconnect
<1> DEFINE e == [d EXCEPT !.live = @ \ S, !.stuck = (@ \ S) \cup T]
<1>2. e \in Rigs /\ e.config = d.config /\ e.live = d.live \ S /\ T \subseteq e.stuck
  BY DEF Rigs
<1>3. o = [ok |-> T = {}, driver |-> e]
  BY <1>1 DEF Ok, Raises
<1> QED BY <1>2, <1>3 DEF Outcomes

LEMMA ShutDown ==
    ASSUME NEW d \in Rigs, NEW o \in Shutdown(d)
    PROVE  /\ o \in Outcomes /\ o.driver.config = d.config
           /\ o.driver.live = d.live \ Arms(d)
           /\ ~o.ok => o.driver.stuck # {} /\ IsCell(d.config)
<1>1. CASE IsCell(d.config)
  BY <1>1, Disconnected, ArmsOfDriver DEF Shutdown
<1>2. CASE ~IsCell(d.config)
  <2>1. PICK u \in Disconnect(d, Arms(d)) : o = Ok(u.driver)
    BY <1>2 DEF Shutdown
  <2> QED BY <2>1, Disconnected, ArmsOfDriver DEF Ok, Outcomes
<1> QED BY <1>1, <1>2

LEMMA Applied ==
    ASSUME NEW d \in Rigs, NEW c \in Setups,
           NEW o \in Apply(d, c)
    PROVE  /\ o \in Outcomes /\ o.driver.config \in {d.config, c}
           /\ o.driver.live \subseteq d.live
           /\ o.ok => o.driver.config = c
           /\ Placed(d) => Placed(o.driver)
<1>1. CASE IsCell(d.config) /\ d.live \cup d.stuck # {}
  <2>1. o = Raises(d)
    BY <1>1 DEF Apply
  <2> QED BY <2>1 DEF Raises, Outcomes
<1>2. CASE d.config = c /\ IsCell(c) /\ o = Ok(d)
  BY <1>2 DEF Ok, Outcomes, Placed, Arms
<1>3. CASE \E u \in Shutdown(d) :
              \/ o = Raises(u.driver)
              \/ \E p \in Passive : o = Ok(Driver(c, p))
  <2>1. PICK u \in Shutdown(d) :
              \/ o = Raises(u.driver)
              \/ \E p \in Passive : o = Ok(Driver(c, p))
    BY <1>3
  <2>2. /\ u \in Outcomes /\ u.driver.config = d.config
        /\ u.driver.live = d.live \ Arms(d)
    BY ShutDown
  <2>3. CASE o = Raises(u.driver)
    BY <2>2, <2>3 DEF Raises, Outcomes, Placed, Arms
  <2>4. ASSUME NEW p \in Passive, o = Ok(Driver(c, p))
        PROVE  /\ o.driver \in Rigs /\ o.driver.config = c /\ o.ok = TRUE
               /\ o.driver.live = {} /\ o \in Outcomes
    BY <2>4 DEF Ok, Driver, Rigs, Outcomes
  <2> QED BY <2>1, <2>3, <2>4, ConfigsFacts DEF Placed
<1>4. \/ IsCell(d.config) /\ d.live \cup d.stuck # {}
      \/ d.config = c /\ IsCell(c) /\ o = Ok(d)
      \/ \E u \in Shutdown(d) :
              \/ o = Raises(u.driver)
              \/ \E p \in Passive : o = Ok(Driver(c, p))
  BY DEF Apply
<1> QED BY <1>1, <1>2, <1>3, <1>4

LEMMA WasReset ==
    ASSUME NEW d \in Rigs, NEW o \in ResetDriver(d)
    PROVE  /\ o \in Outcomes /\ o.driver.live \subseteq d.live
           /\ o.ok => o.driver.config = Env
           /\ ~o.ok => o.driver.config = d.config
           /\ Placed(d) => Placed(o.driver)
<1>1. PICK u \in Disconnect(d, Arms(d)) :
          o = IF u.ok THEN Ok(Driver(Env, "configured")) ELSE u
  BY DEF ResetDriver
<1>2. /\ u \in Outcomes /\ u.driver.config = d.config
      /\ u.driver.live = d.live \ Arms(d)
  BY Disconnected, ArmsOfDriver
<1>3. CASE u.ok
  BY <1>1, <1>3, ConfigsFacts DEF Ok, Driver, Rigs, Outcomes, Placed, Passive
<1>4. CASE ~u.ok
  BY <1>1, <1>2, <1>4 DEF Placed, Arms
<1> QED BY <1>3, <1>4

LEMMA Opened ==
    ASSUME NEW d \in Rigs, NEW S \in SUBSET Parts,
           NEW o \in Connect(d, S)
    PROVE  /\ o \in Outcomes /\ o.driver.config = d.config
           /\ o.driver.live = IF o.ok THEN d.live \cup S ELSE d.live
<1>1. CASE o = Raises(d)
  BY <1>1 DEF Raises, Outcomes
<1>2. CASE o = Ok([d EXCEPT !.live = @ \cup S])
  BY <1>2 DEF Ok, Outcomes, Rigs
<1>3. CASE \E T \in SUBSET (S \ d.live) : o = Raises([d EXCEPT !.stuck = @ \cup T])
  BY <1>3 DEF Raises, Outcomes, Rigs
<1> QED BY <1>1, <1>2, <1>3 DEF Connect

LEMMA Started ==
    ASSUME NEW d \in Rigs, Placed(d), NEW o \in Startup(d)
    PROVE  /\ o \in Outcomes /\ o.driver.config = d.config /\ Placed(o.driver)
           /\ o.driver.live \in {d.live, Arms(d)}
<1>1. CASE o = Ok(d)
  BY <1>1 DEF Ok, Outcomes
<1>2. CASE d.config # NoSetup /\ IsCell(d.config) /\ o \in Connect(d, Arms(d))
  <2>1. /\ o \in Outcomes /\ o.driver.config = d.config
        /\ o.driver.live = IF o.ok THEN d.live \cup Arms(d) ELSE d.live
    BY <1>2, Opened, ArmsOfDriver
  <2> QED BY <2>1 DEF Placed, Arms
<1>3. CASE o = Ok([d EXCEPT !.live = Arms(d)])
  BY <1>3, ArmsOfDriver DEF Ok, Outcomes, Rigs, Placed, Arms
<1>4. CASE \E p \in {"missing", "error"} : o = Ok([d EXCEPT !.passive = p])
  BY <1>4 DEF Ok, Outcomes, Rigs, Placed, Arms, Passive
<1> QED BY <1>1, <1>2, <1>3, <1>4 DEF Startup

\* Who gives up connects nothing, and an error is to be seen.
Seen(r) == r.error \/ Status(r.driver) = "error"
Results == [driver : Rigs, error : BOOLEAN]

\* An arm with a fault or a blocked bus shows as an error.
LEMMA FaultIsSeen ==
    \A d \in Rigs : d.config # NoSetup /\ d.stuck # {} => Status(d) = "error"
BY DEF Status, Rigs

LEMMA GivenUp ==
    ASSUME NEW d \in Rigs, NEW r \in GiveUp(d)
    PROVE  /\ r \in Results /\ r.driver.live \subseteq d.live /\ r.driver.config = d.config
           /\ r.driver.live = d.live \ Arms(d)
           /\ Seen(r)
           /\ Placed(d) => Placed(r.driver)
<1>1. PICK o \in Shutdown(d) : r = [driver |-> o.driver, error |-> o.ok]
  BY DEF GiveUp
<1>2. /\ o \in Outcomes /\ o.driver.config = d.config
      /\ o.driver.live = d.live \ Arms(d)
      /\ ~o.ok => o.driver.stuck # {} /\ IsCell(d.config)
  BY ShutDown
<1>3. ~o.ok => Status(o.driver) = "error"
  BY <1>2, FaultIsSeen, ConfigsFacts DEF IsCell, Outcomes
<1> QED BY <1>1, <1>2, <1>3 DEF Results, Seen, Outcomes, Placed, Arms

\* The old configuration is put back, or that of the environment when there was none.
LEMMA PutBack ==
    ASSUME NEW d \in Rigs, NEW old \in Setups \cup {NoSetup},
           NEW o \in BackTo(d, old)
    PROVE  /\ o \in Outcomes /\ o.driver.live \subseteq d.live
           /\ o.ok => o.driver.config = IF old = NoSetup THEN Env ELSE old
           /\ Placed(d) => Placed(o.driver)
BY Applied, WasReset DEF BackTo

\* What a roll-back ends with.
Restored(r, old) == r.driver.config = (IF old = NoSetup THEN Env ELSE old) \/ Seen(r)

LEMMA ResourcesBack ==
    ASSUME NEW d \in Rigs, NEW old \in Setups \cup {NoSetup},
           NEW r \in RollbackResources(d, old)
    PROVE  /\ r \in Results /\ r.driver.live \subseteq d.live /\ Restored(r, old)
           /\ Placed(d) => Placed(r.driver)
<1>1. PICK o \in IF d.live = {} THEN {Ok(d)} ELSE Disconnect(d, d.live) :
           r \in IF o.ok
                 THEN UNION {IF b.ok THEN {[driver |-> b.driver, error |-> FALSE]}
                                     ELSE GiveUp(b.driver) : b \in BackTo(o.driver, old)}
                 ELSE GiveUp(o.driver)
  BY DEF RollbackResources
<1>2. o \in Outcomes /\ o.driver.live \subseteq d.live /\ o.driver.config = d.config
  <2>1. CASE o = Ok(d)
    BY <2>1 DEF Ok, Outcomes
  <2>2. CASE o \in Disconnect(d, d.live)
    BY <2>2, Disconnected DEF Rigs
  <2> QED BY <1>1, <2>1, <2>2
<1>3. o.driver \in Rigs /\ (Placed(d) => Placed(o.driver))
  BY <1>2 DEF Outcomes, Placed, Arms
<1>4. CASE ~o.ok
  BY <1>1, <1>2, <1>3, <1>4, GivenUp DEF Restored
<1>5. ASSUME NEW b \in BackTo(o.driver, old), o.ok,
             r \in IF b.ok THEN {[driver |-> b.driver, error |-> FALSE]}
                   ELSE GiveUp(b.driver)
      PROVE  /\ r \in Results /\ r.driver.live \subseteq d.live /\ Restored(r, old)
             /\ Placed(d) => Placed(r.driver)
  <2>1. /\ b \in Outcomes /\ b.driver.live \subseteq o.driver.live
        /\ b.ok => b.driver.config = IF old = NoSetup THEN Env ELSE old
        /\ Placed(o.driver) => Placed(b.driver)
    BY <1>3, PutBack
  <2>2. b.driver \in Rigs
    BY <2>1 DEF Outcomes
  <2>3. CASE b.ok
    <3>1. r = [driver |-> b.driver, error |-> FALSE]
      BY <1>5, <2>3
    <3> QED BY <1>2, <1>3, <2>1, <2>2, <2>3, <3>1 DEF Results, Restored
  <2>4. CASE ~b.ok
    <3>1. r \in GiveUp(b.driver)
      BY <1>5, <2>4
    <3> QED BY <1>2, <1>3, <2>1, <2>2, <3>1, GivenUp DEF Restored
  <2> QED BY <2>3, <2>4
<1> QED BY <1>1, <1>4, <1>5

LEMMA RolledBackTo ==
    ASSUME NEW d \in Rigs, Placed(d),
           NEW old \in Setups \cup {NoSetup},
           NEW connected \in BOOLEAN, NEW r \in Rollback(d, old, connected)
    PROVE  /\ r \in Results /\ Restored(r, old) /\ Placed(r.driver)
           /\ ~connected => r.driver.live \subseteq d.live
           /\ old # NoSetup => r.driver.live \subseteq d.live \cup ArmsOf[old]
<1>1. PICK o \in BackTo(d, old) :
         r \in IF o.ok /\ connected
               THEN UNION {IF s.ok THEN {[driver |-> s.driver, error |-> FALSE]}
                                   ELSE GiveUp(s.driver) : s \in Startup(o.driver)}
               ELSE IF o.ok THEN {[driver |-> o.driver, error |-> FALSE]}
               ELSE GiveUp(o.driver)
  BY DEF Rollback
<1>2. /\ o \in Outcomes /\ o.driver \in Rigs /\ o.driver.live \subseteq d.live
      /\ o.ok => o.driver.config = IF old = NoSetup THEN Env ELSE old
      /\ Placed(o.driver)
  BY PutBack DEF Outcomes
<1>3. CASE ~o.ok
  <2>1. r \in GiveUp(o.driver)
    BY <1>1, <1>3
  <2> QED BY <1>2, <2>1, GivenUp DEF Restored
<1>4. CASE o.ok /\ ~connected
  <2>1. r = [driver |-> o.driver, error |-> FALSE]
    BY <1>1, <1>4
  <2> QED BY <1>2, <1>4, <2>1 DEF Results, Restored
<1>5. CASE o.ok /\ connected
  <2>1. PICK s \in Startup(o.driver) :
           r \in IF s.ok THEN {[driver |-> s.driver, error |-> FALSE]}
                 ELSE GiveUp(s.driver)
    BY <1>1, <1>5
  <2>2. /\ s \in Outcomes /\ s.driver \in Rigs /\ s.driver.config = o.driver.config
        /\ Placed(s.driver) /\ s.driver.live \in {o.driver.live, Arms(o.driver)}
    BY <1>2, Started DEF Outcomes
  <2>3. old # NoSetup => s.driver.live \subseteq d.live \cup ArmsOf[old]
    BY <1>2, <1>5, <2>2 DEF Arms
  <2>4. CASE s.ok
    <3>1. r = [driver |-> s.driver, error |-> FALSE]
      BY <2>1, <2>4
    <3> QED BY <1>2, <1>5, <2>2, <2>3, <3>1 DEF Results, Restored
  <2>5. CASE ~s.ok
    <3>1. r \in GiveUp(s.driver)
      BY <2>1, <2>5
    <3> QED BY <1>5, <2>2, <2>3, <3>1, GivenUp DEF Restored
  <2> QED BY <2>4, <2>5
<1> QED BY <1>3, <1>4, <1>5

-----------------------------------------------------------------------------
(* The steps *)

\* What an operation of a user that fails leaves.
Harmless ==
    /\ store' = store
    /\ rig'.live \subseteq rig.live
    /\ \/ rig'.config \in {rig.config, Recorded, request}
       \/ manager'.error \/ Status(rig') = "error"

Fails == did'.by = "user" /\ ~did'.ok
Acts == did'.by = "auto" /\ ~(rig'.live \subseteq rig.live)

\* What may be connected without being asked, as configuration c.
Consented(c) == /\ Saved.auto /\ ~tried
                /\ \/ c = SavedConfig
                   \/ c = rig.config /\ Status(rig) = "missing"
SetupStep == SetupInv' /\ (Fails => Harmless) /\ (Acts => Consented(rig'.config))

\* What the record and the environment configure.
LEMMA SavedFacts ==
    SetupTypeOK => /\ SavedConfig \in Setups \cup {NoSetup}
              /\ Recorded \in Setups \cup {NoSetup}
              /\ rig \in Rigs /\ manager.pending \in BOOLEAN
BY ConfigsFacts DEF SetupTypeOK, SavedConfig, Saved, Recorded, NoRow,
   Rows, Managers, Records

LEMMA ConnectedFacts ==
    ASSUME NEW d \in Rigs
    PROVE  IsConnected(d) <=> /\ d.config # NoSetup /\ d.stuck = {}
                              /\ d.live # {} /\ d.live = Arms(d)
BY DEF IsConnected, Status, Arms, Rigs, Passive

\* Roll-back of the driver as it was set up for a user's request.
LEMMA BackToOld ==
    ASSUME SetupInv, Up, NEW outcomes, RolledBack(outcomes),
           \A r \in outcomes : /\ r \in Results /\ r.driver.live \subseteq rig.live
                               /\ Placed(r.driver)
                               /\ Restored(r, rig.config) \/ Restored(r, Recorded),
           UNCHANGED <<monitor, request>>
    PROVE  SetupStep
<1>1. PICK r \in outcomes : /\ rig' = r.driver
                           /\ manager' = [manager EXCEPT !.error = @ \/ r.error]
  BY DEF RolledBack
<1>2. /\ r \in Results /\ r.driver.live \subseteq rig.live /\ Placed(r.driver)
      /\ Restored(r, rig.config) \/ Restored(r, Recorded)
      /\ did' = [by |-> "user", ok |-> FALSE] /\ store' = store /\ tried' = tried
  BY DEF RolledBack, User
<1>3. SetupTypeOK'
  BY <1>1, <1>2 DEF SetupInv, SetupTypeOK, Results, Managers, Records
<1>4. (Up => Placed(rig))' /\ Remembered'
  BY <1>1, <1>2 DEF SetupInv, SetupTypeOK, Placed, Arms, Remembered, Up,
     Managers, Records
<1>5. /\ rig.config = NoSetup => Env = NoSetup
      /\ Recorded = NoSetup => Env = NoSetup
  BY DEF SetupInv, Placed, Recorded
<1>6. r.driver.config \in {rig.config, Recorded} \/ Seen(r)
  BY <1>2, <1>5 DEF Restored
<1>7. Harmless
  <2>1. r.error \/ Status(rig') = "error"
            => manager'.error \/ Status(rig') = "error"
    BY <1>1, <1>2 DEF SetupInv, SetupTypeOK, Results, Managers, Records
  <2> QED BY <1>1, <1>2, <1>6, <2>1 DEF Harmless, Seen
<1> QED BY <1>2, <1>3, <1>4, <1>7 DEF SetupStep, SetupInv, Acts

\* The steps of save: consent revoked, a pair's and a cell's configuration recorded.
LEMMA RevokeStep ==
    SetupInv /\ Revoke => SetupStep
<1> SUFFICES ASSUME SetupInv, Revoke PROVE SetupStep
  OBVIOUS
<1>1. SetupTypeOK'
  <2>1. PICK part \in {"cell", "legacy"} : store' = [store EXCEPT ![part].auto = FALSE]
    BY DEF Revoke
  <2>2. store' \in Records
    BY <2>1 DEF SetupInv, SetupTypeOK, Rows, Managers, Records
  <2>3. /\ manager' \in Managers
        /\ UNCHANGED <<rig, request>>
    BY DEF SetupInv, SetupTypeOK, Revoke, Managers, Records
  <2> QED BY <2>2, <2>3 DEF SetupInv, SetupTypeOK, Managers, Records
<1>2. /\ did' = [by |-> "user", ok |-> TRUE]
      /\ rig' = rig /\ monitor' = monitor /\ tried' = tried
      /\ manager'.failed = manager.failed /\ manager'.pending = FALSE
  BY DEF Revoke, User, SetupInv, SetupTypeOK, Managers, Records
<1> QED BY <1>1, <1>2 DEF SetupStep, SetupInv, Fails, Acts, Placed, Arms,
           Remembered, Up

\* A request that succeeds with a driver in place.
LEMMA SucceedsStep ==
    ASSUME SetupInv, Up, Succeeds, rig' \in Rigs, Placed(rig)',
           store' \in Records,
           UNCHANGED <<monitor, request>>
    PROVE  SetupStep
<1>1. SetupTypeOK'
  BY DEF SetupInv, SetupTypeOK, Succeeds, Fresh, Managers, Records
<1>2. Remembered'
  BY DEF Succeeds, Fresh, Remembered, Managers
<1> QED BY <1>1, <1>2 DEF SetupStep, SetupInv, Fails, Acts, Succeeds, User

LEMMA SaveLegacyStep ==
    ASSUME SetupInv, NEW c \in LegacyConfigs, NEW auto \in BOOLEAN,
           SaveLegacy(c, auto)
    PROVE  SetupStep
<1> DEFINE row == [store EXCEPT !.legacy = [config |-> c, auto |-> auto]]
<1>1. /\ Up /\ SetupTypeOK /\ Placed(rig) /\ rig \in Rigs /\ c \in Setups
      /\ UNCHANGED <<monitor, request>>
  BY ConfigsFacts DEF SetupInv, SaveLegacy, SetupTypeOK, Managers, Records
<1>2. row \in Records
  BY <1>1 DEF SetupTypeOK, Rows, Managers, Records
<1>3. CASE store' = row /\ Succeeds /\ UNCHANGED rig
  BY <1>1, <1>2, <1>3, SucceedsStep DEF Placed, Arms
<1>4. ASSUME NEW o \in Apply(rig, c),
             \/ o.ok /\ rig' = o.driver /\ store' = row /\ Succeeds
             \/ RolledBack(Rollback(o.driver, rig.config, IsConnected(rig)))
      PROVE  SetupStep
  <2>1. /\ o.driver \in Rigs /\ o.driver.live \subseteq rig.live /\ Placed(o.driver)
    BY <1>1, Applied DEF Outcomes
  <2>2. CASE o.ok /\ rig' = o.driver /\ store' = row /\ Succeeds
    BY <1>1, <1>2, <2>1, <2>2, SucceedsStep DEF Placed, Arms
  <2>3. CASE RolledBack(Rollback(o.driver, rig.config, IsConnected(rig)))
    <3>1. rig.config \in Setups \cup {NoSetup} /\ IsConnected(rig) \in BOOLEAN
      BY <1>1 DEF Rigs, IsConnected
    <3>2. IsConnected(rig) => rig.config # NoSetup /\ rig.live = ArmsOf[rig.config]
      BY <1>1, ConnectedFacts DEF Arms
    <3>3. ASSUME NEW r \in Rollback(o.driver, rig.config, IsConnected(rig))
          PROVE  /\ r \in Results /\ r.driver.live \subseteq rig.live
                 /\ Placed(r.driver) /\ Restored(r, rig.config)
      <4>1. /\ r \in Results /\ Restored(r, rig.config) /\ Placed(r.driver)
            /\ ~IsConnected(rig) => r.driver.live \subseteq o.driver.live
            /\ rig.config # NoSetup
                  => r.driver.live \subseteq o.driver.live \cup ArmsOf[rig.config]
        BY <2>1, <3>1, RolledBackTo
      <4> QED BY <2>1, <3>2, <4>1
    <3> QED BY <1>1, <2>3, <3>3, BackToOld
  <2> QED BY <1>4, <2>2, <2>3
<1> QED BY <1>3, <1>4 DEF SaveLegacy

LEMMA SaveCellStep ==
    ASSUME SetupInv, NEW c \in CellConfigs, NEW auto \in BOOLEAN,
           SaveCell(c, auto)
    PROVE  SetupStep
<1> DEFINE row == [cell |-> [config |-> c, auto |-> auto], legacy |-> NoRow]
<1>1. /\ Up /\ SetupTypeOK /\ Placed(rig) /\ rig \in Rigs /\ c \in Setups
      /\ UNCHANGED <<monitor, request>> /\ rig.config \in Setups \cup {NoSetup}
  BY ConfigsFacts DEF SetupInv, SaveCell, SetupTypeOK, Rigs, Managers, Records
<1>2. row \in Records
  BY DEF Rows, NoRow, Records
<1>3. PICK o \in Apply(rig, c) :
           \/ rig' = o.driver /\ store' = row /\ Succeeds
           \/ RolledBack(RollbackResources(o.driver, rig.config))
  BY DEF SaveCell
<1>4. /\ o.driver \in Rigs /\ o.driver.live \subseteq rig.live /\ Placed(o.driver)
  BY <1>1, Applied DEF Outcomes
<1>5. CASE rig' = o.driver /\ store' = row /\ Succeeds
  BY <1>1, <1>2, <1>4, <1>5, SucceedsStep DEF Placed, Arms
<1>6. CASE RolledBack(RollbackResources(o.driver, rig.config))
  <2>1. \A r \in RollbackResources(o.driver, rig.config) :
            /\ r \in Results /\ r.driver.live \subseteq o.driver.live
            /\ Restored(r, rig.config) /\ Placed(r.driver)
    BY <1>1, <1>4, ResourcesBack
  <2> QED BY <1>1, <1>4, <1>6, <2>1, BackToOld
<1> QED BY <1>3, <1>5, <1>6

\* The record dropped, and put back when that fails.
LEMMA ResetStep ==
    SetupInv /\ Reset => SetupStep
<1> SUFFICES ASSUME SetupInv, Reset PROVE SetupStep
  OBVIOUS
<1>1. /\ Up /\ SetupTypeOK /\ Placed(rig) /\ rig \in Rigs
      /\ UNCHANGED <<monitor, request>> /\ SavedConfig \in Setups \cup {NoSetup}
  BY SavedFacts DEF SetupInv, Reset, SetupTypeOK, Managers, Records
<1>2. PICK o \in ResetDriver(rig) :
           \/ /\ rig' = o.driver
              /\ store' = [cell |-> NoRow, legacy |-> NoRow] /\ Succeeds
           \/ RolledBack(RollbackResources(o.driver, SavedConfig))
  BY DEF Reset
<1>3. /\ o.driver \in Rigs /\ o.driver.live \subseteq rig.live /\ Placed(o.driver)
  BY <1>1, WasReset DEF Outcomes
<1>4. CASE /\ rig' = o.driver
           /\ store' = [cell |-> NoRow, legacy |-> NoRow] /\ Succeeds
  <2>1. store' \in Records
    BY <1>4 DEF NoRow, Rows, Records
  <2> QED BY <1>1, <1>3, <1>4, <2>1, SucceedsStep DEF Placed, Arms
<1>5. CASE RolledBack(RollbackResources(o.driver, SavedConfig))
  <2>1. \A r \in RollbackResources(o.driver, SavedConfig) :
            /\ r \in Results /\ r.driver.live \subseteq o.driver.live
            /\ Restored(r, SavedConfig) /\ Placed(r.driver)
    BY <1>1, <1>3, ResourcesBack
  <2>2. \A r : Restored(r, SavedConfig) => Restored(r, Recorded)
    BY DEF Restored, Recorded
  <2> QED BY <1>1, <1>3, <1>5, <2>1, <2>2, BackToOld
<1> QED BY <1>2, <1>4, <1>5

\* A connect request reads the record and waits.
LEMMA ArrivesStep ==
    SetupInv /\ ConnectArrives => SetupStep
BY SavedFacts DEF SetupInv, ConnectArrives, SetupTypeOK, SetupStep, Fails, Acts,
   Placed, Arms, Remembered,
   Up, Managers, Records

\* What is known of the driver an attempt for a request is made with.
LEMMA PreparedFacts ==
    ASSUME NEW c \in Setups, rig \in Rigs, NEW o \in Prepared(c)
    PROVE  /\ o \in Outcomes /\ o.driver \in Rigs
           /\ o.driver.config \in {rig.config, c}
           /\ o.driver.live \subseteq rig.live
           /\ o.ok => o.driver.config = c
           /\ Placed(rig) => Placed(o.driver)
<1>1. CASE o = Ok(rig) /\ rig.config = c
  BY <1>1 DEF Ok, Outcomes
<1>2. CASE o \in Apply(rig, c)
  BY <1>2, Applied DEF Outcomes
<1> QED BY <1>1, <1>2 DEF Prepared

\* An attempt that fails leaves no more connected than there was.
LEMMA FailedStep ==
    ASSUME SetupInv, Up, request \in Setups, NEW d \in Rigs,
           d.live \subseteq rig.live, d.config \in {rig.config, request}, Placed(d),
           \/ Rejected(d) \/ \E error \in BOOLEAN : Attempted(d, error),
           request' = NoSetup, UNCHANGED <<store, monitor>>
    PROVE  SetupStep
<1>1. /\ rig' = d /\ manager' \in Managers
      /\ manager'.pending = manager.pending
      /\ \/ tried' = tried /\ manager' = manager
         \/ tried' = TRUE /\ manager'.failed = TRUE
      /\ did' = [by |-> "user", ok |-> FALSE]
  BY DEF Rejected, Attempted, User, SetupInv, SetupTypeOK, Managers, Records
<1>2. SetupTypeOK'
  BY <1>1 DEF SetupInv, SetupTypeOK, Managers, Records
<1>3. (Up => Placed(rig))' /\ Remembered'
  BY <1>1 DEF SetupInv, Placed, Arms, Remembered, Up
<1>4. Harmless
  BY <1>1 DEF Harmless
<1> QED BY <1>1, <1>2, <1>3, <1>4 DEF SetupStep, SetupInv, Acts

LEMMA ConnectedStep ==
    ASSUME SetupInv, Up, NEW d \in Rigs, Placed(d), Connected(d),
           request' = NoSetup, UNCHANGED <<store, monitor>>
    PROVE  SetupStep
<1>1. /\ rig' = d /\ manager' \in Managers
      /\ manager'.pending = FALSE /\ tried' = FALSE
      /\ did' = [by |-> "user", ok |-> TRUE]
  BY DEF Connected, User, SetupInv, SetupTypeOK, Managers, Records
<1>2. SetupTypeOK'
  BY <1>1 DEF SetupInv, SetupTypeOK, Managers, Records
<1>3. (Up => Placed(rig))' /\ Remembered'
  BY <1>1 DEF Placed, Arms, Remembered
<1> QED BY <1>1, <1>2, <1>3 DEF SetupStep, SetupInv, Acts, Fails

\* The connect request, of a cell and of a pair.
LEMMA ConnectCellStep ==
    ASSUME SetupInv, NEW S, ConnectCell(S)
    PROVE  SetupStep
<1>1. /\ Up /\ SetupTypeOK /\ Placed(rig) /\ rig \in Rigs /\ request \in Setups
      /\ request' = NoSetup /\ UNCHANGED <<store, monitor>>
      /\ S \subseteq ArmsOf[request] /\ S \in SUBSET Parts /\ S # {}
  BY ConfigsFacts, ArmsInParts DEF SetupInv, ConnectCell, SetupTypeOK, IsCell,
     Managers, Records
<1>2. CASE /\ S \subseteq rig.live
           /\ manager' = [manager EXCEPT !.error = FALSE]
           /\ User(TRUE) /\ UNCHANGED <<rig, tried>>
  <2>1. SetupTypeOK'
    BY <1>1, <1>2 DEF SetupTypeOK, Managers, Records
  <2>2. (Up => Placed(rig))' /\ Remembered'
    BY <1>1, <1>2 DEF SetupInv, SetupTypeOK, Placed, Arms, Remembered,
       Up, Managers, Records
  <2> QED BY <1>2, <2>1, <2>2 DEF SetupStep, SetupInv, Acts, Fails, User
<1>3. ASSUME NEW o \in Prepared(request), Rejected(o.driver)
      PROVE  SetupStep
  BY <1>1, <1>3, PreparedFacts, FailedStep
<1>4. ASSUME NEW o \in Prepared(request), o.ok,
             NEW k \in Connect(o.driver, S \ rig.live),
             \/ k.ok /\ Connected(k.driver)
             \/ \E u \in IF k.driver.live \cap (S \ rig.live) = {} THEN {Ok(k.driver)}
                         ELSE Disconnect(k.driver, k.driver.live \cap (S \ rig.live)) :
                   Attempted(u.driver, u.ok)
      PROVE  SetupStep
  <2> DEFINE new == S \ rig.live
  <2>1. /\ o.driver \in Rigs /\ o.driver.config = request /\ Placed(o.driver)
        /\ o.driver.live \subseteq rig.live
    BY <1>1, <1>4, PreparedFacts
  <2>2. /\ k \in Outcomes /\ k.driver \in Rigs /\ k.driver.config = request
        /\ k.driver.live = IF k.ok THEN o.driver.live \cup new ELSE o.driver.live
    <3>1. new \in SUBSET Parts
      BY <1>1
    <3>2. k \in Connect(o.driver, new)
      BY <1>4
    <3> HIDE DEF new
    <3>3. /\ k \in Outcomes /\ k.driver.config = o.driver.config
          /\ k.driver.live = IF k.ok THEN o.driver.live \cup new ELSE o.driver.live
      BY <2>1, <3>1, <3>2, Opened
    <3> QED BY <2>1, <3>3 DEF Outcomes
  <2>3. Placed(k.driver)
    BY <1>1, <2>1, <2>2, ConfigsFacts DEF Placed, Arms
  <2>4. CASE k.ok /\ Connected(k.driver)
    BY <1>1, <2>2, <2>3, <2>4, ConnectedStep
  <2>5. ASSUME NEW u \in IF k.driver.live \cap new = {} THEN {Ok(k.driver)}
                         ELSE Disconnect(k.driver, k.driver.live \cap new),
               Attempted(u.driver, u.ok)
        PROVE  SetupStep
    <3>1. /\ u \in Outcomes /\ u.driver.config = request
          /\ u.driver.live = k.driver.live \ (k.driver.live \cap new)
      <4>1. CASE u = Ok(k.driver) /\ k.driver.live \cap new = {}
        BY <2>2, <4>1 DEF Ok, Outcomes
      <4>2. CASE u \in Disconnect(k.driver, k.driver.live \cap new)
        <5>1. k.driver.live \cap new \in SUBSET Parts
          BY <2>2 DEF Rigs
        <5> QED BY <2>2, <4>2, <5>1, Disconnected
      <4> QED BY <2>5, <4>1, <4>2
    <3>2. u.driver.live \subseteq rig.live /\ u.driver \in Rigs /\ u.ok \in BOOLEAN
      BY <2>1, <2>2, <3>1 DEF Outcomes
    <3>3. Placed(u.driver)
      BY <2>2, <2>3, <3>1 DEF Placed, Arms
    <3> QED BY <1>1, <2>5, <3>1, <3>2, <3>3, FailedStep
  <2> QED BY <1>4, <2>4, <2>5
<1>5. \/ /\ S \subseteq rig.live
         /\ manager' = [manager EXCEPT !.error = FALSE]
         /\ User(TRUE) /\ UNCHANGED <<rig, tried>>
      \/ \E o \in Prepared(request) :
            \/ Rejected(o.driver)
            \/ /\ o.ok
               /\ \E k \in Connect(o.driver, S \ rig.live) :
                     \/ k.ok /\ Connected(k.driver)
                     \/ \E u \in IF k.driver.live \cap (S \ rig.live) = {} THEN {Ok(k.driver)}
                            ELSE Disconnect(k.driver, k.driver.live \cap (S \ rig.live)) :
                          Attempted(u.driver, u.ok)
  BY DEF ConnectCell
<1> QED BY <1>2, <1>3, <1>4, <1>5

LEMMA ConnectLegacyStep ==
    ASSUME SetupInv, ConnectLegacy
    PROVE  SetupStep
<1>1. /\ Up /\ SetupTypeOK /\ Placed(rig) /\ rig \in Rigs /\ request \in Setups
      /\ request' = NoSetup /\ UNCHANGED <<store, monitor>>
  BY ConfigsFacts DEF SetupInv, ConnectLegacy, SetupTypeOK, Managers, Records
<1>2. CASE Connected(rig)
  BY <1>1, <1>2, ConnectedStep
<1>3. ASSUME NEW o \in Prepared(request), Rejected(o.driver)
      PROVE  SetupStep
  BY <1>1, <1>3, PreparedFacts, FailedStep
<1>4. ASSUME NEW o \in Prepared(request), o.ok, NEW s \in Startup(o.driver),
             \/ Connected(s.driver)
             \/ \E u \in Shutdown(s.driver) : Attempted(u.driver, TRUE)
      PROVE  SetupStep
  <2>1. o.driver \in Rigs /\ o.driver.config = request /\ Placed(o.driver)
    BY <1>1, <1>4, PreparedFacts
  <2>2. s.driver \in Rigs /\ s.driver.config = request /\ Placed(s.driver)
    BY <1>4, <2>1, Started DEF Outcomes
  <2>3. CASE Connected(s.driver)
    BY <1>1, <2>2, <2>3, ConnectedStep
  <2>4. ASSUME NEW u \in Shutdown(s.driver), Attempted(u.driver, TRUE)
        PROVE  SetupStep
    <3>1. /\ u.driver \in Rigs /\ u.driver.config = request
          /\ u.driver.live = s.driver.live \ Arms(s.driver)
      BY <2>2, ShutDown DEF Outcomes
    <3>2. u.driver.live = {} /\ Placed(u.driver)
      BY <1>1, <2>2, <3>1, ConfigsFacts DEF Placed
    <3> QED BY <1>1, <2>4, <3>1, <3>2, FailedStep
  <2> QED BY <1>4, <2>3, <2>4
<1> QED BY <1>2, <1>3, <1>4 DEF ConnectLegacy

\* A user disconnects arms.
LEMMA DisconnectsStep ==
    ASSUME SetupInv, NEW S, Disconnects(S)
    PROVE  SetupStep
<1>1. /\ Up /\ SetupTypeOK /\ Placed(rig) /\ rig \in Rigs /\ S \in SUBSET Parts
      /\ UNCHANGED <<store, monitor, request>>
  BY ArmsOfDriver DEF SetupInv, Disconnects, SetupTypeOK, Managers, Records
<1>2. PICK o \in Disconnect(rig, S) :
          /\ rig' = o.driver
          /\ User(o.ok)
          /\ IF o.ok THEN /\ manager' = [manager EXCEPT !.error = FALSE, !.failed = FALSE]
                          /\ tried' = FALSE
                     ELSE UNCHANGED <<manager, tried>>
  BY DEF Disconnects
<1>3. /\ o \in Outcomes /\ o.driver.config = rig.config
      /\ o.driver.live = rig.live \ S
  BY <1>1, Disconnected
<1>4. SetupTypeOK'
  BY <1>1, <1>2, <1>3 DEF SetupTypeOK, Outcomes, Managers, Records
<1>5. (Up => Placed(rig))' /\ Remembered'
  BY <1>1, <1>2, <1>3 DEF SetupInv, SetupTypeOK, Placed, Arms, Remembered,
     Up, Managers, Records
<1>6. Harmless
  BY <1>1, <1>2, <1>3 DEF Harmless
<1> QED BY <1>2, <1>4, <1>5, <1>6 DEF SetupStep, SetupInv, Acts, User

-----------------------------------------------------------------------------
(* ctrl-pi on its own *)

\* What it does by itself with the outcome of an attempt or without one.
LEMMA AutoStep ==
    ASSUME SetupInv, NEW d \in Rigs, NEW m \in Managers,
           Automatic(d, m), Up' => Placed(d),
           d.live \subseteq rig.live \/ Consented(d.config),
           tried' => Up' /\ m.failed,
           UNCHANGED <<store, request>>
    PROVE  SetupStep
<1>1. /\ rig' = d /\ manager' = m /\ did' = [by |-> "auto", ok |-> TRUE]
  BY DEF Automatic
<1>2. SetupTypeOK'
  BY <1>1 DEF SetupInv, SetupTypeOK, Managers, Records
<1>3. (Up => Placed(rig))' /\ Remembered'
  BY <1>1 DEF Placed, Arms, Remembered, Up
<1> QED BY <1>1, <1>2, <1>3 DEF SetupStep, SetupInv, Fails, Acts

\* A driver that has been shut down.
LEMMA AllDown ==
    ASSUME NEW d \in Rigs, Placed(d), NEW u \in Shutdown(d)
    PROVE  u \in Outcomes /\ u.driver \in Rigs /\ u.driver.live = {} /\ Placed(u.driver)
BY ShutDown DEF Placed, Outcomes, Arms

LEMMA RestoresStep ==
    ASSUME SetupInv, ~tried, NEW d \in Rigs, Placed(d), d.live = {}, d.config = SavedConfig,
           Restores(d),
           UNCHANGED <<store, request>>
    PROVE  SetupStep
<1>1. Fresh \in Managers
  BY DEF Fresh, Managers
<1>2. CASE Automatic(d, Fresh) /\ monitor' = "running" /\ UNCHANGED tried
  BY <1>1, <1>2, AutoStep
<1>3. ASSUME Saved.auto, NEW s \in Startup(d),
             Automatic(s.driver, Fresh), UNCHANGED tried
      PROVE  SetupStep
  <2>1. s.driver \in Rigs /\ Placed(s.driver) /\ Consented(s.driver.config)
    BY <1>3, Started DEF Outcomes, Consented
  <2> QED BY <1>1, <1>3, <2>1, AutoStep
<1>4. ASSUME Saved.auto, NEW s \in Startup(d), NEW u \in Shutdown(s.driver),
             NEW pending \in {FALSE, s.ok},
             Automatic(u.driver, [error |-> u.ok, failed |-> TRUE, pending |-> pending]),
             tried' = (monitor' # "off")
      PROVE  SetupStep
  <2>1. s \in Outcomes /\ s.driver \in Rigs /\ Placed(s.driver)
    BY Started DEF Outcomes
  <2>2. u \in Outcomes /\ u.driver \in Rigs /\ u.driver.live = {} /\ Placed(u.driver)
    BY <2>1, AllDown
  <2>3. [error |-> u.ok, failed |-> TRUE, pending |-> pending]
            \in Managers
    BY <2>1, <2>2 DEF Outcomes, Managers
  <2> QED BY <1>4, <2>2, <2>3, AutoStep DEF Up
<1> QED BY <1>2, <1>3, <1>4 DEF Restores

\* A process starts, reads the record and connects what it consents to.
LEMMA BootStep ==
    ASSUME SetupInv, Boot
    PROVE  SetupStep
<1>1. ~Up /\ ~tried /\ SetupTypeOK /\ UNCHANGED <<store, request>>
  BY DEF SetupInv, Boot, Remembered
<1>2. PICK d \in {Driver(Env, p) : p \in Passive} :
         \/ /\ \/ Automatic(d, [Fresh EXCEPT !.pending = TRUE, !.error = TRUE])
               \/ Automatic(d, Fresh)
               \/ Automatic(d, [Fresh EXCEPT !.error = TRUE])
            /\ UNCHANGED tried
         \/ /\ SavedConfig # NoSetup
            /\ \E o \in Apply(d, SavedConfig) :
                 \/ o.ok /\ Restores(o.driver)
                 \/ /\ Automatic(o.driver, [Fresh EXCEPT !.error = TRUE])
                    /\ UNCHANGED tried
  BY DEF Boot
<1>3. d \in Rigs /\ d.live = {} /\ Placed(d)
  BY ConfigsFacts DEF Driver, Rigs, Placed, Arms
<1>4. /\ Fresh \in Managers
      /\ [Fresh EXCEPT !.pending = TRUE, !.error = TRUE] \in Managers
      /\ [Fresh EXCEPT !.error = TRUE] \in Managers
  BY DEF Fresh, Managers
<1>5. CASE /\ \/ Automatic(d, [Fresh EXCEPT !.pending = TRUE, !.error = TRUE])
              \/ Automatic(d, Fresh)
              \/ Automatic(d, [Fresh EXCEPT !.error = TRUE])
           /\ UNCHANGED tried
  BY <1>1, <1>3, <1>4, <1>5, AutoStep
<1>6. ASSUME SavedConfig # NoSetup, NEW o \in Apply(d, SavedConfig),
             \/ o.ok /\ Restores(o.driver)
             \/ /\ Automatic(o.driver, [Fresh EXCEPT !.error = TRUE])
                /\ UNCHANGED tried
      PROVE  SetupStep
  <2>1. /\ o.driver \in Rigs /\ o.driver.live = {} /\ Placed(o.driver)
        /\ o.ok => o.driver.config = SavedConfig
    <3>1. SavedConfig \in Setups
      BY <1>1, <1>6, SavedFacts
    <3>2. /\ o \in Outcomes /\ o.driver.live \subseteq d.live
          /\ Placed(d) => Placed(o.driver)
          /\ o.ok => o.driver.config = SavedConfig
      BY <1>3, <1>6, <3>1, Applied
    <3> QED BY <1>3, <3>2 DEF Outcomes
  <2>2. CASE o.ok /\ Restores(o.driver)
    BY <1>1, <2>1, <2>2, RestoresStep
  <2>3. CASE Automatic(o.driver, [Fresh EXCEPT !.error = TRUE]) /\ UNCHANGED tried
    BY <1>1, <1>4, <2>1, <2>3, AutoStep
  <2> QED BY <1>6, <2>2, <2>3
<1> QED BY <1>2, <1>5, <1>6

\* A pass of the monitor that ends, well or with an exception.
LEMMA PassStep ==
    ASSUME SetupInv, Up, NEW d \in Rigs, Placed(d), NEW m \in Managers, NEW end, end # "off",
           Passes(d, m, end),
           d.live \subseteq rig.live \/ Consented(d.config),
           tried' => m.failed,
           UNCHANGED <<store, request>>
    PROVE  SetupStep
BY AutoStep DEF Passes, Up

\* Its attempt.
LEMMA AttemptsStep ==
    ASSUME SetupInv, Up, ~tried, NEW d \in Rigs, Placed(d), Consented(d.config),
           NEW m \in Managers, NEW raised, raised # "off", Attempts(d, m, raised),
           UNCHANGED <<store, request>>
    PROVE  SetupStep
<1>1. [m EXCEPT !.failed = TRUE] \in Managers /\ [m EXCEPT !.failed = TRUE].failed
  BY DEF Managers
<1>2. PICK s \in Startup(d) :
         \/ Passes(s.driver, [m EXCEPT !.failed = TRUE], raised)
         \/ Passes(s.driver, m, "running") /\ UNCHANGED tried
         \/ Passes(s.driver, [m EXCEPT !.failed = TRUE], "unsaved")
         \/ \E u \in Shutdown(s.driver), end \in {"running", "unsaved", raised} :
               Passes(u.driver, [m EXCEPT !.failed = TRUE, !.error = @ \/ u.ok], end)
  BY DEF Attempts
<1>3. s.driver \in Rigs /\ Placed(s.driver) /\ Consented(s.driver.config)
  BY Started DEF Outcomes
<1>4. CASE Passes(s.driver, [m EXCEPT !.failed = TRUE], raised)
  BY <1>1, <1>3, <1>4, PassStep
<1>5. CASE Passes(s.driver, m, "running") /\ UNCHANGED tried
  BY <1>3, <1>5, PassStep
<1>6. CASE Passes(s.driver, [m EXCEPT !.failed = TRUE], "unsaved")
  BY <1>1, <1>3, <1>6, PassStep
<1>7. ASSUME NEW u \in Shutdown(s.driver), NEW end \in {"running", "unsaved", raised},
             Passes(u.driver, [m EXCEPT !.failed = TRUE, !.error = @ \/ u.ok], end)
      PROVE  SetupStep
  <2>1. u \in Outcomes /\ u.driver \in Rigs /\ u.driver.live = {} /\ Placed(u.driver)
    BY <1>3, AllDown
  <2>2. /\ [m EXCEPT !.failed = TRUE, !.error = @ \/ u.ok] \in Managers
        /\ [m EXCEPT !.failed = TRUE, !.error = @ \/ u.ok].failed
    BY <2>1 DEF Outcomes, Managers
  <2> QED BY <1>7, <2>1, <2>2, PassStep
<1> QED BY <1>2, <1>4, <1>5, <1>6, <1>7

\* The monitor's steps: a record that could not be read, and arms that are missing.
LEMMA StorageStep ==
    ASSUME SetupInv, RestoreStorage
    PROVE  SetupStep
<1>1. /\ Up /\ ~tried /\ SetupTypeOK /\ UNCHANGED <<store, request>> /\ rig \in Rigs
      /\ Placed(rig) /\ manager \in Managers /\ Fresh \in Managers
  BY DEF SetupInv, RestoreStorage, Remembered, Up, SetupTypeOK, Fresh, Managers, Records
<1>2. CASE Passes(rig, manager, "unsaved") /\ UNCHANGED tried
  BY <1>1, <1>2, PassStep
<1>3. CASE /\ Passes(rig, [manager EXCEPT !.pending = FALSE, !.error = Saved # NoRow], "running")
           /\ UNCHANGED tried
  <2>1. [manager EXCEPT !.pending = FALSE, !.error = Saved # NoRow] \in Managers
    BY <1>1 DEF Managers
  <2> QED BY <1>1, <1>3, <2>1, PassStep
<1>4. ASSUME SavedConfig # NoSetup, NEW o \in Apply(rig, SavedConfig),
             \/ Passes(o.driver, manager, "unapplied") /\ UNCHANGED tried
             \/ /\ Passes(o.driver, Fresh, "running") \/ Passes(o.driver, Fresh, "unapplied")
                /\ UNCHANGED tried
             \/ o.ok /\ Saved.auto /\ Attempts(o.driver, Fresh, "unapplied")
      PROVE  SetupStep
  <2>1. /\ o.driver \in Rigs /\ o.driver.live \subseteq rig.live /\ Placed(o.driver)
        /\ o.ok => o.driver.config = SavedConfig
    <3>1. SavedConfig \in Setups
      BY <1>1, <1>4, SavedFacts
    <3> QED BY <1>1, <1>4, <3>1, Applied DEF Outcomes
  <2>2. CASE \/ Passes(o.driver, manager, "unapplied") /\ UNCHANGED tried
             \/ /\ Passes(o.driver, Fresh, "running") \/ Passes(o.driver, Fresh, "unapplied")
                /\ UNCHANGED tried
    BY <1>1, <2>1, <2>2, PassStep
  <2>3. CASE o.ok /\ Saved.auto /\ Attempts(o.driver, Fresh, "unapplied")
    <3>1. Consented(o.driver.config)
      BY <1>1, <2>1, <2>3 DEF Consented
    <3> QED BY <1>1, <2>1, <2>3, <3>1, AttemptsStep
  <2> QED BY <1>4, <2>2, <2>3
<1> QED BY <1>2, <1>3, <1>4 DEF RestoreStorage

LEMMA MissingStep ==
    ASSUME SetupInv, RestoreMissing
    PROVE  SetupStep
<1>1. /\ Up /\ ~tried /\ SetupTypeOK /\ UNCHANGED <<store, request>>
      /\ rig \in Rigs /\ Placed(rig) /\ manager \in Managers /\ Status(rig) = "missing"
  BY DEF SetupInv, RestoreMissing, Remembered, Up, SetupTypeOK, Managers, Records
<1>2. CASE Passes(rig, manager, "unsaved") /\ UNCHANGED tried
  BY <1>1, <1>2, PassStep
<1>3. CASE Passes(rig, manager, "unopened") /\ UNCHANGED tried
  BY <1>1, <1>3, PassStep
<1>4. CASE Saved.auto /\ Attempts(rig, manager, "unopened")
  <2>1. Consented(rig.config)
    BY <1>1, <1>4 DEF Consented
  <2> QED BY <1>1, <1>4, <2>1, AttemptsStep
<1> QED BY <1>2, <1>3, <1>4 DEF RestoreMissing

LEMMA ShutFacts ==
    "off" \notin Handlers /\ \A why \in Handlers : Shut(why) # "off"
BY DEF Shut, Handlers

\* And those of its handlers, whatever was done since the pass failed.
LEMMA HandlerStep ==
    ASSUME SetupInv, HandlerShuts \/ HandlerSays
    PROVE  SetupStep
<1>1. /\ Up /\ SetupTypeOK /\ UNCHANGED <<store, request, tried>>
      /\ rig \in Rigs /\ Placed(rig) /\ manager \in Managers /\ (tried => manager.failed)
  BY ShutFacts DEF SetupInv, HandlerShuts, HandlerSays, Remembered, Up, SetupTypeOK
<1>2. CASE HandlerShuts
  <2>1. PICK u \in Shutdown(rig) :
            Passes(u.driver, manager, IF u.ok THEN Shut(monitor) ELSE "dead")
    BY <1>2 DEF HandlerShuts
  <2>2. u.driver \in Rigs /\ u.driver.live = {} /\ Placed(u.driver)
    BY <1>1, <2>1, AllDown
  <2>3. (IF u.ok THEN Shut(monitor) ELSE "dead") # "off"
    BY <1>2, ShutFacts DEF HandlerShuts
  <2> QED BY <1>1, <2>1, <2>2, <2>3, PassStep
<1>3. CASE HandlerSays
  <2>1. PICK why \in Handlers :
            Passes(rig, [manager EXCEPT !.error = TRUE,
                                        !.failed = @ \/ why = "unopened",
                                        !.pending = IF why = "unopened" THEN @
                                                    ELSE why = "unsaved"], "running")
    BY <1>3 DEF HandlerSays
  <2> DEFINE m == [manager EXCEPT !.error = TRUE, !.failed = @ \/ why = "unopened",
                                  !.pending = IF why = "unopened" THEN @ ELSE why = "unsaved"]
  <2>2. m \in Managers /\ (tried => m.failed)
    BY <1>1 DEF Managers
  <2>3. Passes(rig, m, "running")
    BY <2>1
  <2> HIDE DEF m
  <2> QED BY <1>1, <2>2, <2>3, PassStep
<1> QED BY <1>2, <1>3

\* An arm fails, and the process stops.
LEMMA ArmFailsStep ==
    ASSUME SetupInv, ArmFails
    PROVE  SetupStep
<1>1. PICK S \in SUBSET rig.live :
          rig' = [rig EXCEPT !.live = @ \ S, !.stuck = @ \cup S]
  BY DEF ArmFails
<1>2. /\ SetupTypeOK' /\ rig'.config = rig.config /\ rig'.live \subseteq rig.live
  BY <1>1 DEF SetupInv, SetupTypeOK, ArmFails, Rigs, Managers, Records
<1>3. (Up => Placed(rig))' /\ Remembered'
  BY <1>2 DEF SetupInv, ArmFails, Placed, Arms, Remembered, Up
<1> QED BY <1>2, <1>3 DEF ArmFails, SetupStep, SetupInv, Acts, Fails

LEMMA StopsStep ==
    ASSUME SetupInv, DriverStops
    PROVE  SetupStep
<1>1. SetupTypeOK' /\ rig'.live = {} /\ ~Up' /\ ~tried' /\ ~manager'.pending
  BY ConfigsFacts DEF SetupInv, SetupTypeOK, DriverStops, Driver, Rigs, Passive,
     Fresh, Up, Managers, Records
<1> QED BY <1>1 DEF DriverStops, SetupStep, SetupInv, Acts, Fails, Remembered

-----------------------------------------------------------------------------
\* The invariant holds at first and is kept.
LEMMA SetupAtFirst ==
    SetupInit => SetupInv
<1> SUFFICES ASSUME SetupInit PROVE SetupInv
  OBVIOUS
<1>1. store \in Records
  <2>1. PICK row \in {NoRow, [config |-> Corrupt, auto |-> TRUE]} :
            store = [cell |-> row, legacy |-> NoRow]
    BY DEF SetupInit
  <2>2. NoRow \in Rows(CellConfigs \cup {Corrupt}) /\ NoRow \in Rows(LegacyConfigs)
    BY DEF NoRow, Rows
  <2>3. [config |-> Corrupt, auto |-> TRUE] \in Rows(CellConfigs \cup {Corrupt})
    BY DEF Rows
  <2> QED BY <2>1, <2>2, <2>3 DEF Records
<1>2. rig \in Rigs /\ rig.live = {}
  BY DEF SetupInit, Driver, Rigs, Passive
<1>3. SetupTypeOK
  BY <1>1, <1>2 DEF SetupInit, SetupTypeOK, Fresh, Managers, Records
<1> QED BY <1>2, <1>3 DEF SetupInit, SetupInv, Remembered, Up, Fresh,
           Managers

\* What no step does: fail and leave something else, or connect unasked.
Asked == (Fails => Harmless) /\ (Acts => Consented(rig'.config))

LEMMA SetupKeeps ==
    ASSUME SetupInv, [SetupNext]_setupVars
    PROVE  SetupInv' /\ [Asked]_setupVars
<1>1. CASE UNCHANGED setupVars
  BY <1>1 DEF setupVars, SetupInv, SetupTypeOK, Placed, Arms, Remembered,
     Up, Managers, Records
<1>2. CASE SetupNext
  <2>1. SetupStep
    BY <1>2, RevokeStep, ArrivesStep, ConnectLegacyStep, ResetStep, SaveLegacyStep,
       SaveCellStep, ConnectCellStep, DisconnectsStep, BootStep, StorageStep, MissingStep,
       HandlerStep, ArmFailsStep, StopsStep DEF SetupNext
  <2> QED BY <2>1 DEF SetupStep, Asked
<1> QED BY <1>1, <1>2

\* For any pairs, cells and arms: what is live belongs to the driver's configuration, a failed
\* attempt is remembered while a process runs, also when a handler of the monitor comes late.
THEOREM SetupInductive ==
    SetupSpec => []SetupInv
BY SetupAtFirst, SetupKeeps, PTL DEF SetupSpec

\* FailureRollsBack: an operation that fails, whatever step of it or of its roll-back fails,
\* leaves the record, connects nothing and puts a configuration back or shows an error.
THEOREM RollsBack ==
    SetupSpec => FailureRollsBack
<1>1. SetupInv /\ [SetupNext]_setupVars =>
        [did'.by = "user" /\ ~did'.ok =>
         /\ store' = store
         /\ rig'.live \subseteq rig.live
         /\ \/ rig'.config \in {rig.config, Recorded, request}
            \/ manager'.error \/ Status(rig') = "error"]_setupVars
  BY SetupKeeps DEF Asked, Fails, Harmless
<1> QED BY <1>1, SetupInductive, PTL DEF SetupSpec, FailureRollsBack

\* NoBlindRetry: nothing is connected without consent or after an attempt that failed, and
\* nothing but what the consent is for, except where missing hardware is found again.
THEOREM NeverBlindly ==
    SetupSpec => NoBlindRetry
<1>1. SetupInv /\ [SetupNext]_setupVars =>
        [did'.by = "auto" /\ ~(rig'.live \subseteq rig.live) =>
         /\ Saved.auto /\ ~tried
         /\ \/ rig'.config = SavedConfig
            \/ rig'.config = rig.config /\ Status(rig) = "missing"]_setupVars
  BY SetupKeeps DEF Asked, Acts, Consented
<1> QED BY <1>1, SetupInductive, PTL DEF SetupSpec, NoBlindRetry
=============================================================================
