------------------------- MODULE ModalTargetProofs -------------------------
(***************************************************************************)
(* For any number of threads and any number of failing requests: what an   *)
(* operation of the Modal adapters answers is true, only the App deployed  *)
(* for us is ever stopped, and a failed launch is undone.                  *)
(***************************************************************************)
EXTENDS ModalTarget, TLAPS

Lives == Active \cup {"absent", "stopped", "forgotten"}
Calls == {None, "pending", "running", "over"}
AppRecords == [life : Lives, tagged : BOOLEAN, listed : BOOLEAN, named : BOOLEAN, call : Calls]

Ops == {"launch", "undo", "stop", "cancel", "panic", "survey"}
Places == {"collide", "deploy", "recover", "spawn", "identify", "verify", "reverify",
           "inspect", "await", "halt", "recall", "survey"}
Steps == {"name", "list", "answer", "tags", "spawn", "info", "life", "call", "stop", "cancel"}
Answers == [list : [Apps -> Active \cup {"stopped", None}], life : Lives \cup {None},
            name : Apps \cup {None}, call : Calls \cup {"unknown"}]

Idles == [op : {"idle"}, is : {None, "handle", "stopped", "failed", "listed"},
          id : Apps \cup {None}, seen : {Unseen}, hurt : Nat, verified : BOOLEAN,
          shown : SUBSET Apps, owned : SUBSET Apps]
Works == [op : Ops, at : Places, step : Steps, id : Apps \cup {None}, called : BOOLEAN,
          verified : BOOLEAN, hurt : Nat, seen : Answers, shown : SUBSET Apps,
          owned : SUBSET Apps, left : SUBSET Apps, doubt : BOOLEAN, is : {None}]

Typed == /\ kind \in {"deployment", "training"}
         /\ app \in [Apps -> AppRecords]
         /\ flight \in {"unsent", "sent", "over"}
         /\ callee \in Apps \cup {None}
         /\ known \subseteq {"ours"}
         /\ task \in [Threads -> Idles \cup Works]
         /\ faults \in Nat

-----------------------------------------------------------------------------
(* The App that was deployed for us *)

Ours == app["ours"]
Landed == Ours.life # "absent"
Down == Ours.life \in {"stopped", "forgotten"}

(* While ours is up nobody else has the name; it is marked from the moment *)
(* it is published.  Somebody else's App was given the call only because   *)
(* ours was down by then.                                                  *)
AppsSound ==
    /\ app["theirs"].life \in {"absent", "running", "stopped", "forgotten"}
    /\ Up("ours") => ~Up("theirs") /\ ~app["theirs"].named
    /\ Ours.tagged => Ours.life \notin {"absent", "deploying"}
    /\ Ours.life \in {"running", "busy", "draining"} => Ours.tagged
    /\ Ours.named => Landed
    /\ callee = "theirs" => Down

(* No call was ever made, so no task of it can run.                        *)
Uncalled == callee = None /\ Ours.call \notin {"pending", "running"} /\ Ours.life \notin {"busy", "draining"}

(* It can be found, by its list entry or by its name, and is marked.       *)
Findable == Down \/ (Ours.tagged /\ (Ours.listed \/ Ours.named))

-----------------------------------------------------------------------------
(* Where an operation stands, and what it has seen: r is thread t's record *)

Ending == {"undo", "stop", "cancel", "panic"}

PlaceSound(t, r) ==
    r.op # "idle" =>
        /\ t = Maker <=> r.op \in {"launch", "undo"}
        /\ r.at \in {"collide", "deploy", "recover", "spawn", "identify"} => r.op = "launch"
        /\ r.at \in {"reverify", "inspect", "await", "halt", "recall"} => r.op \in Ending
        /\ r.at = "survey" <=> r.op = "survey"
        /\ r.at = "verify" => r.op # "undo"
        /\ r.step = "cancel" => r.at = "recall" /\ callee = "ours"
        /\ r.op = "cancel" /\ (r.called \/ r.at = "recall") => callee = "ours"
        /\ r.at = "recall" => r.op \in {"undo", "cancel"}
        /\ r.at = "identify" => callee # None
        /\ r.op \in Ending => r.id = "ours"
        /\ r.at \in {"spawn", "identify"} => r.verified
        /\ r.op = "launch" /\ r.verified
               => Training /\ r.id = "ours" /\ r.at \in {"spawn", "identify"}
        /\ r.op = "undo" => /\ Training /\ r.verified /\ r.step # "call"
                            /\ r.called => r.at = "recall"

Inspected(r) == r.at \in {"inspect", "await"}

(* What it saw was there, and what it saw stopped has.                     *)
SeenSound(r) ==
    r.op # "idle" =>
        /\ r.id = "ours" \/ r.seen.name = "ours" \/ "ours" \in r.owned => Landed
        /\ r.seen.list["ours"] # None => Landed /\ Ours.listed
        /\ Inspected(r) /\ r.step \in {"name", "call", "tags"}
               /\ r.seen.life \in {None, "stopped"} => Down

Sighted(r) == Down \/ Ours.named \/ r.seen.list["ours"] # None

(* A launch may go on as far as its App can still be found.                *)
LaunchSound(r) ==
    /\ r.op = "launch" /\ r.at = "verify" /\ r.step = "tags" /\ r.id = "ours"
           => Down \/ Ours.listed \/ Ours.named
    /\ r.op = "launch" /\ Training /\ r.at # "identify" => Uncalled
    /\ r.op \in {"launch", "undo"} /\ r.verified => Findable
    /\ r.op = "undo" => Down \/ r.hurt > 0
    /\ r.op = "undo" /\ r.at = "reverify" /\ r.step = "name" => Sighted(r)
    /\ r.op = "undo" /\ Inspected(r) /\ r.step \in {"life", "name"} => Sighted(r)

SurveySound(r) ==
    r.op = "survey" =>
        /\ r.step \in {"list", "tags", "life"}
        /\ r.owned \subseteq {"ours"} /\ r.shown \subseteq {"ours"}
        /\ r.step = "list" => r.shown = {}
        /\ r.step = "life" => r.id = "ours"
        /\ "ours" \in r.shown =>
               /\ r.seen.list["ours"] \in Active
               /\ "ours" \in r.left \/ "ours" \in r.owned \/ r.doubt \/ Down

ResultSound(t, r) ==
    r.op = "idle" =>
        /\ r.is = "stopped" => r.id = "ours" /\ Down
        /\ r.is = "listed" => \A a \in r.shown : a \in r.owned \/ (a = "ours" /\ Down)
        /\ t = Maker /\ r.is = "failed" /\ r.verified => Down \/ r.hurt > 1
        /\ t = Maker /\ r.is = "handle" /\ Training => callee = "ours"
        /\ t = Maker /\ r.is = None /\ Training => Uncalled

Sound(t, r) == /\ PlaceSound(t, r) /\ SeenSound(r) /\ LaunchSound(r)
               /\ SurveySound(r) /\ ResultSound(t, r)

IInv == /\ Typed /\ AppsSound /\ (known # {} => Landed)
        /\ \A t \in Threads : Sound(t, task[t])

-----------------------------------------------------------------------------
(* What Modal may do to it meanwhile: nothing that has been seen is undone *)
(* while it is up, and once down it stays so.                              *)

Drifts ==
    /\ app' \in [Apps -> AppRecords] /\ AppsSound' /\ UNCHANGED kind
    /\ callee' \in Apps \cup {None} /\ (callee # None => UNCHANGED callee)
    /\ Down => Down'
    /\ Landed => Landed'
    /\ Ours.listed => Ours.listed'
    /\ Ours.named => Ours.named' \/ Down'
    /\ Ours.tagged => Ours.tagged' \/ Down'

Restrained == Training /\ Uncalled => Uncalled'

LEMMA Stays == ASSUME IInv, UNCHANGED <<kind, app, callee>> PROVE Drifts /\ Restrained
  BY DEF Drifts, Restrained, IInv, Typed, AppsSound, Down, Landed, Ours, Uncalled, Up

(* A launch that has made no call, or is yet to come.                      *)
Waits(t, r) ==
    /\ t = Maker
    /\ (r.op = "launch" /\ r.at # "identify") \/ (r.op = "idle" /\ r.is = None)

LEMMA Stable ==
    ASSUME Drifts, NEW t \in Threads, NEW r \in Idles \cup Works, Sound(t, r),
           Waits(t, r) => Restrained
    PROVE  Sound(t, r)'
  <1>1. kind' = kind /\ (Training' <=> Training)
    BY DEF Drifts, Training
  <1>2. PlaceSound(t, r)'
    BY <1>1 DEF Sound, PlaceSound, Drifts, None
  <1>3. SeenSound(r)'
    BY DEF Sound, SeenSound, Drifts, Inspected
  <1>4. LaunchSound(r)'
    <2>1. r.op = "launch" => t = Maker
      BY DEF Sound, PlaceSound
    <2> QED BY <1>1, <2>1 DEF Sound, LaunchSound, Drifts, Restrained, Findable, Sighted,
               Inspected, Waits
  <1>5. SurveySound(r)'
    BY DEF Sound, SurveySound, Drifts
  <1>6. ResultSound(t, r)'
    BY <1>1 DEF Sound, ResultSound, Drifts, Restrained, Waits, None
  <1> QED BY <1>2, <1>3, <1>4, <1>5, <1>6 DEF Sound

(* What is around a step of thread t.                                      *)
Around(t) ==
    /\ Drifts /\ (t # Maker => Restrained)
    /\ flight' \in {"unsent", "sent", "over"} /\ faults' \in Nat
    /\ known' \subseteq {"ours"} /\ (known' # {} => Landed)

LEMMA Calm ==
    ASSUME IInv, NEW t \in Threads, UNCHANGED <<kind, app, callee>>, faults' \in Nat,
           flight' \in {flight, "sent"}, UNCHANGED known \/ (known' \subseteq {"ours"} /\ Landed)
    PROVE  Around(t) /\ Restrained
  BY Stays DEF Around, IInv, Typed

LEMMA Undisturbed ==
    ASSUME IInv, NEW t \in Threads, Quietly
    PROVE  Around(t) /\ Restrained
  BY Calm DEF Quietly, modal, Fine, IInv, Typed

(* A thread goes on, the others are where they were.                       *)
LEMMA MovesTo ==
    ASSUME IInv, NEW t \in Threads, NEW r \in Idles \cup Works, Now(t, r),
           Around(t), Sound(t, r)'
    PROVE  IInv'
  <1>1. task' = [task EXCEPT ![t] = r] /\ task \in [Threads -> Idles \cup Works]
    BY DEF Now, IInv, Typed
  <1>2. task' \in [Threads -> Idles \cup Works] /\ task'[t] = r
    BY <1>1
  <1>3. ASSUME NEW u \in Threads PROVE Sound(u, task[u])'
    <2>1. CASE u = t
      BY <1>2, <2>1
    <2>2. CASE u # t
      <3>1. PICK v \in Idles \cup Works : v = task'[u] /\ v = task[u]
        BY <1>1, <2>2
      <3>2. Sound(u, v) /\ (Waits(u, v) => Restrained)
        BY <2>2, <3>1 DEF IInv, Waits, Around
      <3>3. Sound(u, v)'
        BY <3>2, Stable DEF Around
      <3> QED BY <3>1, <3>3
    <2> QED BY <2>1, <2>2
  <1>4. Typed'
    BY <1>2 DEF Typed, Drifts, Around, IInv
  <1> QED BY <1>3, <1>4 DEF IInv, Drifts, Around

LEMMA Moves ==
    ASSUME IInv, NEW t \in Threads, NEW r \in Idles \cup Works, Now(t, r),
           Around(t), Waits(t, r) => Restrained, Sound(t, r)
    PROVE  IInv'
  <1>1. Sound(t, r)'
    BY Stable DEF Around
  <1> QED BY <1>1, MovesTo

LEMMA Busy ==
    ASSUME IInv, NEW t \in Threads, task[t].op # "idle"
    PROVE  task[t] \in Works /\ Sound(t, task[t])
  BY DEF IInv, Typed, Idles

-----------------------------------------------------------------------------
(* The records of the operations *)

LEMMA Results ==
    ASSUME NEW r \in Works, NEW is \in {"handle", "stopped", "failed"}
    PROVE  /\ Result(r, is) \in Idles
           /\ Result(r, is).op = "idle" /\ Result(r, is).is = is /\ Result(r, is).id = r.id
           /\ Result(r, is).hurt = r.hurt /\ Result(r, is).verified = r.verified
  BY DEF Result, Came, Works, Idles

LEMMA Unseens ==
    /\ Unseen \in Answers /\ Unseen.list = [a \in Apps |-> None] /\ Unseen.list["ours"] = None
    /\ Unseen.life = None /\ Unseen.name = None /\ Unseen.call = "unknown"
  BY DEF Unseen, Answers, Apps, None

LEMMA Turns ==
    ASSUME NEW r \in Works, NEW at \in Places, NEW step \in Steps
    PROVE  /\ GoTo(r, at, step) \in Works
           /\ GoTo(r, at, step).at = at /\ GoTo(r, at, step).step = step
           /\ GoTo(r, at, step).seen = Unseen
           /\ GoTo(r, at, step).op = r.op /\ GoTo(r, at, step).id = r.id
           /\ GoTo(r, at, step).called = r.called /\ GoTo(r, at, step).verified = r.verified
           /\ GoTo(r, at, step).hurt = r.hurt /\ GoTo(r, at, step).owned = r.owned
  BY Unseens DEF GoTo, Works

(* A thread that ends an operation on its App goes on with it.             *)
LEMMA EndingSound ==
    ASSUME NEW t \in Threads, NEW r \in Works, r.op \in Ending, r.id = "ours", Landed,
           t = Maker <=> r.op = "undo",
           r.op = "undo" => Training /\ r.verified /\ Findable /\ (Down \/ r.hurt > 0),
           NEW at \in {"reverify", "inspect", "await", "halt", "recall"}, NEW step \in Steps,
           r.op = "undo" /\ r.called => at = "recall",
           r.op = "cancel" /\ (r.called \/ at = "recall") => callee = "ours",
           at = "recall" => r.op \in {"undo", "cancel"}, step \in {"list", "stop", "info"}
    PROVE  /\ GoTo(r, at, step) \in Works /\ Sound(t, GoTo(r, at, step))
           /\ ~Waits(t, GoTo(r, at, step))
  <1>1. PICK q \in Works : q = GoTo(r, at, step)
    BY Turns DEF Places, Steps
  <1>2. /\ q.at = at /\ q.step = step /\ q.op = r.op /\ q.id = r.id /\ q.called = r.called
        /\ q.verified = r.verified /\ q.hurt = r.hurt
        /\ q.seen.list["ours"] = None
    <2>1. at \in Places /\ step \in Steps
      BY DEF Places, Steps
    <2>2. q.seen = Unseen
      BY <1>1, <2>1, Turns
    <2> QED BY <1>1, <2>1, <2>2, Turns, Unseens
  <1>3. PlaceSound(t, q)
    BY <1>2 DEF PlaceSound, Ending
  <1>4. SeenSound(q) /\ LaunchSound(q) /\ SurveySound(q) /\ ResultSound(t, q) /\ ~Waits(t, q)
    BY <1>2 DEF SeenSound, LaunchSound, SurveySound, ResultSound, Waits, Ending, Inspected
  <1> QED BY <1>1, <1>3, <1>4 DEF Sound

(* An operation raises: it has failed, or goes on to undo what it did.     *)
LEMMA Raise ==
    ASSUME IInv, NEW t \in Threads, task[t].op # "idle", NEW hurt \in Nat, Raises(t, hurt),
           Around(t),
           task[t].op = "launch" /\ task[t].verified => Down \/ hurt > 0,
           task[t].op = "undo" => Down \/ hurt > 1
    PROVE  IInv'
  <1> DEFINE q == [task[t] EXCEPT !.hurt = hurt]
             undo == [q EXCEPT !.op = "undo"]
  <1>1. /\ q \in Works /\ q.op = task[t].op /\ q.verified = task[t].verified /\ q.hurt = hurt
        /\ q.called = task[t].called /\ task[t] \in Works /\ Sound(t, task[t])
        /\ undo \in Works /\ undo.op = "undo" /\ undo.verified = task[t].verified
        /\ undo.hurt = hurt /\ undo.called = task[t].called /\ undo.id = task[t].id
    BY Busy DEF Works, Ops
  <1>2. CASE ~(q.op = "launch" /\ q.verified)
    <2>1. Now(t, Result(q, "failed"))
      BY <1>2 DEF Raises
    <2>2. PICK r \in Idles : /\ r = Result(q, "failed") /\ r.op = "idle" /\ r.is = "failed"
                             /\ r.verified = task[t].verified /\ r.hurt = hurt
      <3>1. Result(q, "failed") \in Idles
        BY <1>1, Results
      <3> QED BY <1>1, <3>1, Results
    <2>3. t = Maker /\ r.verified => Down \/ hurt > 1
      BY <1>1, <1>2, <2>2 DEF Sound, PlaceSound
    <2>4. Sound(t, r) /\ ~Waits(t, r)
      BY <2>2, <2>3 DEF Sound, PlaceSound, SeenSound, LaunchSound, SurveySound, ResultSound,
         Waits, None
    <2> QED BY <2>1, <2>2, <2>4, Moves
  <1>3. CASE q.op = "launch" /\ q.verified
    <2>1. /\ t = Maker /\ undo.id = "ours" /\ Training /\ Landed /\ Findable
          /\ (Down \/ undo.hurt > 0)
      BY <1>1, <1>3 DEF Sound, PlaceSound, SeenSound, LaunchSound
    <2>2. \/ Now(t, GoTo(undo, "recall", "info"))
          \/ ~undo.called /\ Now(t, GoTo(undo, "inspect", "list"))
      BY <1>1, <1>3 DEF Raises, Inspection
    <2> HIDE DEF undo, q
    <2>3. PICK r : /\ r \in Works /\ Now(t, r) /\ Sound(t, r) /\ ~Waits(t, r)
      BY <1>1, <1>3, <2>1, <2>2, EndingSound DEF Ending, Steps
    <2> QED BY <2>3, Moves
  <1> QED BY <1>2, <1>3

LEMMA Refuse ==
    ASSUME IInv, NEW t \in Threads, task[t].op # "idle", Refuses(t), Around(t),
           task[t].op \in {"launch", "undo"} /\ task[t].verified => Down
    PROVE  IInv'
  <1>1. task[t].hurt \in Nat /\ (task[t].op = "undo" => task[t].verified)
    BY Busy DEF Works, Sound, PlaceSound
  <1> QED BY <1>1, Raise DEF Refuses

-----------------------------------------------------------------------------
(* What Modal answers *)

LEMMA NamesSound ==
    ASSUME IInv, NEW a \in Names
    PROVE  /\ a \in Apps \cup {None} /\ (a = "ours" => Landed /\ Ours.named)
           /\ Up("ours") => a = IF Ours.named THEN "ours" ELSE None
  <1> DEFINE named == {b \in Apps : app[b].named /\ app[b].life \notin {"absent", "forgotten"}}
             up == {b \in named : Up(b)}
  <1>1. a \in IF up # {} THEN up ELSE named \cup {None}
    BY DEF Names
  <1>2. a \in Apps \cup {None} /\ (a = "ours" => Landed /\ Ours.named)
    BY <1>1 DEF Landed, Ours, None
  <1>3. ASSUME Up("ours") PROVE a = IF Ours.named THEN "ours" ELSE None
    <2>1. ~app["theirs"].named /\ Ours.life \notin {"absent", "forgotten"}
      BY <1>3 DEF IInv, AppsSound, Up, Ours, Active
    <2>2. CASE Ours.named
      <3>1. named = {"ours"} /\ up = {"ours"}
        BY <1>3, <2>1, <2>2 DEF Ours, Apps
      <3> QED BY <1>1, <2>2, <3>1
    <2>3. CASE ~Ours.named
      <3>1. named = {} /\ up = {}
        BY <2>1, <2>3 DEF Ours, Apps
      <3> QED BY <1>1, <2>3, <3>1
    <2> QED BY <2>2, <2>3
  <1> QED BY <1>2, <1>3

LEMMA ListsSound ==
    ASSUME IInv, NEW l \in Lists
    PROVE  /\ l \in [Apps -> Active \cup {"stopped", None}]
           /\ l["ours"] # None => Landed /\ Ours.listed
           /\ Up("ours") /\ Ours.listed => l["ours"] # None
           /\ l["ours"] \in Active => Up("ours")
  <1>1. l \in [Apps -> Active \cup {"stopped", None}] /\ l["ours"] \in InList("ours")
    BY DEF Lists, Apps
  <1>2. None \notin Active /\ "stopped" \notin Active /\ None # "stopped"
    BY DEF None, Active
  <1> QED BY <1>1, <1>2 DEF InList, Landed, Ours, Up, Active

LEMMA Entries ==
    ASSUME IInv, NEW t \in Threads, NEW l \in Lists
    PROVE  /\ Entry(t, l) \in [Apps -> Active \cup {"stopped", None}]
           /\ Entry(t, l)["ours"] = IF task[t].id = "ours" THEN l["ours"] ELSE None
  <1>1. l \in [Apps -> Active \cup {"stopped", None}] /\ "ours" \in Apps
    BY ListsSound DEF Apps
  <1> QED BY <1>1, Unseens DEF Entry

LEMMA Tags ==
    ASSUME IInv, NEW a \in Apps \cup {None}, Mine(TagOf(a))
    PROVE  a = "ours" /\ Ours.tagged /\ Landed
  BY DEF Mine, TagOf, Ours, None, IInv, AppsSound, Landed

LEMMA OursIsUp == ASSUME IInv PROVE Up("ours") <=> Landed /\ ~Down
  BY DEF IInv, Typed, AppRecords, Lives, Active, Up, Landed, Down, Ours, Apps

-----------------------------------------------------------------------------
(* Launching *)

(* A launch whose App is not verified yet.                                 *)
LEMMA LaunchingSound ==
    ASSUME NEW r \in Works, r.op = "launch", ~r.verified, Training => Uncalled,
           r.at \in {"collide", "deploy", "recover", "verify"}, r.step # "cancel",
           r.id = "ours" \/ r.seen.name = "ours" \/ "ours" \in r.owned => Landed,
           r.seen.list["ours"] # None => Landed /\ Ours.listed,
           r.at = "verify" /\ r.step = "tags" /\ r.id = "ours"
               => Down \/ Ours.listed \/ Ours.named
    PROVE  Sound(Maker, r)
  <1>1. PlaceSound(Maker, r)
    BY DEF PlaceSound, Ending
  <1>2. SeenSound(r) /\ LaunchSound(r) /\ SurveySound(r) /\ ResultSound(Maker, r)
    BY DEF SeenSound, LaunchSound, SurveySound, ResultSound, Inspected
  <1> QED BY <1>1, <1>2 DEF Sound

LEMMA MakerLaunches == Maker \in Threads
  BY DEF Threads

LEMMA LaunchesGood == ASSUME IInv, Launches PROVE IInv'
  <1>1. Training => Uncalled
    BY MakerLaunches DEF Launches, IInv, Sound, ResultSound, Came
  <1>2. PICK r \in Works : /\ Now(Maker, r) /\ r.op = "launch" /\ r.at = "collide" /\ ~r.verified
                           /\ r.id = None /\ r.seen = Unseen /\ r.owned = {} /\ r.step = "name"
    <2> DEFINE q == Begin("launch", "collide", "name", None, FALSE)
    <2>1. /\ q \in Works /\ q.op = "launch" /\ q.at = "collide" /\ ~q.verified
          /\ q.id = None /\ q.seen = Unseen /\ q.owned = {} /\ q.step = "name"
      <3>1. q.seen = Unseen /\ q.owned = {} /\ q.shown = {} /\ q.left = {}
        BY DEF Begin
      <3> QED BY <3>1, Unseens DEF Begin, Works, Ops, Places, Steps
    <2>2. Now(Maker, q)
      BY DEF Launches
    <2> HIDE DEF q
    <2> QED BY <2>1, <2>2
  <1>3. Sound(Maker, r)
    BY <1>1, <1>2, LaunchingSound, Unseens DEF None
  <1> QED BY <1>2, <1>3, MakerLaunches, Moves, Undisturbed DEF Launches

(* What a launch not yet verified knows, and what it goes on to.           *)
LEMMA Launching ==
    ASSUME IInv, task[Maker].op # "idle",
           At(Maker, "collide") \/ At(Maker, "deploy") \/ At(Maker, "recover")
    PROVE  /\ task[Maker] \in Works /\ Sound(Maker, task[Maker])
           /\ task[Maker].op = "launch" /\ ~task[Maker].verified /\ (Training => Uncalled)
  <1>1. task[Maker] \in Works /\ Sound(Maker, task[Maker])
    BY Busy, MakerLaunches
  <1> QED BY <1>1 DEF At, Sound, PlaceSound, LaunchSound

LEMMA CollidesGood == ASSUME IInv, Collides(Maker) PROVE IInv'
  <1> DEFINE p == task[Maker]
  <1>1. /\ p \in Works /\ Sound(Maker, p) /\ p.op = "launch" /\ p.op # "idle" /\ ~p.verified
        /\ (Training => Uncalled) /\ p.at = "collide"
    BY Launching DEF Collides, At
  <1>2. Around(Maker) /\ Restrained
    BY Calm, MakerLaunches DEF Collides, Fine, IInv, Typed
  <1>3. CASE \E a \in Names : Now(Maker, [p EXCEPT !.seen.name = a, !.step = "list"])
    <2>1. PICK a \in Names : Now(Maker, [p EXCEPT !.seen.name = a, !.step = "list"])
      BY <1>3
    <2>2. PICK r \in Works : /\ Now(Maker, r) /\ r.op = "launch" /\ r.at = "collide" /\ ~r.verified
                             /\ r.id = p.id /\ r.seen.name = a /\ r.seen.list = p.seen.list
                             /\ r.owned = p.owned /\ r.step = "list"
      <3> DEFINE q == [p EXCEPT !.seen.name = a, !.step = "list"]
      <3>1. /\ q \in Works /\ q.op = "launch" /\ q.at = "collide" /\ ~q.verified
            /\ q.id = p.id /\ q.seen.name = a /\ q.seen.list = p.seen.list
            /\ q.owned = p.owned /\ q.step = "list"
        BY <1>1, NamesSound DEF Works, Answers, Steps
      <3>2. Now(Maker, q)
        BY <2>1
      <3> HIDE DEF q
      <3> QED BY <3>1, <3>2
    <2>3. Sound(Maker, r)
      BY <1>1, <2>2, LaunchingSound, NamesSound DEF Sound, SeenSound
    <2> QED BY <1>2, <2>2, <2>3, MakerLaunches, Moves
  <1>4. CASE Now(Maker, GoTo(p, "deploy", "answer"))
    <2>1. PICK r \in Works : /\ Now(Maker, r) /\ r.op = "launch" /\ r.at = "deploy" /\ ~r.verified
                             /\ r.id = p.id /\ r.seen = Unseen /\ r.owned = p.owned
                             /\ r.step = "answer"
      BY <1>1, <1>4, Turns DEF Places, Steps
    <2>2. Sound(Maker, r)
      BY <1>1, <2>1, LaunchingSound, Unseens DEF Sound, SeenSound, None
    <2> QED BY <1>2, <2>1, <2>2, MakerLaunches, Moves
  <1>5. CASE Refuses(Maker)
    BY <1>1, <1>2, <1>5, Refuse, MakerLaunches
  <1> QED BY <1>3, <1>4, <1>5 DEF Collides

LEMMA DeployAnswersGood == ASSUME IInv, DeployAnswers(Maker) PROVE IInv'
  <1> DEFINE p == task[Maker]
             found == [p EXCEPT !.id = "ours"]
  <1>1. /\ p \in Works /\ Sound(Maker, p) /\ p.op = "launch" /\ ~p.verified
        /\ (Training => Uncalled) /\ Landed
    BY Launching DEF DeployAnswers, At, IInv, AppsSound, Landed, Ours
  <1>2. /\ found \in Works /\ found.op = "launch" /\ ~found.verified /\ found.owned = p.owned
        /\ Now(Maker, GoTo(found, "verify", "list"))
    BY <1>1 DEF Works, Apps, DeployAnswers, Inspection
  <1> HIDE DEF found
  <1>3. PICK r \in Works : /\ Now(Maker, r) /\ r.op = "launch" /\ r.at = "verify" /\ ~r.verified
                           /\ r.seen = Unseen /\ r.owned = p.owned /\ r.step = "list"
    BY <1>2, Turns DEF Places, Steps
  <1>4. Sound(Maker, r)
    BY <1>1, <1>3, LaunchingSound, Unseens DEF Sound, SeenSound, None
  <1> QED BY <1>3, <1>4, MakerLaunches, Moves, Undisturbed DEF DeployAnswers

LEMMA RecoversGood == ASSUME IInv, Recovers(Maker) PROVE IInv'
  <1> DEFINE p == task[Maker]
  <1>1. /\ p \in Works /\ Sound(Maker, p) /\ p.op = "launch" /\ p.op # "idle" /\ ~p.verified
        /\ (Training => Uncalled) /\ p.at = "recover"
    BY Launching DEF Recovers, At
  <1>2. Around(Maker) /\ Restrained
    BY Undisturbed, MakerLaunches DEF Recovers
  <1>3. ASSUME NEW a \in Names,
               Now(Maker, [p EXCEPT !.step = "list",
                             !.seen.name = IF Training /\ a # None /\ ~Up(a) THEN None ELSE a])
        PROVE  IInv'
    <2>1. PICK n \in Apps \cup {None} : /\ n = IF Training /\ a # None /\ ~Up(a) THEN None ELSE a
                                        /\ n = "ours" => Landed
      BY NamesSound DEF None
    <2>2. PICK r \in Works : /\ Now(Maker, r) /\ r.op = "launch" /\ r.at = "recover" /\ ~r.verified
                             /\ r.id = p.id /\ r.seen.name = n /\ r.seen.list = p.seen.list
                             /\ r.owned = p.owned /\ r.step = "list"
      <3> DEFINE q == [p EXCEPT !.step = "list", !.seen.name = n]
      <3>1. /\ q \in Works /\ q.op = "launch" /\ q.at = "recover" /\ ~q.verified
            /\ q.id = p.id /\ q.seen.name = n /\ q.seen.list = p.seen.list
            /\ q.owned = p.owned /\ q.step = "list"
        BY <1>1, <2>1 DEF Works, Answers, Steps
      <3>2. Now(Maker, q)
        BY <1>3, <2>1
      <3> HIDE DEF q
      <3> QED BY <3>1, <3>2
    <2>3. Sound(Maker, r)
      BY <1>1, <2>1, <2>2, LaunchingSound DEF Sound, SeenSound
    <2> QED BY <1>2, <2>2, <2>3, MakerLaunches, Moves
  <1>4. ASSUME NEW l \in Lists, NEW a \in Apps,
               a \in Candidates(Maker, [b \in Apps |-> IF l[b] = "stopped" THEN None ELSE l[b]]),
               Now(Maker, [p EXCEPT !.step = "tags", !.id = a])
        PROVE  IInv'
    <2>1. a = "ours" => Landed
      <3>1. a = "ours" => l["ours"] # None \/ p.seen.name = "ours"
        BY <1>4 DEF Candidates, Apps
      <3> QED BY <1>1, <3>1, ListsSound DEF Sound, SeenSound
    <2>2. PICK r \in Works : /\ Now(Maker, r) /\ r.op = "launch" /\ r.at = "recover" /\ ~r.verified
                             /\ r.id = a /\ r.seen = p.seen /\ r.owned = p.owned /\ r.step = "tags"
      <3> DEFINE q == [p EXCEPT !.step = "tags", !.id = a]
      <3>1. /\ q \in Works /\ q.op = "launch" /\ q.at = "recover" /\ ~q.verified
            /\ q.id = a /\ q.seen = p.seen /\ q.owned = p.owned /\ q.step = "tags"
        BY <1>1, <1>4 DEF Works, Steps
      <3>2. Now(Maker, q)
        BY <1>4
      <3> HIDE DEF q
      <3> QED BY <3>1, <3>2
    <2>3. Sound(Maker, r)
      BY <1>1, <2>1, <2>2, LaunchingSound DEF Sound, SeenSound
    <2> QED BY <1>2, <2>2, <2>3, MakerLaunches, Moves
  <1>5. CASE Now(Maker, GoTo(p, "verify", "list"))
    <2>1. PICK r \in Works : /\ Now(Maker, r) /\ r.op = "launch" /\ r.at = "verify" /\ ~r.verified
                             /\ r.id = p.id /\ r.seen = Unseen /\ r.owned = p.owned
                             /\ r.step = "list"
      BY <1>1, <1>5, Turns DEF Places, Steps
    <2>2. Sound(Maker, r)
      BY <1>1, <2>1, LaunchingSound, Unseens DEF Sound, SeenSound, None
    <2> QED BY <1>2, <2>1, <2>2, MakerLaunches, Moves
  <1>6. CASE Refuses(Maker)
    BY <1>1, <1>2, <1>6, Refuse, MakerLaunches
  <1>7. CASE Step(Maker, "list")
    <2>1. \/ Refuses(Maker)
          \/ \E l \in Lists, a \in Apps :
                 /\ a \in Candidates(Maker, [b \in Apps |-> IF l[b] = "stopped" THEN None
                                                            ELSE l[b]])
                 /\ Now(Maker, [p EXCEPT !.step = "tags", !.id = a])
      <3>1. \A l \in [Apps -> Active \cup {"stopped", None}] :
                Candidates(Maker, [b \in Apps |-> IF l[b] = "stopped" THEN None ELSE l[b]])
                    \subseteq Apps
        BY <1>1 DEF Candidates, Works, Answers
      <3>2. Lists \subseteq [Apps -> Active \cup {"stopped", None}]
        BY DEF Lists
      <3>3. p.step = "list"
        BY <1>7 DEF Step
      <3> QED BY <3>1, <3>2, <3>3, <1>1 DEF Recovers, Step
    <2> QED BY <1>4, <1>6, <2>1
  <1> QED BY <1>3, <1>5, <1>6, <1>7 DEF Recovers, Inspection

LEMMA IdentifiesGood == ASSUME IInv, Identifies(Maker) PROVE IInv'
  <1> DEFINE p == task[Maker]
  <1>1. /\ p \in Works /\ Sound(Maker, p) /\ p.op = "launch" /\ p.id = "ours" /\ Landed
        /\ Around(Maker) /\ Restrained
    <2>1. /\ p \in Works /\ Sound(Maker, p) /\ p.op = "launch" /\ p.id = "ours" /\ Landed
      BY Busy, MakerLaunches DEF Identifies, At, Sound, PlaceSound, SeenSound
    <2>2. UNCHANGED <<kind, app, callee, flight, faults>>
      BY DEF Identifies, Fine, modal
    <2>3. UNCHANGED known \/ (known' \subseteq {"ours"} /\ Landed)
      BY <2>1 DEF Identifies, IInv, Typed
    <2> QED BY <2>1, <2>2, <2>3, Calm, MakerLaunches DEF IInv, Typed
  <1>2. CASE ItsCall(Maker)
    <2>1. PICK r \in Idles : Now(Maker, r) /\ r.op = "idle" /\ r.is = "handle"
      BY <1>1, <1>2, Results DEF Identifies, Ends
    <2>2. Sound(Maker, r)
      BY <1>1, <1>2, <2>1 DEF Sound, PlaceSound, SeenSound, LaunchSound, SurveySound, ResultSound,
         ItsCall, None
    <2> QED BY <1>1, <2>1, <2>2, MakerLaunches, Moves
  <1>3. CASE ~ItsCall(Maker)
    <2>1. callee = "theirs"
      BY <1>1, <1>3 DEF Identifies, ItsCall, IInv, Typed, Apps, At, Sound, PlaceSound
    <2>2. Down
      BY <2>1 DEF IInv, AppsSound
    <2> QED BY <1>1, <1>3, <2>2, Refuse, MakerLaunches DEF Identifies
  <1> QED BY <1>2, <1>3

(* The call alone changes, or is made.                                     *)
LEMMA CallDrifts ==
    ASSUME IInv, NEW a \in Apps, NEW call \in Calls, app' = [app EXCEPT ![a].call = call],
           UNCHANGED kind, callee' \in Apps, callee # None => UNCHANGED callee,
           callee' = "theirs" => Down
    PROVE  Drifts
  <1>1. app \in [Apps -> AppRecords] /\ "ours" \in Apps /\ "theirs" \in Apps
    BY DEF IInv, Typed, Apps
  <1>2. app' \in [Apps -> AppRecords]
    BY <1>1 DEF AppRecords
  <1>3. ASSUME NEW b \in Apps
        PROVE  /\ app'[b].life = app[b].life /\ app'[b].tagged = app[b].tagged
               /\ app'[b].listed = app[b].listed /\ app'[b].named = app[b].named
    BY <1>1 DEF AppRecords
  <1>4. /\ app'["ours"].life = app["ours"].life /\ app'["ours"].tagged = app["ours"].tagged
        /\ app'["ours"].listed = app["ours"].listed /\ app'["ours"].named = app["ours"].named
        /\ app'["theirs"].life = app["theirs"].life /\ app'["theirs"].named = app["theirs"].named
    BY <1>1, <1>3
  <1> QED BY <1>2, <1>4 DEF Drifts, AppsSound, IInv, Down, Landed, Ours, Up

(* An App of somebody else's takes the call only when ours is down.        *)
LEMMA TakersSound ==
    ASSUME IInv, Landed, NEW a \in Takers
    PROVE  a \in Apps /\ (a = "theirs" => Down)
  <1>1. a \in Names /\ a # None /\ Up(a)
    BY DEF Takers
  <1>2. a \in Apps
    BY <1>1, NamesSound
  <1>3. a = "theirs" => ~Up("ours")
    BY <1>1 DEF IInv, AppsSound
  <1> QED BY <1>2, <1>3, OursIsUp

LEMMA SpawnsGood == ASSUME IInv, Spawns(Maker) PROVE IInv'
  <1> DEFINE p == task[Maker]
             called == [p EXCEPT !.called = TRUE]
  <1>1. /\ p \in Works /\ Sound(Maker, p) /\ p.op = "launch" /\ p.op # "idle" /\ p.verified
        /\ p.id = "ours" /\ Landed /\ Training /\ Uncalled /\ Findable /\ p.hurt \in Nat
    BY Busy, MakerLaunches DEF Spawns, At, Sound, PlaceSound, SeenSound, LaunchSound, Works
  <1>2. ASSUME NEW a \in Takers, app' = Called(a), callee' = a,
               Now(Maker, GoTo(called, "identify", "info"))
        PROVE  IInv'
    <2>1. Around(Maker)
      <3>1. a \in Apps /\ (a = "theirs" => Down)
        BY <1>1, TakersSound
      <3>2. app' = [app EXCEPT ![a].call = "pending"] /\ callee = None /\ "pending" \in Calls
        BY <1>1, <1>2 DEF Called, Uncalled, Calls
      <3>3. UNCHANGED <<kind, flight, known, faults>>
        BY DEF Spawns, Fine
      <3>4. Drifts
        BY <1>2, <3>1, <3>2, <3>3, CallDrifts
      <3> QED BY <3>3, <3>4 DEF Around, IInv, Typed
    <2>2. called \in Works /\ called.op = "launch" /\ called.verified /\ called.id = "ours"
      BY <1>1 DEF Works
    <2> HIDE DEF called
    <2>3. PICK r \in Works : /\ Now(Maker, r) /\ r.op = "launch" /\ r.at = "identify" /\ r.verified
                             /\ r.id = "ours" /\ r.seen = Unseen /\ r.step = "info"
      BY <1>2, <2>2, Turns DEF Places, Steps
    <2>4. PlaceSound(Maker, r)'
      <3>1. kind' = kind /\ (Training' <=> Training) /\ callee' # None
        BY <1>1, <1>2, TakersSound DEF Spawns, Training, Apps, None
      <3> QED BY <1>1, <2>3, <3>1 DEF PlaceSound, Ending
    <2>5. SeenSound(r)' /\ LaunchSound(r)'
      BY <1>1, <2>1, <2>3, Unseens DEF SeenSound, LaunchSound, Findable, Inspected, Around, Drifts,
         None
    <2>6. SurveySound(r)' /\ ResultSound(Maker, r)'
      BY <2>3 DEF SurveySound, ResultSound
    <2> QED BY <2>1, <2>3, <2>4, <2>5, <2>6, MakerLaunches, MovesTo DEF Sound
  <1>3. CASE Raises(Maker, p.hurt + 1) /\ UNCHANGED <<app, callee>>
    <2>1. UNCHANGED <<kind, app, callee, flight, known, faults>>
      BY <1>3 DEF Spawns, Fine
    <2>2. Around(Maker)
      BY <2>1, Calm, MakerLaunches DEF IInv, Typed
    <2> QED BY <1>1, <1>3, <2>2, Raise, MakerLaunches
  <1> QED BY <1>2, <1>3 DEF Spawns

-----------------------------------------------------------------------------
(* Verifying *)

(* A record that goes on to an inspection, or whose App is told to stop.   *)
LEMMA EndingGoes ==
    ASSUME IInv, NEW t \in Threads, NEW r \in Works, r.op \in Ending, r.id = "ours", Landed,
           t = Maker <=> r.op = "undo",
           r.op = "undo" => Training /\ r.verified /\ Findable /\ (Down \/ r.hurt > 0),
           NEW at \in {"reverify", "inspect", "await", "halt", "recall"}, NEW step \in Steps,
           r.op = "undo" /\ r.called => at = "recall",
           r.op = "cancel" /\ (r.called \/ at = "recall") => callee = "ours",
           at = "recall" => r.op \in {"undo", "cancel"}, step \in {"list", "stop", "info"},
           Now(t, GoTo(r, at, step)), Around(t)
    PROVE  IInv'
  <1>1. PICK q : q = GoTo(r, at, step)
    OBVIOUS
  <1>2. q \in Works /\ Sound(t, q) /\ ~Waits(t, q)
    BY <1>1, EndingSound
  <1> QED BY <1>1, <1>2, Moves

(* What is so of a thread that ends an operation on its App.               *)
LEMMA EndingIs ==
    ASSUME IInv, NEW t \in Threads, task[t].op \in Ending
    PROVE  /\ task[t] \in Works /\ Sound(t, task[t]) /\ task[t].id = "ours" /\ Landed
           /\ t = Maker <=> task[t].op = "undo"
           /\ task[t].op = "undo" => /\ Training /\ task[t].verified /\ Findable
                                     /\ Down \/ task[t].hurt > 0
                                     /\ task[t].called => task[t].at = "recall"
           /\ task[t].op = "cancel" /\ (task[t].called \/ task[t].at = "recall")
                  => callee = "ours"
  <1>1. task[t].op # "idle"
    BY DEF Ending
  <1>2. task[t] \in Works /\ Sound(t, task[t])
    BY <1>1, Busy
  <1> QED BY <1>1, <1>2 DEF Sound, PlaceSound, SeenSound, LaunchSound, Ending

(* A thread with an operation other than a survey, at or after its         *)
(* verification, goes on with what it has seen.                            *)
LEMMA VerifyingIs ==
    ASSUME IInv, NEW t \in Threads, At(t, "verify") \/ At(t, "reverify")
    PROVE  /\ task[t] \in Works /\ Sound(t, task[t]) /\ task[t].op # "survey"
           /\ \/ task[t].op \in Ending
              \/ /\ t = Maker /\ task[t].op = "launch" /\ At(t, "verify") /\ ~task[t].verified
                 /\ Training => Uncalled
  <1>1. task[t].op # "idle" /\ task[t].at \in {"verify", "reverify"}
    BY DEF At
  <1>2. task[t] \in Works /\ Sound(t, task[t])
    BY <1>1, Busy
  <1> QED BY <1>1, <1>2 DEF At, Sound, PlaceSound, LaunchSound, Ending, Works, Ops

(* It keeps its place, and notes what it is told.                          *)
LEMMA VerifyingGoes ==
    ASSUME IInv, NEW t \in Threads, At(t, "verify") \/ At(t, "reverify"),
           NEW r \in Works, r.op = task[t].op, r.at = task[t].at, r.id = task[t].id,
           r.called = task[t].called, r.verified = task[t].verified, r.hurt = task[t].hurt,
           r.owned = task[t].owned, r.seen.name = task[t].seen.name,
           r.step \in {"name", "tags"},
           r.seen.list["ours"] # None => Landed /\ Ours.listed,
           r.op = "launch" /\ r.step = "tags" /\ r.id = "ours"
               => Down \/ Ours.listed \/ Ours.named,
           r.op = "undo" /\ r.step = "name" => Sighted(r),
           Now(t, r), Quietly
    PROVE  IInv'
  <1>1. /\ task[t] \in Works /\ Sound(t, task[t]) /\ r.op # "idle" /\ r.op # "survey"
        /\ r.at \in {"verify", "reverify"}
    BY VerifyingIs DEF At
  <1>2. PlaceSound(t, r)
    BY <1>1 DEF Sound, PlaceSound
  <1>3. SeenSound(r)
    BY <1>1 DEF Sound, SeenSound, Inspected
  <1>4. LaunchSound(r)
    BY <1>1 DEF Sound, PlaceSound, LaunchSound, Inspected
  <1>5. SurveySound(r) /\ ResultSound(t, r)
    BY <1>1 DEF SurveySound, ResultSound
  <1> QED BY <1>2, <1>3, <1>4, <1>5, Moves, Undisturbed DEF Sound

LEMMA VerifyListsGood == ASSUME IInv, NEW t \in Threads, VerifyLists(t) PROVE IInv'
  <1> DEFINE p == task[t]
  <1>1. /\ p \in Works /\ Sound(t, p) /\ p.op # "survey" /\ (p.op = "undo" => p.id = "ours")
        /\ p.op = "undo" => Findable
    BY VerifyingIs, EndingIs DEF VerifyLists, Ending
  <1>2. CASE p.op = "panic" /\ ~Training /\ Now(t, GoTo(p, "inspect", "list"))
    <2>1. p.op \in Ending /\ p.op # "undo"
      BY <1>2 DEF Ending
    <2> QED BY <1>2, <2>1, EndingIs, EndingGoes, Undisturbed DEF VerifyLists, Steps
  <1>3. ASSUME NEW l \in Lists, Now(t, [p EXCEPT !.seen.list = Entry(t, l), !.step = "name"])
        PROVE  IInv'
    <2> DEFINE q == [p EXCEPT !.seen.list = Entry(t, l), !.step = "name"]
    <2>1. /\ q \in Works /\ q.op = p.op /\ q.at = p.at /\ q.id = p.id /\ q.called = p.called
          /\ q.verified = p.verified /\ q.hurt = p.hurt /\ q.owned = p.owned
          /\ q.seen.name = p.seen.name /\ q.step = "name"
          /\ q.seen.list["ours"] = IF p.id = "ours" THEN l["ours"] ELSE None
      BY <1>1, Entries DEF Works, Answers, Steps
    <2>2. q.seen.list["ours"] # None => Landed /\ Ours.listed
      BY <2>1, ListsSound
    <2>3. q.op = "undo" => Sighted(q)
      BY <1>1, <2>1, ListsSound, OursIsUp DEF Sighted, Findable, Sound, SeenSound
    <2>4. Now(t, q)
      BY <1>3
    <2> HIDE DEF q
    <2> QED BY <2>1, <2>2, <2>3, <2>4, VerifyingGoes DEF VerifyLists
  <1> QED BY <1>2, <1>3 DEF VerifyLists, Inspection

LEMMA VerifyNamesGood == ASSUME IInv, NEW t \in Threads, VerifyNames(t) PROVE IInv'
  <1> DEFINE p == task[t]
  <1>1. /\ p \in Works /\ Sound(t, p) /\ p.step = "name" /\ p.op # "idle"
        /\ p.at \in {"verify", "reverify"}
    BY VerifyingIs DEF VerifyNames, Step, At
  <1>2. /\ p.seen.list["ours"] # None => Landed /\ Ours.listed
        /\ p.op = "undo" => p.id = "ours" /\ p.at = "reverify" /\ Sighted(p)
        /\ p.op = "launch" => ~p.verified
    BY <1>1 DEF Sound, PlaceSound, SeenSound, LaunchSound, Ending
  <1>3. PICK a \in Names : IF a = p.id \/ (a = None /\ p.seen.list[p.id] # None)
                             THEN Now(t, [p EXCEPT !.step = "tags"]) ELSE Refuses(t)
    BY DEF VerifyNames, StepTo
  <1>4. CASE a = p.id \/ (a = None /\ p.seen.list[p.id] # None)
    <2> DEFINE q == [p EXCEPT !.step = "tags"]
    <2>1. /\ q \in Works /\ q.op = p.op /\ q.at = p.at /\ q.id = p.id /\ q.called = p.called
          /\ q.verified = p.verified /\ q.hurt = p.hurt /\ q.owned = p.owned
          /\ q.seen = p.seen /\ q.step = "tags"
      BY <1>1 DEF Works, Steps
    <2>2. q.id = "ours" => Down \/ Ours.listed \/ Ours.named
      BY <1>2, <1>4, <2>1, NamesSound
    <2>3. Now(t, q)
      BY <1>3, <1>4
    <2> HIDE DEF q
    <2> QED BY <1>2, <2>1, <2>2, <2>3, VerifyingGoes DEF VerifyNames
  <1>5. CASE ~(a = p.id \/ (a = None /\ p.seen.list[p.id] # None))
    <2>1. p.op = "undo" => Down
      <3>1. CASE Up("ours") /\ p.op = "undo"
        BY <1>2, <1>5, <3>1, NamesSound, OursIsUp DEF Sighted
      <3>2. CASE ~Up("ours") /\ p.op = "undo"
        <4>1. Landed
          BY <1>1, <1>2, <3>2 DEF Sound, SeenSound
        <4> QED BY <3>2, <4>1, OursIsUp
      <3> QED BY <3>1, <3>2
    <2>2. Refuses(t)
      BY <1>3, <1>5
    <2> QED BY <1>1, <1>2, <2>1, <2>2, Refuse, Undisturbed DEF VerifyNames
  <1> QED BY <1>4, <1>5

LEMMA VerifyTagsGood == ASSUME IInv, NEW t \in Threads, VerifyTags(t) PROVE IInv'
  <1> DEFINE p == task[t]
             record == [p EXCEPT !.verified = (@ \/ p.op = "launch")]
  <1>1. /\ p \in Works /\ Sound(t, p) /\ p.step = "tags" /\ p.op # "idle" /\ p.op # "survey"
        /\ p.at \in {"verify", "reverify"}
        /\ \/ p.op \in Ending
           \/ t = Maker /\ p.op = "launch" /\ p.at = "verify" /\ ~p.verified /\ (Training => Uncalled)
    BY VerifyingIs DEF VerifyTags, Step, At
  <1>2. /\ record \in Works /\ record.op = p.op /\ record.id = p.id /\ record.called = p.called
        /\ record.hurt = p.hurt /\ record.owned = p.owned
        /\ record.verified = (p.verified \/ p.op = "launch")
    BY <1>1 DEF Works
  <1>3. UNCHANGED <<kind, app, callee, flight, faults>>
    BY DEF VerifyTags, modal, Fine
  <1>4. CASE Mine(TagOf(p.id)) /\ Verified(t)
    <2>1. p.id = "ours" /\ Ours.tagged /\ Landed
      BY <1>1, <1>4, Tags DEF Works
    <2>2. Around(t) /\ Restrained
      BY <1>3, <1>4, <2>1, Calm DEF Verified, IInv, Typed
    <2>3. CASE p.op = "launch" /\ Training
      <3>1. Now(t, GoTo(record, "spawn", "spawn"))
        BY <1>2, <1>4, <2>3 DEF Verified
      <3>2. Uncalled /\ Findable /\ t = Maker
        BY <1>1, <2>1, <2>3 DEF Sound, LaunchSound, Findable, Ending
      <3>3. record.op = "launch" /\ record.verified /\ record.id = "ours"
        BY <1>2, <2>1, <2>3
      <3> HIDE DEF record
      <3>4. PICK r \in Works : /\ Now(t, r) /\ r.op = "launch" /\ r.at = "spawn" /\ r.verified
                               /\ r.id = "ours" /\ r.seen = Unseen /\ r.step = "spawn"
        BY <1>2, <3>1, <3>3, Turns DEF Places, Steps
      <3>5. PlaceSound(t, r)
        BY <2>3, <3>2, <3>4 DEF PlaceSound, Ending
      <3>6. SeenSound(r) /\ LaunchSound(r) /\ SurveySound(r) /\ ResultSound(t, r)
        BY <2>1, <3>2, <3>4, Unseens DEF SeenSound, LaunchSound, SurveySound, ResultSound,
           Inspected, None
      <3> QED BY <2>2, <3>4, <3>5, <3>6, Moves DEF Sound
    <2>4. CASE p.op = "launch" /\ ~Training
      <3>1. Now(t, Result(record, "handle"))
        BY <1>2, <1>4, <2>4 DEF Verified
      <3> HIDE DEF record
      <3>2. PICK r \in Idles : Now(t, r) /\ r.op = "idle" /\ r.is = "handle"
        BY <1>2, <3>1, Results
      <3>3. Sound(t, r)
        BY <2>4, <3>2 DEF Sound, PlaceSound, SeenSound, LaunchSound, SurveySound, ResultSound, None
      <3> QED BY <2>2, <3>2, <3>3, Moves
    <2>5. CASE p.op \in Ending
      <3>1. /\ record.op \in Ending /\ record.id = "ours" /\ Landed
            /\ t = Maker <=> record.op = "undo"
        BY <1>1, <1>2, <2>1, <2>5, EndingIs DEF Ending
      <3>2. /\ record.op = "undo" => /\ Training /\ record.verified /\ Findable
                                        /\ (Down \/ record.hurt > 0) /\ ~record.called
            /\ record.op = "cancel" /\ record.called => callee = "ours"
        BY <1>1, <1>2, <2>5, EndingIs
      <3>3. \/ Now(t, GoTo(record, "halt", "stop"))
            \/ /\ record.op = "cancel" /\ record.called
               /\ Now(t, GoTo(record, "recall", "info"))
            \/ Now(t, GoTo(record, "inspect", "list"))
        BY <1>2, <1>4, <2>5 DEF Verified, Inspection, Ending
      <3> HIDE DEF record
      <3> QED BY <1>2, <2>2, <3>1, <3>2, <3>3, EndingGoes DEF Steps
    <2> QED BY <1>1, <2>3, <2>4, <2>5
  <1>5. CASE ~Mine(TagOf(p.id)) /\ Refuses(t) /\ UNCHANGED known
    <2>1. p.op \in {"launch", "undo"} /\ p.verified => Down
      <3>1. p.op = "undo" => Findable /\ p.id = "ours"
        BY EndingIs DEF Ending
      <3>2. p.id = "ours" => ~Ours.tagged
        BY <1>5 DEF Mine, TagOf, Ours
      <3> QED BY <1>1, <3>1, <3>2 DEF Findable, Ending
    <2> QED BY <1>1, <1>3, <1>5, <2>1, Refuse, Calm DEF IInv, Typed
  <1> QED BY <1>4, <1>5 DEF VerifyTags

-----------------------------------------------------------------------------
(* Inspecting *)

LEMMA InspectingIs ==
    ASSUME IInv, NEW t \in Threads, Inspecting(t)
    PROVE  /\ task[t] \in Works /\ Sound(t, task[t]) /\ task[t].id = "ours" /\ Landed
           /\ task[t].op \in Ending /\ task[t].op # "idle" /\ task[t].op # "launch"
           /\ task[t].at \in {"inspect", "await"}
           /\ t = Maker <=> task[t].op = "undo"
           /\ task[t].op = "undo" => /\ Training /\ task[t].verified /\ Findable
                                     /\ ~task[t].called /\ (Down \/ task[t].hurt > 0)
           /\ task[t].op = "cancel" /\ task[t].called => callee = "ours"
  <1>1. task[t].op # "idle" /\ task[t].at \in {"inspect", "await"}
    BY DEF Inspecting, At
  <1>2. task[t].op \in Ending
    BY <1>1, Busy DEF Sound, PlaceSound
  <1> QED BY <1>1, <1>2, EndingIs DEF Ending

LEMMA InspectingGoes ==
    ASSUME IInv, NEW t \in Threads, Inspecting(t),
           NEW r \in Works, r.op = task[t].op, r.at = task[t].at, r.id = task[t].id,
           r.called = task[t].called, r.verified = task[t].verified, r.hurt = task[t].hurt,
           r.step \in {"life", "name", "call", "tags"}, r.op = "undo" => r.step # "call",
           r.seen.list["ours"] # None => Landed /\ Ours.listed,
           r.step # "life" /\ r.seen.life \in {None, "stopped"} => Down,
           r.op = "undo" /\ r.step \in {"life", "name"} => Sighted(r),
           Now(t, r), Around(t)
    PROVE  IInv'
  <1>1. /\ Sound(t, task[t]) /\ Landed /\ r.id = "ours" /\ r.op \in Ending
        /\ r.at \in {"inspect", "await"} /\ (r.op = "undo" => Findable /\ (Down \/ r.hurt > 0))
    BY InspectingIs
  <1>2. PlaceSound(t, r)
    BY <1>1, InspectingIs DEF Sound, PlaceSound
  <1>3. SeenSound(r)
    BY <1>1 DEF SeenSound
  <1>4. LaunchSound(r) /\ SurveySound(r) /\ ResultSound(t, r) /\ ~Waits(t, r)
    BY <1>1 DEF LaunchSound, SurveySound, ResultSound, Waits, Ending
  <1> QED BY <1>2, <1>3, <1>4, Moves DEF Sound

LEMMA NotStoppedGood ==
    ASSUME IInv, NEW t \in Threads, Inspecting(t), NotStopped(t), Around(t)
    PROVE  IInv'
  <1> DEFINE p == task[t]
  <1>1. /\ p \in Works /\ p.id = "ours" /\ Landed /\ p.op \in Ending /\ p.op # "idle"
        /\ t = Maker <=> p.op = "undo"
        /\ p.op = "undo" => /\ Training /\ p.verified /\ Findable /\ ~p.called
                            /\ (Down \/ p.hurt > 0)
        /\ p.op = "cancel" /\ p.called => callee = "ours"
    BY InspectingIs
  <1>2. \/ Now(t, GoTo(p, "await", "list")) \/ Now(t, GoTo(p, "reverify", "list"))
        \/ Now(t, GoTo(p, "halt", "stop")) \/ (p.op = "panic" /\ Refuses(t))
    BY DEF NotStopped, Inspection
  <1>3. CASE p.op = "panic" /\ Refuses(t)
    BY <1>1, <1>3, Refuse
  <1>4. CASE Now(t, GoTo(p, "await", "list"))
    BY <1>1, <1>4, EndingGoes DEF Steps
  <1>5. CASE Now(t, GoTo(p, "reverify", "list"))
    BY <1>1, <1>5, EndingGoes DEF Steps
  <1>6. CASE Now(t, GoTo(p, "halt", "stop"))
    BY <1>1, <1>6, EndingGoes DEF Steps
  <1> QED BY <1>2, <1>3, <1>4, <1>5, <1>6

LEMMA StoppedGood ==
    ASSUME IInv, NEW t \in Threads, Inspecting(t), Stopped(t), Around(t), Down
    PROVE  IInv'
  <1>1. task[t] \in Works /\ task[t].id = "ours"
    BY InspectingIs
  <1>2. PICK r \in Idles : /\ Now(t, r) /\ r.op = "idle" /\ r.is \in {"failed", "stopped"}
                           /\ r.id = "ours"
    <2>1. PICK is \in {"failed", "stopped"} : Now(t, Result(task[t], is))
      BY DEF Stopped, Ends
    <2> QED BY <1>1, <2>1, Results
  <1>3. Sound(t, r) /\ ~Waits(t, r)
    BY <1>2 DEF Sound, PlaceSound, SeenSound, LaunchSound, SurveySound, ResultSound, Waits, None
  <1> QED BY <1>2, <1>3, Moves

(* The judgement is right if what it goes by is: the App's lifecycle by    *)
(* its ID was read at some moment of the inspection.                       *)
LEMMA JudgesGood ==
    ASSUME IInv, NEW t \in Threads, Inspecting(t), NEW seen \in Answers, Judges(t, seen),
           Around(t),
           seen.list["ours"] # None => Landed /\ Ours.listed,
           seen.life \in {None, "stopped"} => Down,
           task[t].op = "undo" => Down \/ Addressable(t, seen)
    PROVE  IInv'
  <1> DEFINE p == task[t]
  <1>1. p \in Works /\ p.op # "idle" /\ p.op # "launch"
    BY InspectingIs
  <1>2. CASE NotStopped(t)
    BY <1>2, NotStoppedGood
  <1>3. CASE Stopped(t) /\ Down
    BY <1>3, StoppedGood
  <1>4. CASE Refuses(t) /\ ~Addressable(t, seen)
    BY <1>1, <1>4, Refuse
  <1>5. CASE Now(t, [p EXCEPT !.seen = seen, !.step = "tags"])
    <2> DEFINE q == [p EXCEPT !.seen = seen, !.step = "tags"]
    <2>1. /\ q \in Works /\ q.op = p.op /\ q.at = p.at /\ q.id = p.id /\ q.called = p.called
          /\ q.verified = p.verified /\ q.hurt = p.hurt /\ q.seen = seen /\ q.step = "tags"
      BY <1>1 DEF Works, Steps
    <2>2. Now(t, q)
      BY <1>5
    <2> HIDE DEF q
    <2> QED BY <2>1, <2>2, InspectingGoes
  <1> QED BY <1>2, <1>3, <1>4, <1>5 DEF Judges, Exists, ProvenStopped

LEMMA InspectListsGood == ASSUME IInv, NEW t \in Threads, InspectLists(t) PROVE IInv'
  <1> DEFINE p == task[t]
  <1>1. PICK l \in Lists : Now(t, [p EXCEPT !.seen.list = Entry(t, l), !.step = "life"])
    BY DEF InspectLists
  <1> DEFINE q == [p EXCEPT !.seen.list = Entry(t, l), !.step = "life"]
  <1>2. Inspecting(t) /\ p \in Works /\ p.id = "ours" /\ (p.op = "undo" => Findable) /\ Landed
    BY InspectingIs DEF InspectLists
  <1>3. /\ q \in Works /\ q.op = p.op /\ q.at = p.at /\ q.id = p.id /\ q.called = p.called
        /\ q.verified = p.verified /\ q.hurt = p.hurt /\ q.step = "life"
        /\ q.seen.list["ours"] = l["ours"]
    BY <1>2, Entries DEF Works, Answers, Steps
  <1>4. q.op = "undo" => Sighted(q)
    BY <1>2, <1>3, ListsSound, OursIsUp DEF Sighted, Findable
  <1>5. Now(t, q)
    BY <1>1
  <1> HIDE DEF q
  <1> QED BY <1>2, <1>3, <1>4, <1>5, ListsSound, InspectingGoes, Undisturbed DEF InspectLists

LEMMA InspectLifeGood == ASSUME IInv, NEW t \in Threads, InspectLife(t) PROVE IInv'
  <1> DEFINE p == task[t]
             q == [p EXCEPT !.seen.life = LifeOf(p.id), !.step = "name"]
  <1>1. /\ Inspecting(t) /\ p \in Works /\ p.id = "ours" /\ Landed /\ p.step = "life"
        /\ Sound(t, p) /\ p.op # "idle" /\ p.at \in {"inspect", "await"}
    BY InspectingIs DEF InspectLife, Step
  <1>2. LifeOf("ours") \in Lives \cup {None} /\ (LifeOf("ours") \in {None, "stopped"} => Down)
    BY <1>1 DEF LifeOf, IInv, Typed, AppRecords, Lives, Active, Landed, Down, Ours, Apps, None
  <1>3. /\ q \in Works /\ q.op = p.op /\ q.at = p.at /\ q.id = p.id /\ q.called = p.called
        /\ q.verified = p.verified /\ q.hurt = p.hurt /\ q.step = "name"
        /\ q.seen.list = p.seen.list /\ q.seen.life = LifeOf("ours")
    BY <1>1, <1>2 DEF Works, Answers, Steps
  <1>4. /\ p.seen.list["ours"] # None => Landed /\ Ours.listed
        /\ p.op = "undo" => Sighted(p)
    BY <1>1 DEF Sound, SeenSound, LaunchSound, Inspected
  <1>5. Now(t, q)
    BY DEF InspectLife
  <1> HIDE DEF q
  <1>6. q.op = "undo" => Sighted(q)
    BY <1>3, <1>4 DEF Sighted
  <1> QED BY <1>1, <1>2, <1>3, <1>4, <1>5, <1>6, InspectingGoes, Undisturbed DEF InspectLife

LEMMA InspectNameGood == ASSUME IInv, NEW t \in Threads, InspectName(t) PROVE IInv'
  <1> DEFINE p == task[t]
  <1>1. /\ Inspecting(t) /\ p \in Works /\ p.id = "ours" /\ Landed /\ p.step = "name"
        /\ Sound(t, p) /\ p.op # "idle" /\ p.at \in {"inspect", "await"}
        /\ (p.op = "undo" => ~p.called)
    BY InspectingIs DEF InspectName, Step
  <1>2. PICK a \in Names : IF p.called
                             THEN Now(t, [p EXCEPT !.seen = [p.seen EXCEPT !.name = a],
                                                   !.step = "call"])
                             ELSE Judges(t, [p.seen EXCEPT !.name = a])
    BY DEF InspectName
  <1>3. PICK seen \in Answers : /\ seen = [p.seen EXCEPT !.name = a] /\ seen.list = p.seen.list
                                /\ seen.life = p.seen.life /\ seen.name = a
    <2>1. p.seen \in Answers /\ a \in Apps \cup {None}
      BY <1>1, NamesSound DEF Works
    <2> DEFINE q == [p.seen EXCEPT !.name = a]
    <2>2. q \in Answers /\ q.list = p.seen.list /\ q.life = p.seen.life /\ q.name = a
      BY <2>1 DEF Answers
    <2> QED BY <2>2
  <1>4. /\ seen.list["ours"] # None => Landed /\ Ours.listed
        /\ seen.life \in {None, "stopped"} => Down
        /\ p.op = "undo" => Sighted(p)
    BY <1>1, <1>3 DEF Sound, SeenSound, LaunchSound, Inspected
  <1>5. CASE p.called /\ Now(t, [p EXCEPT !.seen = seen, !.step = "call"])
    <2> DEFINE q == [p EXCEPT !.seen = seen, !.step = "call"]
    <2>1. /\ q \in Works /\ q.op = p.op /\ q.at = p.at /\ q.id = p.id /\ q.called = p.called
          /\ q.verified = p.verified /\ q.hurt = p.hurt /\ q.seen = seen /\ q.step = "call"
      BY <1>1 DEF Works, Steps
    <2>2. Now(t, q)
      BY <1>5
    <2> HIDE DEF q
    <2> QED BY <1>1, <1>4, <1>5, <2>1, <2>2, InspectingGoes, Undisturbed DEF InspectName
  <1>6. CASE ~p.called /\ Judges(t, seen)
    <2>1. p.op = "undo" => Down \/ Addressable(t, seen)
      BY <1>1, <1>3, <1>4, NamesSound, OursIsUp DEF Sighted, Addressable, None
    <2> QED BY <1>1, <1>4, <1>6, <2>1, JudgesGood, Undisturbed DEF InspectName
  <1> QED BY <1>2, <1>3, <1>5, <1>6

LEMMA InspectCallGood == ASSUME IInv, NEW t \in Threads, InspectCall(t) PROVE IInv'
  <1> DEFINE p == task[t]
  <1>1. /\ Inspecting(t) /\ p \in Works /\ p.id = "ours" /\ p.step = "call"
        /\ Sound(t, p) /\ p.op # "idle" /\ p.at \in {"inspect", "await"} /\ p.op # "undo"
    BY InspectingIs DEF InspectCall, Step, Sound, PlaceSound
  <1>2. Around(t)
    BY Undisturbed DEF InspectCall
  <1>3. CASE Judges(t, [p.seen EXCEPT !.call = app[p.id].call])
    <2>1. PICK seen \in Answers : /\ Judges(t, seen) /\ seen.list = p.seen.list
                                  /\ seen.life = p.seen.life
      <3> DEFINE seen == [p.seen EXCEPT !.call = app[p.id].call]
      <3>1. app["ours"].call \in Calls
        BY DEF IInv, Typed, AppRecords, Apps
      <3>2. seen \in Answers /\ seen.list = p.seen.list /\ seen.life = p.seen.life
        BY <1>1, <3>1 DEF Works, Answers
      <3>3. Judges(t, seen)
        BY <1>3
      <3> HIDE DEF seen
      <3> QED BY <3>2, <3>3
    <2>2. /\ seen.list["ours"] # None => Landed /\ Ours.listed
          /\ seen.life \in {None, "stopped"} => Down
      BY <1>1, <2>1 DEF Sound, SeenSound, Inspected
    <2> QED BY <1>1, <1>2, <2>1, <2>2, JudgesGood
  <1>4. CASE Refuses(t)
    <2>1. p.op \notin {"launch", "undo"}
      BY <1>1, InspectingIs
    <2> QED BY <1>1, <1>2, <1>4, <2>1, Refuse
  <1> QED BY <1>3, <1>4 DEF InspectCall

LEMMA InspectTagsGood == ASSUME IInv, NEW t \in Threads, InspectTags(t) PROVE IInv'
  <1> DEFINE p == task[t]
  <1>1. /\ Inspecting(t) /\ p \in Works /\ p.id = "ours" /\ p.step = "tags"
        /\ Sound(t, p) /\ p.op # "idle" /\ p.at \in {"inspect", "await"} /\ p.op # "launch"
        /\ (p.op = "undo" => Findable)
    BY InspectingIs DEF InspectTags, Step
  <1>2. Around(t)
    BY Undisturbed DEF InspectTags
  <1>3. CASE ~Mine(TagOf(p.id)) /\ Refuses(t)
    <2>1. ~Ours.tagged
      BY <1>1, <1>3 DEF Mine, TagOf, Ours
    <2> QED BY <1>1, <1>2, <1>3, <2>1, Refuse DEF Findable
  <1>4. CASE Effective(t, p.seen) = "stopped" /\ Stopped(t)
    <2>1. p.seen.life \in {None, "stopped"}
      BY <1>4 DEF Effective
    <2>2. Down
      BY <1>1, <2>1 DEF Sound, SeenSound, Inspected
    <2> QED BY <1>1, <1>2, <1>4, <2>2, StoppedGood
  <1>5. CASE NotStopped(t)
    BY <1>1, <1>2, <1>5, NotStoppedGood
  <1> QED BY <1>3, <1>4, <1>5 DEF InspectTags

-----------------------------------------------------------------------------
(* Stopping and cancelling *)

LEMMA OurFields ==
    ASSUME IInv, NEW life \in Lives, NEW call \in Calls,
           app' = [app EXCEPT !["ours"].life = life, !["ours"].call = call]
    PROVE  /\ app' \in [Apps -> AppRecords] /\ app'["theirs"] = app["theirs"]
           /\ app'["ours"].life = life /\ app'["ours"].call = call
           /\ app'["ours"].tagged = Ours.tagged /\ app'["ours"].listed = Ours.listed
           /\ app'["ours"].named = Ours.named
  <1>1. app \in [Apps -> AppRecords] /\ "ours" \in Apps /\ "theirs" \in Apps
    BY DEF IInv, Typed, Apps
  <1>2. app["ours"] \in AppRecords
    BY <1>1
  <1> QED BY <1>1, <1>2 DEF AppRecords, Ours

(* Its life goes on within what it was: one way down, and never up again.  *)
LEMMA LifeDrifts ==
    ASSUME IInv, UNCHANGED <<kind, callee>>, app' \in [Apps -> AppRecords], app'["theirs"] = app["theirs"],
           app'["ours"].tagged = Ours.tagged, app'["ours"].listed = Ours.listed,
           app'["ours"].named = Ours.named,
           \/ app'["ours"].life = Ours.life
           \/ Ours.life \in Active /\ app'["ours"].life = "stopped"
           \/ /\ Ours.life \in {"running", "busy", "draining"}
              /\ app'["ours"].life \in {"running", "busy", "draining"}
    PROVE  Drifts
  <1>1. AppsSound'
    BY DEF AppsSound, IInv, Landed, Ours, Up, Active, Down
  <1> QED BY <1>1 DEF Drifts, Down, Landed, Ours, Active, IInv, Typed

LEMMA HaltDrifts ==
    ASSUME IInv, app' = Halted("ours"), UNCHANGED <<kind, callee>>
    PROVE  Drifts /\ Restrained
  <1> DEFINE life == IF Ours.life = "busy" THEN "draining"
                     ELSE IF Ours.life \in Active \ {"draining"} THEN "stopped" ELSE Ours.life
             call == IF Ours.call = "pending" THEN "over" ELSE Ours.call
  <1>1. Ours \in AppRecords /\ app \in [Apps -> AppRecords] /\ "ours" \in Apps
    BY DEF IInv, Typed, Ours, Apps
  <1>2. life \in Lives /\ call \in Calls
    BY <1>1 DEF AppRecords, Lives, Calls, Active
  <1>3. app' = [app EXCEPT !["ours"].life = life, !["ours"].call = call]
    BY <1>1 DEF Halted, Ours, AppRecords
  <1>4. /\ life = Ours.life \/ (Ours.life \in Active /\ life = "stopped")
           \/ (Ours.life \in {"running", "busy", "draining"} /\ life \in {"running", "busy", "draining"})
        /\ call \in {"pending", "running"} => Ours.call \in {"pending", "running"}
        /\ life \in {"busy", "draining"} => Ours.life \in {"busy", "draining"}
    BY DEF Active
  <1> HIDE DEF life, call
  <1>5. /\ app'["ours"].life = life /\ app'["ours"].call = call
        /\ app' \in [Apps -> AppRecords] /\ app'["theirs"] = app["theirs"]
        /\ app'["ours"].tagged = Ours.tagged /\ app'["ours"].listed = Ours.listed
        /\ app'["ours"].named = Ours.named
    BY <1>2, <1>3, OurFields
  <1>6. Drifts
    BY <1>4, <1>5, LifeDrifts
  <1>7. Restrained
    BY <1>4, <1>5 DEF Restrained, Uncalled, Ours
  <1> QED BY <1>6, <1>7

LEMMA CancelDrifts ==
    ASSUME IInv, app' = Cancelled("ours"), UNCHANGED <<kind, callee>>
    PROVE  Drifts /\ Restrained
  <1> DEFINE life == IF Ours.life = "busy" THEN "running" ELSE Ours.life
  <1>1. Ours \in AppRecords /\ app \in [Apps -> AppRecords] /\ "ours" \in Apps
    BY DEF IInv, Typed, Ours, Apps
  <1>2. life \in Lives /\ "over" \in Calls
    BY <1>1 DEF AppRecords, Lives, Calls, Active
  <1>3. app' = [app EXCEPT !["ours"].life = life, !["ours"].call = "over"]
    BY <1>1 DEF Cancelled, Ours, AppRecords
  <1>4. /\ life = Ours.life \/ (Ours.life = "busy" /\ life = "running")
        /\ life \in {"busy", "draining"} => Ours.life \in {"busy", "draining"}
    OBVIOUS
  <1> HIDE DEF life
  <1>5. /\ app'["ours"].life = life /\ app'["ours"].call = "over"
        /\ app' \in [Apps -> AppRecords] /\ app'["theirs"] = app["theirs"]
        /\ app'["ours"].tagged = Ours.tagged /\ app'["ours"].listed = Ours.listed
        /\ app'["ours"].named = Ours.named
    BY <1>2, <1>3, OurFields
  <1>6. Drifts
    BY <1>4, <1>5, LifeDrifts
  <1>7. Restrained
    BY <1>4, <1>5 DEF Restrained, Uncalled, Ours
  <1> QED BY <1>6, <1>7

(* A thread that is about to stop or cancel does so to the App it has.     *)
LEMMA EndsIs ==
    ASSUME IInv, NEW t \in Threads, At(t, "halt") \/ At(t, "recall")
    PROVE  task[t].op \in Ending /\ task[t].id = "ours"
  <1>1. task[t].op # "idle" /\ task[t].at \in {"halt", "recall"}
    BY DEF At
  <1> QED BY <1>1, Busy DEF Sound, PlaceSound

LEMMA HaltsGood == ASSUME IInv, NEW t \in Threads, Halts(t) PROVE IInv'
  <1> DEFINE p == task[t]
  <1>1. /\ p \in Works /\ Sound(t, p) /\ p.op \in Ending /\ p.id = "ours" /\ Landed
        /\ p.at = "halt" /\ (t = Maker <=> p.op = "undo")
        /\ p.op = "undo" => /\ Training /\ p.verified /\ Findable /\ ~p.called
                            /\ (Down \/ p.hurt > 0)
        /\ p.op = "cancel" /\ p.called => callee = "ours"
    BY EndsIs, EndingIs DEF Halts, At
  <1>2. Around(t)
    BY <1>1, HaltDrifts DEF Halts, Around, Fine, IInv, Typed
  <1>3. Now(t, GoTo(p, "await", "list"))
    BY DEF Halts, Inspection
  <1> QED BY <1>1, <1>2, <1>3, EndingGoes DEF Steps

(* The cancellation is left to the stop that follows.                      *)
LEMMA RecallGoes ==
    ASSUME IInv, NEW t \in Threads, At(t, "recall"), NEW r \in Works, r.op = task[t].op,
           r.id = task[t].id, r.verified = task[t].verified,
           r.op = "undo" => ~r.called /\ (Down \/ r.hurt > 0), Around(t),
           Now(t, GoTo(r, "inspect", "list"))
    PROVE  IInv'
  <1>1. /\ task[t].op \in Ending /\ task[t].id = "ours" /\ Landed
        /\ t = Maker <=> task[t].op = "undo"
        /\ task[t].op = "undo" => Training /\ task[t].verified /\ Findable
        /\ task[t].op = "cancel" => callee = "ours"
    BY EndsIs, EndingIs DEF At
  <1> QED BY <1>1, EndingGoes DEF Steps

LEMMA RecallsGood == ASSUME IInv, NEW t \in Threads, Recalls(t) PROVE IInv'
  <1> DEFINE p == task[t]
  <1>1. /\ p \in Works /\ Sound(t, p) /\ p.op \in Ending /\ p.op # "idle" /\ p.id = "ours" /\ Landed
        /\ p.at = "recall" /\ (t = Maker <=> p.op = "undo")
        /\ p.op = "undo" => Down \/ p.hurt > 0
        /\ p.op = "cancel" => callee = "ours"
    BY EndsIs, EndingIs DEF Recalls, At
  <1>2. CASE ItsCall(t) /\ Now(t, [p EXCEPT !.step = "cancel"]) /\ UNCHANGED app
    <2> DEFINE q == [p EXCEPT !.step = "cancel"]
    <2>1. /\ q \in Works /\ q.op = p.op /\ q.at = "recall" /\ q.id = p.id /\ q.called = p.called
          /\ q.verified = p.verified /\ q.hurt = p.hurt /\ q.seen = p.seen /\ q.step = "cancel"
          /\ q.owned = p.owned
      BY <1>1 DEF Works, Steps
    <2>2. Now(t, q)
      BY <1>2
    <2> HIDE DEF q
    <2>3. PlaceSound(t, q) /\ SeenSound(q)
      BY <1>1, <1>2, <2>1 DEF Sound, PlaceSound, SeenSound, Inspected, ItsCall
    <2>4. LaunchSound(q) /\ SurveySound(q) /\ ResultSound(t, q) /\ ~Waits(t, q)
      BY <1>1, <2>1 DEF Sound, LaunchSound, SurveySound, ResultSound, Waits, Inspected, Ending
    <2>5. Around(t)
      BY <1>2, Calm DEF Recalls, Fine, IInv, Typed
    <2> QED BY <2>1, <2>2, <2>3, <2>4, <2>5, Moves DEF Sound
  <1>3. CASE /\ ~ItsCall(t) /\ UNCHANGED app
             /\ Now(t, GoTo([p EXCEPT !.op = "undo", !.called = FALSE], "inspect", "list"))
    <2>1. p.op = "undo"
      <3>1. p.op # "cancel"
        BY <1>1, <1>3 DEF ItsCall
      <3>2. t = Maker \/ p.op = "cancel"
        BY <1>1 DEF Sound, PlaceSound, Ending
      <3> QED BY <1>1, <3>1, <3>2
    <2>2. Around(t)
      BY <1>3, Calm DEF Recalls, Fine, IInv, Typed
    <2> DEFINE q == [p EXCEPT !.op = "undo", !.called = FALSE]
    <2>3. /\ q \in Works /\ q.op = p.op /\ q.id = p.id /\ q.verified = p.verified
          /\ q.hurt = p.hurt /\ ~q.called
      BY <1>1, <2>1 DEF Works
    <2>4. Now(t, GoTo(q, "inspect", "list")) /\ At(t, "recall")
      BY <1>3 DEF Recalls
    <2> HIDE DEF q
    <2> QED BY <1>1, <2>2, <2>3, <2>4, RecallGoes
  <1>4. CASE /\ Step(t, "cancel") /\ app' = Cancelled(callee)
             /\ Now(t, GoTo([p EXCEPT !.called = (p.op = "cancel")], "inspect", "list"))
    <2>1. Around(t)
      <3>1. app' = Cancelled("ours")
        BY <1>1, <1>4 DEF Step, Sound, PlaceSound
      <3> QED BY <1>1, <3>1, CancelDrifts DEF Recalls, Around, Fine, IInv, Typed
    <2> DEFINE q == [p EXCEPT !.called = (p.op = "cancel")]
    <2>2. /\ q \in Works /\ q.op = p.op /\ q.id = p.id /\ q.verified = p.verified
          /\ q.hurt = p.hurt /\ (q.op = "undo" => ~q.called)
      BY <1>1 DEF Works
    <2>3. Now(t, GoTo(q, "inspect", "list")) /\ At(t, "recall")
      BY <1>4 DEF Recalls
    <2> HIDE DEF q
    <2> QED BY <1>1, <2>1, <2>2, <2>3, RecallGoes
  <1> QED BY <1>2, <1>3, <1>4 DEF Recalls, StepTo, Inspection

LEMMA StopsGood == ASSUME IInv, NEW t \in Others, Stops(t) PROVE IInv'
  <1>1. t \in Threads /\ t # Maker
    BY TargetAssumption DEF Threads
  <1>2. PICK a \in known, called \in {FALSE, Training /\ task[Maker].is = "handle"} :
            \/ Now(t, Begin("stop", "inspect", "list", a, called))
            \/ Training /\ Now(t, Begin("cancel", "verify", "list", a, called))
            \/ ~called /\ Now(t, Begin("panic", "verify", "list", a, FALSE))
    BY DEF Stops
  <1>3. a = "ours" /\ Landed
    BY DEF IInv, Typed
  <1>4. ASSUME NEW op \in {"stop", "cancel", "panic"}, NEW at \in {"inspect", "verify"},
               NEW c \in BOOLEAN, c => callee = "ours", Now(t, Begin(op, at, "list", "ours", c))
        PROVE  IInv'
    <2> DEFINE q == Begin(op, at, "list", "ours", c)
    <2>1. /\ q \in Works /\ q.op = op /\ q.at = at /\ q.step = "list" /\ q.id = "ours"
          /\ q.seen = Unseen /\ ~q.verified /\ (q.called <=> c)
      BY Unseens DEF Begin, Works, Ops, Places, Steps, Apps
    <2>2. Now(t, q)
      BY <1>4
    <2> HIDE DEF q
    <2>3. PlaceSound(t, q)
      BY <1>1, <1>4, <2>1 DEF PlaceSound, Ending
    <2>4. SeenSound(q) /\ LaunchSound(q) /\ SurveySound(q) /\ ResultSound(t, q) /\ ~Waits(t, q)
      BY <1>1, <1>3, <2>1, Unseens DEF SeenSound, LaunchSound, SurveySound, ResultSound,
         Waits, Inspected
    <2> QED BY <1>1, <2>1, <2>2, <2>3, <2>4, Moves, Undisturbed DEF Sound, Stops
  <1>5. called \in BOOLEAN /\ (called => callee = "ours")
    <2>1. Sound(Maker, task[Maker]) /\ task[Maker] \in Idles \cup Works
      BY MakerLaunches DEF IInv, Typed
    <2>2. task[Maker].is = "handle" => task[Maker].op = "idle"
      BY <2>1 DEF Idles, Works, None
    <2> QED BY <2>1, <2>2 DEF Training, Sound, ResultSound
  <1> QED BY <1>2, <1>3, <1>4, <1>5

-----------------------------------------------------------------------------
(* Listing *)

LEMMA SurveyGoes ==
    ASSUME IInv, NEW t \in Threads, t # Maker, NEW r \in Works, r.op = "survey",
           r.at = "survey", r.step # "cancel", SeenSound(r), SurveySound(r),
           Now(t, r), Around(t)
    PROVE  IInv'
  <1>1. PlaceSound(t, r)
    BY DEF PlaceSound, Ending
  <1>2. LaunchSound(r) /\ ResultSound(t, r) /\ ~Waits(t, r)
    BY DEF LaunchSound, ResultSound, Waits
  <1> QED BY <1>1, <1>2, Moves DEF Sound

LEMMA SurveyingIs ==
    ASSUME IInv, NEW t \in Threads, At(t, "survey")
    PROVE  /\ task[t] \in Works /\ task[t].op = "survey" /\ task[t].at = "survey" /\ t # Maker
           /\ SeenSound(task[t]) /\ SurveySound(task[t])
  <1>1. task[t].op # "idle" /\ task[t].at = "survey"
    BY DEF At
  <1> QED BY <1>1, Busy DEF Sound, PlaceSound

LEMMA SurveysGood == ASSUME IInv, NEW t \in Others, Surveys(t) PROVE IInv'
  <1>1. t \in Threads /\ t # Maker
    BY TargetAssumption DEF Threads
  <1> DEFINE q == Begin("survey", "survey", "list", None, FALSE)
  <1>2. /\ q \in Works /\ q.op = "survey" /\ q.at = "survey" /\ q.step = "list" /\ q.id = None
        /\ q.seen = Unseen /\ q.owned = {} /\ q.shown = {}
    BY Unseens DEF Begin, Works, Ops, Places, Steps
  <1>3. Now(t, q)
    BY DEF Surveys
  <1> HIDE DEF q
  <1>4. SeenSound(q) /\ SurveySound(q)
    BY <1>2, Unseens DEF SeenSound, SurveySound, Inspected, None
  <1> QED BY <1>1, <1>2, <1>3, <1>4, SurveyGoes, Undisturbed DEF Surveys

LEMMA SurveyListsGood == ASSUME IInv, NEW t \in Threads, SurveyLists(t) PROVE IInv'
  <1> DEFINE p == task[t]
  <1>1. /\ p \in Works /\ p.op = "survey" /\ p.at = "survey" /\ t # Maker
        /\ SeenSound(p) /\ SurveySound(p)
    BY SurveyingIs DEF SurveyLists
  <1>2. PICK l \in Lists :
            LET found == {a \in Apps : l[a] # None} IN
            Now(t, [p EXCEPT !.seen.list = l, !.left = found, !.step = "tags",
                             !.shown = {a \in found : a = "ours" /\ Up(a)}])
    BY DEF SurveyLists
  <1> DEFINE found == {a \in Apps : l[a] # None}
             shown == {a \in found : a = "ours" /\ Up(a)}
             q == [p EXCEPT !.seen.list = l, !.left = found, !.step = "tags", !.shown = shown]
  <1>3. /\ q \in Works /\ q.op = "survey" /\ q.at = "survey" /\ q.step = "tags" /\ q.id = p.id
        /\ q.owned = p.owned /\ q.seen.list = l /\ q.seen.name = p.seen.name
        /\ q.left = found /\ q.shown = shown
    BY <1>1, ListsSound DEF Works, Answers, Steps
  <1>4. shown \subseteq {"ours"} /\ shown \subseteq found /\ (shown # {} => Up("ours"))
    OBVIOUS
  <1>5. "ours" \in shown => l["ours"] \in Active
    <2>1. l["ours"] \in InList("ours") /\ "ours" \in Apps
      BY DEF Lists, Apps
    <2> QED BY <2>1 DEF InList, Up, None
  <1>6. Now(t, q)
    BY <1>2
  <1> HIDE DEF q, found, shown
  <1>7. SeenSound(q)
    BY <1>1, <1>3, ListsSound DEF SeenSound, Inspected
  <1>8. SurveySound(q)
    BY <1>1, <1>3, <1>4, <1>5 DEF SurveySound
  <1> QED BY <1>1, <1>3, <1>6, <1>7, <1>8, SurveyGoes, Undisturbed DEF SurveyLists

(* One App of the list is left behind: ours is owned then, or in doubt.    *)
LEMMA SurveyLeaves ==
    ASSUME IInv, NEW t \in Threads, At(t, "survey"), NEW a \in Apps,
           NEW r \in Works, r.op = "survey", r.at = "survey", r.step = "tags",
           r.left = task[t].left \ {a}, r.shown = task[t].shown, r.seen = task[t].seen,
           r.id = task[t].id, r.owned \in {task[t].owned, task[t].owned \cup {a}},
           a \in r.owned => a = "ours" /\ Landed,
           task[t].doubt => r.doubt,
           a = "ours" /\ "ours" \in r.shown => "ours" \in r.owned \/ r.doubt \/ Down,
           Now(t, r), Around(t)
    PROVE  IInv'
  <1>1. /\ task[t] \in Works /\ t # Maker /\ task[t].op = "survey" /\ task[t].at = "survey"
        /\ SeenSound(task[t]) /\ SurveySound(task[t])
    BY SurveyingIs
  <1>2. SeenSound(r)
    BY <1>1 DEF SeenSound, Inspected
  <1>3. SurveySound(r)
    BY <1>1 DEF SurveySound
  <1> QED BY <1>1, <1>2, <1>3, SurveyGoes

LEMMA SurveyTagsGood == ASSUME IInv, NEW t \in Threads, SurveyTags(t) PROVE IInv'
  <1> DEFINE p == task[t]
  <1>1. /\ p \in Works /\ p.op = "survey" /\ p.at = "survey" /\ t # Maker /\ p.left \subseteq Apps
        /\ SeenSound(p) /\ SurveySound(p)
    BY SurveyingIs DEF SurveyTags, Works
  <1>2. Around(t) /\ At(t, "survey")
    BY Undisturbed DEF SurveyTags
  <1>3. ASSUME NEW a \in p.left, Skips(t, a) PROVE IInv'
    <2> DEFINE unsure == TagOf(a) = None /\ p.seen.list[a] # "stopped"
               q == [p EXCEPT !.left = @ \ {a}, !.doubt = @ \/ unsure]
    <2>1. /\ q \in Works /\ q.op = "survey" /\ q.at = "survey" /\ q.left = p.left \ {a}
          /\ q.shown = p.shown /\ q.seen = p.seen /\ q.id = p.id /\ q.owned = p.owned
          /\ q.step = p.step /\ (q.doubt <=> p.doubt \/ unsure)
      BY <1>1 DEF Works
    <2>2. Now(t, q) /\ p.step = "tags"
      BY <1>3 DEF Skips, SurveyTags, Step
    <2>3. a = "ours" /\ "ours" \in p.shown => unsure
      <3>1. a = "ours" => TagOf(a) = None
        BY <1>3 DEF Skips, Mine, TagOf
      <3>2. "ours" \in p.shown => p.seen.list["ours"] # "stopped"
        BY <1>1 DEF SurveySound, Active
      <3> QED BY <3>1, <3>2
    <2>4. "ours" \in p.owned => Landed /\ p.owned \subseteq {"ours"}
      BY <1>1 DEF SeenSound, SurveySound
    <2>5. p.owned \subseteq {"ours"}
      BY <1>1 DEF SurveySound
    <2> HIDE DEF q, unsure
    <2> QED BY <1>1, <1>2, <2>1, <2>2, <2>3, <2>4, <2>5, SurveyLeaves
  <1>4. ASSUME NEW a \in p.left, Mine(TagOf(a)), Now(t, [p EXCEPT !.id = a, !.step = "life"])
        PROVE  IInv'
    <2> DEFINE q == [p EXCEPT !.id = a, !.step = "life"]
    <2>1. /\ q \in Works /\ q.op = "survey" /\ q.at = "survey" /\ q.left = p.left
          /\ q.shown = p.shown /\ q.seen = p.seen /\ q.id = a /\ q.owned = p.owned
          /\ q.step = "life" /\ q.doubt = p.doubt
      BY <1>1 DEF Works, Steps
    <2>2. Now(t, q)
      BY <1>4
    <2>3. a = "ours" /\ Landed
      BY <1>1, <1>4, Tags
    <2> HIDE DEF q
    <2>4. SeenSound(q)
      BY <1>1, <2>1, <2>3 DEF SeenSound, Inspected
    <2>5. SurveySound(q)
      BY <1>1, <2>1, <2>3 DEF SurveySound
    <2> QED BY <1>1, <1>2, <2>1, <2>2, <2>4, <2>5, SurveyGoes
  <1> QED BY <1>3, <1>4 DEF SurveyTags

LEMMA SurveyLifeGood == ASSUME IInv, NEW t \in Threads, SurveyLife(t) PROVE IInv'
  <1> DEFINE p == task[t]
             a == p.id
             life == IF LifeOf(a) # None THEN LifeOf(a) ELSE p.seen.list[a]
             gone == life = "stopped" /\ p.seen.list[a] \notin Tasks
             q == [p EXCEPT !.left = @ \ {a}, !.step = "tags",
                            !.owned = IF gone THEN @ ELSE @ \cup {a}]
  <1>1. /\ p \in Works /\ p.op = "survey" /\ p.at = "survey" /\ t # Maker /\ p.step = "life"
        /\ SeenSound(p) /\ SurveySound(p)
    BY SurveyingIs DEF SurveyLife, Step
  <1>2. Around(t) /\ At(t, "survey")
    BY Undisturbed DEF SurveyLife
  <1>3. a = "ours" /\ Landed /\ p.owned \subseteq {"ours"} /\ "ours" \in Apps
    BY <1>1 DEF SeenSound, SurveySound, Apps
  <1>4. gone => Down
    <2>1. Ours.life \in Lives
      BY <1>3 DEF IInv, Typed, AppRecords, Ours
    <2> QED BY <1>3, <2>1 DEF LifeOf, Landed, Down, Ours, None, Lives, Active
  <1>5. /\ q \in Works /\ q.op = "survey" /\ q.at = "survey" /\ q.left = p.left \ {a}
        /\ q.shown = p.shown /\ q.seen = p.seen /\ q.id = a /\ q.doubt = p.doubt /\ q.step = "tags"
        /\ q.owned = IF gone THEN p.owned ELSE p.owned \cup {a}
    BY <1>1, <1>3 DEF Works, Steps
  <1>6. Now(t, q)
    BY DEF SurveyLife
  <1> HIDE DEF q, gone, life
  <1>7. q.owned \in {p.owned, p.owned \cup {a}} /\ ("ours" \in q.owned \/ Down)
    BY <1>3, <1>4, <1>5
  <1> QED BY <1>1, <1>2, <1>3, <1>5, <1>6, <1>7, SurveyLeaves

LEMMA SurveyEndsGood == ASSUME IInv, NEW t \in Threads, SurveyEnds(t) PROVE IInv'
  <1> DEFINE p == task[t]
  <1>1. /\ p \in Works /\ p.op = "survey" /\ t # Maker /\ p.left = {}
        /\ SeenSound(p) /\ SurveySound(p)
    BY SurveyingIs DEF SurveyEnds
  <1>2. p.owned \subseteq {"ours"} /\ p.shown \subseteq {"ours"} /\ ("ours" \in p.owned => Landed)
    BY <1>1 DEF SeenSound, SurveySound
  <1>3. Around(t)
    <2>1. UNCHANGED <<kind, app, callee, flight, faults>> /\ known' = known \cup p.owned
      BY DEF SurveyEnds, modal, Fine
    <2>2. UNCHANGED known \/ (known' \subseteq {"ours"} /\ Landed)
      BY <1>2, <2>1 DEF IInv, Typed
    <2> QED BY <2>1, <2>2, Calm DEF IInv, Typed
  <1>4. CASE p.doubt
    <2>1. PICK r \in Idles : Now(t, r) /\ r.op = "idle" /\ r.is = "failed"
      <3>1. /\ Came("failed") \in Idles /\ Came("failed").op = "idle"
            /\ Came("failed").is = "failed"
        BY DEF Came, Idles
      <3> QED BY <1>4, <3>1 DEF SurveyEnds
    <2>2. Sound(t, r) /\ ~Waits(t, r)
      BY <1>1, <2>1 DEF Sound, PlaceSound, SeenSound, LaunchSound, SurveySound, ResultSound, Waits
    <2> QED BY <1>3, <2>1, <2>2, Moves
  <1>5. CASE ~p.doubt
    <2> DEFINE q == [Came("listed") EXCEPT !.shown = p.shown, !.owned = p.owned]
    <2>1. /\ q \in Idles /\ q.op = "idle" /\ q.is = "listed" /\ q.shown = p.shown
          /\ q.owned = p.owned
      BY <1>1 DEF Came, Idles, Works
    <2>2. Now(t, q)
      BY <1>5 DEF SurveyEnds
    <2> HIDE DEF q
    <2>3. "ours" \in q.shown => "ours" \in q.owned \/ Down
      BY <1>1, <1>5, <2>1 DEF SurveySound
    <2>4. Sound(t, q) /\ ~Waits(t, q)
      BY <1>1, <1>2, <2>1, <2>3 DEF Sound, PlaceSound, SeenSound, LaunchSound, SurveySound,
         ResultSound, Waits
    <2> QED BY <1>3, <2>1, <2>2, <2>4, Moves
  <1> QED BY <1>4, <1>5

-----------------------------------------------------------------------------
(* A request fails *)

LEMMA MayHaveDoneDrifts ==
    ASSUME IInv, NEW t \in Threads, task[t].op # "idle",
           NEW done \in MayHaveDone(t), app' = done[1], callee' = done[2], UNCHANGED kind
    PROVE  Drifts /\ (Restrained \/ At(t, "spawn"))
  <1> DEFINE p == task[t]
  <1>1. /\ p.step = "cancel" => p.at = "recall" /\ callee = "ours"
        /\ p.at \in {"spawn", "halt"} => p.id = "ours"
        /\ p.at = "spawn" => Landed /\ callee = None
    BY Busy DEF Sound, PlaceSound, SeenSound, LaunchSound, Uncalled
  <1>2. \/ UNCHANGED <<app, callee>>
        \/ /\ p.at = "spawn"
           /\ \E a \in Takers : app' = [app EXCEPT ![a].call = "pending"] /\ callee' = a
        \/ p.at = "halt" /\ app' = Halted("ours") /\ UNCHANGED callee
        \/ p.at = "recall" /\ app' = Cancelled("ours") /\ UNCHANGED callee
    <2>1. CASE At(t, "spawn")
      <3>1. done \in {<<app, callee>>} \cup {<<Called(a), a>> : a \in Takers}
        <4>1. ~At(t, "halt") /\ ~Step(t, "cancel")
          BY <1>1, <2>1 DEF At, Step
        <4>2. CASE done = <<app, callee>>
          BY <4>2
        <4>3. CASE done # <<app, callee>>
          BY <2>1, <4>1, <4>3 DEF MayHaveDone
        <4> QED BY <4>2, <4>3
      <3>2. CASE done = <<app, callee>>
        BY <3>2
      <3>3. ASSUME NEW a \in Takers, done = <<Called(a), a>>
            PROVE  app' = [app EXCEPT ![a].call = "pending"] /\ callee' = a
        BY <3>3 DEF Called
      <3> QED BY <2>1, <3>1, <3>2, <3>3 DEF At
    <2>2. CASE At(t, "halt")
      BY <1>1, <2>2 DEF MayHaveDone, At, Step
    <2>3. CASE Step(t, "cancel")
      BY <1>1, <2>3 DEF MayHaveDone, At, Step
    <2>4. CASE ~At(t, "spawn") /\ ~At(t, "halt") /\ ~Step(t, "cancel")
      BY <2>4 DEF MayHaveDone
    <2> QED BY <2>1, <2>2, <2>3, <2>4
  <1>3. CASE UNCHANGED <<app, callee>>
    BY <1>3, Stays
  <1>4. ASSUME NEW a \in Takers, p.at = "spawn", callee' = a,
               app' = [app EXCEPT ![a].call = "pending"]
        PROVE  Drifts /\ At(t, "spawn")
    <2>1. a \in Apps /\ (a = "theirs" => Down) /\ callee = None
      BY <1>1, <1>4, TakersSound
    <2> QED BY <1>4, <2>1, CallDrifts DEF Calls, At
  <1>5. CASE p.at = "halt" /\ app' = Halted("ours") /\ UNCHANGED callee
    BY <1>5, HaltDrifts
  <1>6. CASE p.at = "recall" /\ app' = Cancelled("ours") /\ UNCHANGED callee
    BY <1>6, CancelDrifts
  <1> QED BY <1>2, <1>3, <1>4, <1>5, <1>6

LEMMA RequestFailsGood == ASSUME IInv, NEW t \in Threads, RequestFails(t) PROVE IInv'
  <1> DEFINE p == task[t]
             hurt == IF p.verified THEN p.hurt + 1 ELSE 0
             record == [p EXCEPT !.hurt = hurt]
  <1>1. p \in Works /\ Sound(t, p) /\ p.op # "idle"
    BY Busy DEF RequestFails
  <1>2. /\ hurt \in Nat /\ (p.verified => hurt > p.hurt) /\ p.hurt \in Nat
    BY <1>1 DEF Works
  <1>3. /\ record \in Works /\ record.op = p.op /\ record.at = p.at /\ record.step = p.step
        /\ record.id = p.id /\ record.called = p.called /\ record.verified = p.verified
        /\ record.hurt = hurt /\ record.seen = p.seen /\ record.owned = p.owned
        /\ record.left = p.left /\ record.shown = p.shown /\ record.doubt = p.doubt
    BY <1>1, <1>2 DEF Works
  <1>4. Drifts /\ (Restrained \/ p.at = "spawn")
    BY <1>1, MayHaveDoneDrifts DEF RequestFails, At
  <1>5. p.at = "spawn" => t = Maker
    BY <1>1 DEF Sound, PlaceSound
  <1>6. Around(t)
    <2>1. UNCHANGED <<kind, flight, known>> /\ faults' = faults + 1
      BY DEF RequestFails
    <2> QED BY <1>4, <1>5, <2>1 DEF Around, IInv, Typed
  <1>7. \/ p.at = "deploy" /\ Now(t, GoTo(record, "recover", "name"))
        \/ /\ p.at = "recall"
           /\ Now(t, GoTo([record EXCEPT !.called = (record.op = "cancel")], "inspect", "list"))
        \/ Inspecting(t) /\ p.step = "call" /\ Judges(t, record.seen)
        \/ p.at = "await" /\ Now(t, GoTo(record, "await", "list"))
        \/ /\ p.at = "survey" /\ p.step = "tags"
           /\ \E a \in record.left : Now(t, [record EXCEPT !.left = @ \ {a}, !.doubt = TRUE])
        \/ /\ p.at = "survey" /\ p.step = "life"
           /\ Now(t, [record EXCEPT !.left = @ \ {record.id}, !.doubt = TRUE,
                                    !.owned = @ \cup {record.id}, !.step = "tags"])
        \/ Raises(t, hurt)
    <2>1. CASE p.at = "deploy"
      BY <1>1, <2>1 DEF RequestFails, At, Step, Inspecting
    <2>2. CASE p.at = "recall"
      BY <1>1, <2>2 DEF RequestFails, At, Step, Inspecting, Inspection
    <2>3. CASE p.at = "inspect"
      BY <1>1, <2>3 DEF RequestFails, At, Step, Inspecting, Inspection
    <2>4. CASE p.at = "await"
      BY <1>1, <2>4 DEF RequestFails, At, Step, Inspecting, Inspection
    <2>5. CASE p.at = "survey"
      BY <1>1, <2>5 DEF RequestFails, At, Step, Inspecting
    <2>6. CASE p.at \notin {"deploy", "recall", "inspect", "await", "survey"}
      BY <1>1, <2>6 DEF RequestFails, At, Step, Inspecting
    <2> QED BY <2>1, <2>2, <2>3, <2>4, <2>5, <2>6
  <1> HIDE DEF hurt, record
  <1>8. CASE p.at = "deploy" /\ Now(t, GoTo(record, "recover", "name"))
    <2>1. t = Maker /\ p.op = "launch" /\ ~p.verified /\ (Training => Uncalled)
      BY <1>1, <1>8 DEF Sound, PlaceSound, LaunchSound
    <2>2. PICK r \in Works : /\ Now(t, r) /\ r.op = "launch" /\ r.at = "recover" /\ ~r.verified
                             /\ r.id = p.id /\ r.seen = Unseen /\ r.owned = p.owned
                             /\ r.step = "name"
      BY <1>3, <1>8, <2>1, Turns DEF Places, Steps
    <2>3. Sound(t, r)
      BY <1>1, <2>1, <2>2, LaunchingSound, Unseens DEF Sound, SeenSound, None
    <2> QED BY <1>4, <1>6, <1>8, <2>2, <2>3, Moves
  <1>9. CASE /\ p.at = "recall"
             /\ Now(t, GoTo([record EXCEPT !.called = (record.op = "cancel")], "inspect", "list"))
    <2> DEFINE q == [record EXCEPT !.called = (record.op = "cancel")]
    <2>1. /\ q \in Works /\ q.op = p.op /\ q.id = p.id /\ q.verified = p.verified
          /\ q.hurt = hurt /\ (q.op = "undo" => ~q.called)
      BY <1>3 DEF Works
    <2>2. p.op = "undo" => p.verified
      BY <1>1 DEF Sound, PlaceSound
    <2>3. Now(t, GoTo(q, "inspect", "list")) /\ At(t, "recall")
      BY <1>1, <1>9 DEF At
    <2> HIDE DEF q
    <2> QED BY <1>2, <1>6, <2>1, <2>2, <2>3, RecallGoes
  <1>10. CASE Inspecting(t) /\ p.step = "call" /\ Judges(t, record.seen)
    <2>1. p.op # "undo" /\ p.at \in {"inspect", "await"} /\ p.seen \in Answers
      BY <1>1, <1>10 DEF Sound, PlaceSound, Inspecting, At, Works
    <2>2. /\ p.seen.list["ours"] # None => Landed /\ Ours.listed
          /\ p.seen.life \in {None, "stopped"} => Down
      BY <1>1, <1>10, <2>1 DEF Sound, SeenSound, Inspected
    <2> QED BY <1>3, <1>6, <1>10, <2>1, <2>2, JudgesGood
  <1>11. CASE p.at = "await" /\ Now(t, GoTo(record, "await", "list"))
    <2>1. /\ p.op \in Ending /\ p.id = "ours" /\ Landed /\ (t = Maker <=> p.op = "undo")
          /\ p.op = "undo" => Training /\ p.verified /\ Findable /\ ~p.called
          /\ p.op = "cancel" /\ p.called => callee = "ours"
      BY <1>1, <1>11, InspectingIs DEF Inspecting, At
    <2> QED BY <1>2, <1>3, <1>6, <1>11, <2>1, EndingGoes DEF Steps
  <1>12. CASE /\ p.at = "survey" /\ p.step = "tags"
              /\ \E a \in record.left : Now(t, [record EXCEPT !.left = @ \ {a}, !.doubt = TRUE])
    <2>1. PICK a \in p.left : Now(t, [record EXCEPT !.left = @ \ {a}, !.doubt = TRUE])
      BY <1>3, <1>12
    <2> DEFINE q == [record EXCEPT !.left = @ \ {a}, !.doubt = TRUE]
    <2>2. /\ a \in Apps /\ p.op = "survey" /\ p.owned \subseteq {"ours"}
          /\ "ours" \in p.owned => Landed
      BY <1>1, <1>12 DEF Sound, PlaceSound, SeenSound, SurveySound, Works
    <2>3. /\ q \in Works /\ q.op = p.op /\ q.at = p.at /\ q.step = p.step /\ q.left = p.left \ {a}
          /\ q.shown = p.shown /\ q.seen = p.seen /\ q.id = p.id /\ q.owned = p.owned /\ q.doubt
      BY <1>3 DEF Works
    <2>4. Now(t, q) /\ At(t, "survey")
      BY <1>1, <1>12, <2>1 DEF At
    <2> HIDE DEF q
    <2> QED BY <1>6, <1>12, <2>2, <2>3, <2>4, SurveyLeaves
  <1>13. CASE /\ p.at = "survey" /\ p.step = "life"
              /\ Now(t, [record EXCEPT !.left = @ \ {record.id}, !.doubt = TRUE,
                                       !.owned = @ \cup {record.id}, !.step = "tags"])
    <2> DEFINE q == [record EXCEPT !.left = @ \ {record.id}, !.doubt = TRUE,
                                   !.owned = @ \cup {record.id}, !.step = "tags"]
    <2>1. /\ p.id = "ours" /\ p.op = "survey" /\ p.owned \subseteq {"ours"} /\ Landed
          /\ "ours" \in Apps
      BY <1>1, <1>13 DEF Sound, PlaceSound, SeenSound, SurveySound, Apps
    <2>2. /\ q \in Works /\ q.op = p.op /\ q.at = p.at /\ q.step = "tags"
          /\ q.left = p.left \ {"ours"} /\ q.shown = p.shown /\ q.seen = p.seen /\ q.id = p.id
          /\ q.owned = p.owned \cup {"ours"} /\ q.doubt
      BY <1>3, <2>1 DEF Works, Steps
    <2>3. Now(t, q) /\ At(t, "survey")
      BY <1>1, <1>13 DEF At
    <2> HIDE DEF q
    <2> QED BY <1>6, <1>13, <2>1, <2>2, <2>3, SurveyLeaves
  <1>14. CASE Raises(t, hurt)
    <2>1. p.op = "undo" => p.verified /\ (Down \/ p.hurt > 0)
      BY <1>1 DEF Sound, PlaceSound, LaunchSound
    <2>2. /\ p.op = "launch" /\ p.verified => Down \/ hurt > 0
          /\ p.op = "undo" => Down \/ hurt > 1
      BY <1>2, <2>1
    <2> QED BY <1>1, <1>2, <1>6, <1>14, <2>2, Raise
  <1> QED BY <1>7, <1>8, <1>9, <1>10, <1>11, <1>12, <1>13, <1>14

LEMMA GivesUpGood == ASSUME IInv, NEW t \in Threads, GivesUp(t) PROVE IInv'
  <1> DEFINE p == task[t]
             hurt == IF p.verified THEN p.hurt + 1 ELSE 0
  <1>1. /\ p \in Works /\ p.op # "idle" /\ p.op # "launch"
        /\ p.op = "undo" => p.verified /\ (Down \/ p.hurt > 0)
    BY InspectingIs DEF GivesUp, Inspecting
  <1>2. hurt \in Nat /\ (p.op = "undo" => Down \/ hurt > 1) /\ p.hurt \in Nat
    BY <1>1 DEF Works
  <1>3. Raises(t, hurt)
    BY DEF GivesUp
  <1>4. Around(t)
    BY Calm DEF GivesUp, modal, IInv, Typed
  <1> HIDE DEF hurt
  <1> QED BY <1>1, <1>2, <1>3, <1>4, Raise

-----------------------------------------------------------------------------
(* Modal *)

LEMMA Elsewhere ==
    ASSUME IInv, Drifts, Restrained, UNCHANGED <<known, task, faults>>,
           flight' \in {flight, "over"}
    PROVE  IInv'
  <1>1. ASSUME NEW t \in Threads PROVE Sound(t, task[t])'
    <2>1. PICK r \in Idles \cup Works : r = task[t] /\ r = task'[t]
      BY DEF IInv, Typed
    <2>2. Sound(t, r)
      BY <2>1 DEF IInv
    <2>3. Sound(t, r)'
      BY <2>2, Stable
    <2> QED BY <2>1, <2>3
  <1>2. Typed'
    BY DEF IInv, Typed, Drifts
  <1> QED BY <1>1, <1>2 DEF IInv, Drifts

(* Ours changes, theirs does not.                                          *)
LEMMA OursChanges ==
    ASSUME IInv, NEW a \in AppRecords, app' = [app EXCEPT !["ours"] = a],
           UNCHANGED <<kind, callee, known, task, faults>>, flight' \in {flight, "over"},
           a.life \in Active => Up("ours") /\ (a.listed \/ ~Ours.listed) /\ (a.named \/ ~Ours.named)
                                /\ (a.tagged \/ ~Ours.tagged),
           Landed, a.life # "absent", a.listed \/ ~Ours.listed,
           a.tagged => a.life # "deploying", a.life \in {"running", "busy", "draining"} => a.tagged,
           Training /\ Uncalled
               => a.call \notin {"pending", "running"} /\ a.life \notin {"busy", "draining"}
    PROVE  IInv'
  <1>1. app \in [Apps -> AppRecords] /\ "ours" \in Apps /\ "theirs" \in Apps
    BY DEF IInv, Typed, Apps
  <1>2. app' \in [Apps -> AppRecords] /\ app'["theirs"] = app["theirs"] /\ app'["ours"] = a
    BY <1>1
  <1>3. a.life \in Lives
    BY DEF AppRecords
  <1>4. AppsSound'
    BY <1>2, <1>3 DEF AppsSound, IInv, Landed, Ours, Up, Active, Lives, Down
  <1>5. Drifts
    BY <1>2, <1>3, <1>4, OursIsUp DEF Drifts, Down, Landed, Ours, Active, Lives, IInv, Typed
  <1>6. Restrained
    BY <1>2 DEF Restrained, Uncalled, Ours
  <1> QED BY <1>5, <1>6, Elsewhere

(* What is not ours changes; ours may lose its name once it is down.       *)
LEMMA TheirsChanges ==
    ASSUME IInv, app' \in [Apps -> AppRecords], UNCHANGED <<kind, flight, callee, known, task, faults>>,
           app'["theirs"].life \in {"absent", "running", "stopped", "forgotten"},
           Up("ours") => app'["theirs"].life # "running" /\ ~app'["theirs"].named,
           app'["ours"].life = Ours.life, app'["ours"].tagged = Ours.tagged,
           app'["ours"].listed = Ours.listed, app'["ours"].call = Ours.call,
           app'["ours"].named = Ours.named \/ (~Up("ours") /\ ~app'["ours"].named)
    PROVE  IInv'
  <1>1. AppsSound'
    BY DEF AppsSound, IInv, Landed, Ours, Up, Active, Down
  <1>2. Ours.named => Landed
    BY DEF IInv, AppsSound
  <1>3. Drifts
    BY <1>1, <1>2, OursIsUp DEF Drifts, Down, Landed, Ours, IInv, Typed
  <1>4. Restrained
    BY DEF Restrained, Uncalled, Ours
  <1> QED BY <1>3, <1>4, Elsewhere

LEMMA AppFields ==
    ASSUME IInv
    PROVE  /\ app \in [Apps -> AppRecords] /\ Apps = {"ours", "theirs"} /\ Ours \in AppRecords
           /\ Ours = app["ours"] /\ app["theirs"] \in AppRecords
  BY DEF IInv, Typed, Apps, Ours

LEMMA LandsGood == ASSUME IInv, Lands PROVE IInv'
  <1>1. /\ app' \in [Apps -> AppRecords] /\ app'["ours"].life = "deploying"
        /\ app'["ours"].tagged = Ours.tagged /\ app'["ours"].listed = Ours.listed
        /\ app'["ours"].named = Ours.named /\ app'["ours"].call = Ours.call
        /\ app'["theirs"].life = app["theirs"].life /\ ~app'["theirs"].named
    BY AppFields DEF Lands, AppRecords, Lives, Active
  <1>2. AppsSound'
    BY <1>1 DEF AppsSound, IInv, Landed, Ours, Up, Active, Lands, Down
  <1>3. Drifts
    BY <1>1, <1>2 DEF Drifts, Down, Landed, Ours, Lands, IInv, Typed
  <1>4. Restrained
    BY <1>1 DEF Restrained, Uncalled, Ours, Lands
  <1> QED BY <1>3, <1>4, Elsewhere DEF Lands

LEMMA PublishesGood == ASSUME IInv, Publishes PROVE IInv'
  <1> DEFINE a == [Ours EXCEPT !.life = "running", !.tagged = TRUE]
  <1>1. app' = [app EXCEPT !["ours"] = a]
    BY AppFields DEF Publishes, AppRecords
  <1>2. /\ a \in AppRecords /\ a.life = "running" /\ a.tagged /\ a.listed = Ours.listed
        /\ a.named = Ours.named /\ a.call = Ours.call
    BY AppFields DEF AppRecords, Lives, Active
  <1>3. Up("ours") /\ Landed
    BY DEF Publishes, Up, Active, Landed, Ours
  <1> HIDE DEF a
  <1> QED BY <1>1, <1>2, <1>3, OursChanges DEF Publishes, Uncalled

LEMMA IsLostGood == ASSUME IInv, IsLost PROVE IInv'
  BY Stays, Elsewhere DEF IsLost

LEMMA AppMovesGood == ASSUME IInv, AppMoves("ours") PROVE IInv'
  <1>1. /\ UNCHANGED <<kind, flight, callee, known, task, faults>>
        /\ \/ Up("ours") /\ Becomes("ours", [Ours EXCEPT !.listed = TRUE])
           \/ Up("ours") /\ Becomes("ours", [Ours EXCEPT !.named = TRUE])
           \/ /\ Ours.life = "running" /\ (Training => Ours.call = "pending")
              /\ Becomes("ours", [Ours EXCEPT !.life = "busy",
                                              !.call = IF Training THEN "running" ELSE @])
           \/ /\ Ours.life = "busy"
              /\ Becomes("ours", [Ours EXCEPT !.life = "running",
                                              !.call = IF Training THEN "over" ELSE @])
           \/ /\ Ours.life = "draining"
              /\ Becomes("ours", [Ours EXCEPT !.life = "stopped",
                                              !.call = IF Training THEN "over" ELSE @])
    BY DEF AppMoves, Ours
  <1>2. /\ Up("ours") <=> Ours.life \in Active
        /\ Up("ours") => Landed
        /\ Ours.tagged => Ours.life \notin {"absent", "deploying"}
        /\ Ours.life \in {"running", "busy", "draining"} => Ours.tagged
    BY OursIsUp DEF Up, Ours, IInv, AppsSound
  <1>3. ASSUME NEW a \in AppRecords, Becomes("ours", a), Up("ours"),
               a.listed \/ ~Ours.listed, a.named \/ ~Ours.named, a.tagged = Ours.tagged,
               a.life = Ours.life \/ (Ours.life \in {"running", "busy", "draining"}
                                      /\ a.life \in {"running", "busy", "stopped"}),
               Training /\ Uncalled
                   => a.call \notin {"pending", "running"} /\ a.life \notin {"busy", "draining"}
        PROVE  IInv'
    BY <1>1, <1>2, <1>3, OursChanges DEF Becomes, Landed
  <1>4. CASE Up("ours") /\ Becomes("ours", [Ours EXCEPT !.listed = TRUE])
    <2> DEFINE a == [Ours EXCEPT !.listed = TRUE]
    <2>1. /\ a \in AppRecords /\ a.listed /\ a.named = Ours.named /\ a.tagged = Ours.tagged
          /\ a.life = Ours.life /\ a.call = Ours.call
      BY AppFields DEF AppRecords
    <2>2. Becomes("ours", a) /\ Up("ours")
      BY <1>4
    <2> HIDE DEF a
    <2> QED BY <1>3, <2>1, <2>2 DEF Uncalled
  <1>5. CASE Up("ours") /\ Becomes("ours", [Ours EXCEPT !.named = TRUE])
    <2> DEFINE a == [Ours EXCEPT !.named = TRUE]
    <2>1. /\ a \in AppRecords /\ a.listed = Ours.listed /\ a.named /\ a.tagged = Ours.tagged
          /\ a.life = Ours.life /\ a.call = Ours.call
      BY AppFields DEF AppRecords
    <2>2. Becomes("ours", a) /\ Up("ours")
      BY <1>5
    <2> HIDE DEF a
    <2> QED BY <1>3, <2>1, <2>2 DEF Uncalled
  <1>6. CASE /\ Ours.life = "running" /\ (Training => Ours.call = "pending")
             /\ Becomes("ours", [Ours EXCEPT !.life = "busy",
                                             !.call = IF Training THEN "running" ELSE @])
    <2> DEFINE a == [Ours EXCEPT !.life = "busy", !.call = IF Training THEN "running" ELSE @]
    <2>1. /\ a \in AppRecords /\ a.listed = Ours.listed /\ a.named = Ours.named
          /\ a.tagged = Ours.tagged /\ a.life = "busy"
      BY AppFields DEF AppRecords, Lives, Active, Calls
    <2>2. Becomes("ours", a) /\ Up("ours") /\ ~(Training /\ Uncalled)
      BY <1>2, <1>6 DEF Active, Uncalled
    <2> HIDE DEF a
    <2> QED BY <1>3, <1>6, <2>1, <2>2
  <1>7. CASE /\ Ours.life = "busy"
             /\ Becomes("ours", [Ours EXCEPT !.life = "running",
                                             !.call = IF Training THEN "over" ELSE @])
    <2> DEFINE a == [Ours EXCEPT !.life = "running", !.call = IF Training THEN "over" ELSE @]
    <2>1. /\ a \in AppRecords /\ a.listed = Ours.listed /\ a.named = Ours.named
          /\ a.tagged = Ours.tagged /\ a.life = "running"
      BY AppFields DEF AppRecords, Lives, Active, Calls
    <2>2. Becomes("ours", a) /\ Up("ours") /\ ~Uncalled
      BY <1>2, <1>7 DEF Active, Uncalled
    <2> HIDE DEF a
    <2> QED BY <1>3, <1>7, <2>1, <2>2
  <1>8. CASE /\ Ours.life = "draining"
             /\ Becomes("ours", [Ours EXCEPT !.life = "stopped",
                                             !.call = IF Training THEN "over" ELSE @])
    <2> DEFINE a == [Ours EXCEPT !.life = "stopped", !.call = IF Training THEN "over" ELSE @]
    <2>1. /\ a \in AppRecords /\ a.listed = Ours.listed /\ a.named = Ours.named
          /\ a.tagged = Ours.tagged /\ a.life = "stopped"
      BY AppFields DEF AppRecords, Lives, Active, Calls
    <2>2. Becomes("ours", a) /\ Up("ours") /\ ~Uncalled
      BY <1>2, <1>8 DEF Active, Uncalled
    <2> HIDE DEF a
    <2> QED BY <1>3, <1>8, <2>1, <2>2
  <1> QED BY <1>1, <1>4, <1>5, <1>6, <1>7, <1>8

LEMMA ExpiresGood == ASSUME IInv, NEW a \in Apps, Expires(a) PROVE IInv'
  <1>1. UNCHANGED <<kind, flight, callee, known, task, faults>> /\ app[a].life = "stopped"
    BY DEF Expires
  <1>2. PICK b : /\ app' = [app EXCEPT ![a] = b] /\ b \in AppRecords
                 /\ b.life \in {"stopped", "forgotten"} /\ b.listed = app[a].listed
                 /\ b.call = app[a].call /\ (b.named => app[a].named)
                 /\ (b.tagged => app[a].tagged)
    <2>1. app[a] \in AppRecords /\ app[a].life = "stopped"
      BY AppFields, <1>1
    <2>2. ASSUME NEW b, Becomes(a, b),
                 \/ b = [app[a] EXCEPT !.tagged = FALSE]
                 \/ b = [app[a] EXCEPT !.named = FALSE]
                 \/ b = [app[a] EXCEPT !.life = "forgotten", !.named = FALSE, !.tagged = FALSE]
          PROVE  /\ app' = [app EXCEPT ![a] = b] /\ b \in AppRecords
                 /\ b.life \in {"stopped", "forgotten"} /\ b.listed = app[a].listed
                 /\ b.call = app[a].call /\ (b.named => app[a].named)
                 /\ (b.tagged => app[a].tagged)
      BY <2>1, <2>2 DEF Becomes, AppRecords, Lives, Active
    <2> QED BY <2>2 DEF Expires
  <1>3. CASE a = "ours"
    BY <1>1, <1>2, <1>3, OursChanges DEF Ours, Landed, Down, Uncalled, Active
  <1>4. CASE a = "theirs"
    <2>1. /\ app' \in [Apps -> AppRecords] /\ app'["ours"] = Ours
          /\ app'["theirs"].life \in {"stopped", "forgotten"}
          /\ app'["theirs"].named => app["theirs"].named
      BY <1>2, <1>4, AppFields
    <2> QED BY <1>1, <2>1, TheirsChanges DEF IInv, AppsSound
  <1> QED BY <1>3, <1>4, AppFields

LEMMA TheyDeployGood == ASSUME IInv, TheyDeploy PROVE IInv'
  <1>1. PICK tagged \in BOOLEAN :
            app' = [app EXCEPT !["theirs"] = [Theirs("running") EXCEPT !.tagged = tagged],
                               !["ours"].named = FALSE]
    BY DEF TheyDeploy
  <1> DEFINE b == [Theirs("running") EXCEPT !.tagged = tagged]
  <1>2. b \in AppRecords /\ b.life = "running"
    BY DEF Theirs, AppRecords, Lives, Active, Calls
  <1> HIDE DEF b
  <1>3. /\ app' \in [Apps -> AppRecords] /\ app'["theirs"].life = "running"
        /\ app'["ours"].life = Ours.life /\ app'["ours"].tagged = Ours.tagged
        /\ app'["ours"].listed = Ours.listed /\ app'["ours"].call = Ours.call
        /\ ~app'["ours"].named
    BY <1>1, <1>2, AppFields DEF AppRecords, b
  <1> QED BY <1>3, TheirsChanges DEF TheyDeploy

LEMMA TheyStopGood == ASSUME IInv, TheyStop PROVE IInv'
  <1>1. /\ app' \in [Apps -> AppRecords] /\ app'["theirs"].life = "stopped"
        /\ app'["theirs"].named = app["theirs"].named /\ app'["ours"] = Ours
    BY AppFields DEF TheyStop, Halted, AppRecords, Lives, Active, Calls
  <1> QED BY <1>1, TheirsChanges DEF TheyStop, IInv, AppsSound

-----------------------------------------------------------------------------
(* The specification *)

LEMMA InitIInv == Init => IInv
  <1> SUFFICES ASSUME Init PROVE IInv
    OBVIOUS
  <1>1. PICK life \in {"absent", "running"} :
            app = [a \in Apps |-> IF a = "theirs" THEN Theirs(life)
                                  ELSE [Theirs("absent") EXCEPT !.listed = FALSE, !.named = FALSE]]
    BY DEF Init
  <1>2. /\ app["theirs"] = Theirs(life) /\ Theirs(life) \in AppRecords
        /\ Theirs(life).life = life
    BY <1>1 DEF Apps, Theirs, AppRecords, Lives, Active, Calls
  <1>3. /\ Ours \in AppRecords /\ Ours.life = "absent" /\ ~Ours.tagged /\ ~Ours.listed
        /\ ~Ours.named /\ Ours.call = None
    BY <1>1 DEF Ours, Apps, Theirs, AppRecords, Lives, Active, Calls
  <1>4. app \in [Apps -> AppRecords]
    BY <1>1, <1>2, <1>3 DEF Ours, Apps
  <1>5. AppsSound
    BY <1>2, <1>3 DEF AppsSound, Landed, Up, Ours, Active, Init, None
  <1>6. /\ Came(None) \in Idles /\ Came(None).op = "idle" /\ Came(None).is = None
    BY DEF Came, Idles
  <1>7. ASSUME NEW t \in Threads PROVE Sound(t, task[t]) /\ task[t] \in Idles
    <2>1. PICK r \in Idles : r = task[t] /\ r.op = "idle" /\ r.is = None
      BY <1>6 DEF Init
    <2>2. Sound(t, r)
      BY <1>3, <2>1 DEF Sound, PlaceSound, SeenSound, LaunchSound, SurveySound, ResultSound,
         Uncalled, Init, None
    <2> QED BY <2>1, <2>2
  <1>8. Typed
    BY <1>4, <1>7 DEF Typed, Init
  <1> QED BY <1>5, <1>7, <1>8 DEF IInv, Init

LEMMA StepGood == IInv /\ [Next]_vars => IInv'
  <1> SUFFICES ASSUME IInv, [Next]_vars PROVE IInv'
    OBVIOUS
  <1>1. CASE Launches \/ Collides(Maker) \/ DeployAnswers(Maker) \/ Recovers(Maker)
                 \/ Spawns(Maker) \/ Identifies(Maker)
    BY <1>1, LaunchesGood, CollidesGood, DeployAnswersGood, RecoversGood, SpawnsGood,
       IdentifiesGood
  <1>2. ASSUME NEW t \in Others, Stops(t) \/ Surveys(t) \/ ListsOwned(t) PROVE IInv'
    <2>1. t \in Threads
      BY DEF Threads
    <2> QED BY <1>2, <2>1, StopsGood, SurveysGood, SurveyListsGood, SurveyTagsGood,
               SurveyLifeGood, SurveyEndsGood DEF ListsOwned
  <1>3. ASSUME NEW t \in Threads, Verifies(t) PROVE IInv'
    BY <1>3, VerifyListsGood, VerifyNamesGood, VerifyTagsGood DEF Verifies
  <1>4. ASSUME NEW t \in Threads, Inspects(t) PROVE IInv'
    BY <1>4, InspectListsGood, InspectLifeGood, InspectNameGood, InspectCallGood,
       InspectTagsGood DEF Inspects
  <1>5. ASSUME NEW t \in Threads, Halts(t) \/ Recalls(t) \/ RequestFails(t) \/ GivesUp(t)
        PROVE  IInv'
    BY <1>5, HaltsGood, RecallsGood, RequestFailsGood, GivesUpGood
  <1>6. CASE Lands \/ Publishes \/ IsLost \/ AppMoves("ours") \/ TheyDeploy \/ TheyStop
    BY <1>6, LandsGood, PublishesGood, IsLostGood, AppMovesGood, TheyDeployGood, TheyStopGood
  <1>7. ASSUME NEW a \in Apps, Expires(a) PROVE IInv'
    BY <1>7, ExpiresGood
  <1>8. CASE UNCHANGED vars
    BY <1>8, Stays, Elsewhere DEF vars, modal
  <1> QED BY <1>1, <1>2, <1>3, <1>4, <1>5, <1>6, <1>7, <1>8 DEF Next

(* What the adapters know of the App deployed for them holds for any       *)
(* number of threads and failing requests (compute_modal.py,               *)
(* training_compute_modal.py): whatever list, name, lifecycle or mark an   *)
(* operation has read bounds what the App can be by now, and every handle  *)
(* kept, stopped or cancelled is of that App.                              *)
THEOREM Inductive == Spec => []IInv
  BY InitIInv, StepGood, PTL DEF Spec

(* What stop_owned, cancel and list_owned answer is true when they answer: *)
(* a stopped App has nothing up, and a list has every App of ours that     *)
(* Modal listed and is still up, though each answer is put together from   *)
(* answers of different moments.                                           *)
THEOREM Truth == Spec => []AnswersAreTrue
  <1>1. IInv => AnswersAreTrue
    <2> SUFFICES ASSUME IInv, NEW t \in Threads
                 PROVE  /\ task[t].is = "stopped" => ~Up(task[t].id)
                        /\ task[t].is = "listed"
                               => \A a \in task[t].shown : Up(a) => a \in task[t].owned
      BY DEF AnswersAreTrue
    <2>1. Sound(t, task[t]) /\ (Down => ~Up("ours"))
      BY OursIsUp DEF IInv
    <2>2. CASE task[t].op = "idle"
      BY <2>1, <2>2 DEF Sound, ResultSound
    <2>3. CASE task[t].op # "idle"
      <3>1. task[t].is = None
        BY <2>3, Busy DEF Works
      <3> QED BY <3>1 DEF None
    <2> QED BY <2>2, <2>3
  <1> QED BY <1>1, Inductive, PTL

(* Both requests that end something, AppStop (_stop_app) and the call's    *)
(* cancellation (cancel_call), are only ever sent to the App that was      *)
(* deployed for us, whatever else bears its name when the call is made by  *)
(* that name (spawn_training).                                             *)
THEOREM OnlyOurs == Spec => []OnlyOursIsStopped
  <1>1. IInv => OnlyOursIsStopped
    <2> SUFFICES ASSUME IInv, NEW t \in Threads
                 PROVE  /\ At(t, "halt") => task[t].id = "ours"
                        /\ At(t, "recall") /\ Step(t, "cancel") => callee = "ours"
      BY DEF OnlyOursIsStopped
    <2>1. At(t, "halt") => task[t].id = "ours"
      BY EndsIs
    <2>2. At(t, "recall") /\ Step(t, "cancel") => callee = "ours"
      BY Busy DEF At, Step, Sound, PlaceSound
    <2> QED BY <2>1, <2>2
  <1> QED BY <1>1, Inductive, PTL

(* A training launch that fails once its App was verified takes the App    *)
(* down (launch's except branch), unless a second request fails on the     *)
(* way.                                                                    *)
THEOREM Undone == Spec => []FailedLaunchIsUndone
  <1>1. IInv => FailedLaunchIsUndone
    <2> SUFFICES ASSUME IInv, task[Maker].is = "failed", task[Maker].verified,
                        task[Maker].hurt <= 1
                 PROVE  ~Up("ours")
      BY DEF FailedLaunchIsUndone
    <2>1. Sound(Maker, task[Maker]) /\ task[Maker] \in Idles \cup Works
      BY MakerLaunches DEF IInv, Typed
    <2>2. task[Maker].op = "idle" /\ task[Maker].hurt \in Nat
      BY <2>1 DEF Idles, Works, None
    <2>3. Down
      BY <2>1, <2>2 DEF Sound, ResultSound
    <2> QED BY <2>3, OursIsUp
  <1> QED BY <1>1, Inductive, PTL
=============================================================================
