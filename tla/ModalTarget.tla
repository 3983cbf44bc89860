---------------------------- MODULE ModalTarget ----------------------------
(***************************************************************************)
(* The Modal adapters, ModalComputeTarget (compute_modal.py) and           *)
(* ModalTrainingTarget (training_compute_modal.py), which differ in the    *)
(* call a training App is given.  One App is ours; another of its name may *)
(* be somebody else's.  An operation is a chain of requests: each sees     *)
(* Modal as it is then, which moves on before the next, its list and its   *)
(* names catch up late, and a request may fail after it took effect.       *)
(***************************************************************************)
EXTENDS Naturals

CONSTANTS Maker,       \* the thread that launches
          Others,      \* threads that list, stop and cancel
          MaxFaults

ASSUME TargetAssumption == Maker \notin Others /\ MaxFaults \in Nat

VARIABLES
    kind,      \* "deployment" or "training"
    app,       \* Modal's Apps: life, tagged, listed, named, call
    flight,    \* the request to deploy: "unsent", "sent", "over"
    callee,    \* the App the launch's call was given to, if any
    known,     \* Apps whose identity the service keeps
    task,      \* what each thread is doing, or what its operation came to
    faults

modal == <<app, flight, callee>>
vars == <<kind, modal, known, task, faults>>

Threads == {Maker} \cup Others
Apps == {"ours", "theirs"}
None == "none"

\* "busy" and "draining" Apps have tasks; "forgotten" ones are history.
Active == {"deploying", "running", "busy", "draining"}
Tasks == {"busy", "draining"}
Up(a) == app[a].life \in Active

Training == kind = "training"

Unseen == [list |-> [a \in Apps |-> None], life |-> None, name |-> None, call |-> "unknown"]

\* What an operation came to: an App's handle, its stop, a list or an error.
Came(is) == [op |-> "idle", is |-> is, id |-> None, seen |-> Unseen, hurt |-> 0,
             verified |-> FALSE, shown |-> {}, owned |-> {}]

Theirs(life) == [life |-> life, tagged |-> FALSE, listed |-> TRUE, named |-> TRUE, call |-> None]

Init ==
    /\ kind \in {"deployment", "training"}
    /\ \E life \in {"absent", "running"} :
           app = [a \in Apps |-> IF a = "theirs" THEN Theirs(life)
                                 ELSE [Theirs("absent") EXCEPT !.listed = FALSE, !.named = FALSE]]
    /\ flight = "unsent" /\ callee = None /\ known = {} /\ faults = 0
    /\ task = [t \in Threads |-> Came(None)]

-----------------------------------------------------------------------------
(* What Modal answers *)

\* AppList: an App that has stopped is shown or not.
InList(a) ==
    IF app[a].life \in {"absent", "forgotten"} \/ ~app[a].listed THEN {None}
    ELSE IF Up(a) THEN {app[a].life} ELSE {None, "stopped"}

Lists == {l \in [Apps -> Active \cup {"stopped", None}] : \A a \in Apps : l[a] \in InList(a)}

\* AppGetByDeploymentName: the App that has the name, or one that had it.
Names ==
    LET named == {a \in Apps : app[a].named /\ app[a].life \notin {"absent", "forgotten"}}
        up == {a \in named : Up(a)}
    IN  IF up # {} THEN up ELSE named \cup {None}

\* AppGetLifecycle, by the App's ID.
LifeOf(a) == IF app[a].life \in {"absent", "forgotten"} THEN None ELSE app[a].life

\* AppGetTags: the job or deployment the App is marked with.
TagOf(a) == IF app[a].tagged THEN a ELSE None

\* Mutant: what nobody has marked is ours.
Unclaimed(tag) == tag # "theirs"

Mine(tag) == tag = "ours"

\* Mutant: there is a call.
GivenCall(t) == callee # None

\* FunctionCallInfo: the call is of the App in hand.
ItsCall(t) == callee = task[t].id

-----------------------------------------------------------------------------
(* The steps of an operation *)

At(t, at) == task[t].op # "idle" /\ task[t].at = at
Step(t, step) == task[t].op # "idle" /\ task[t].step = step

Now(t, record) == task' = [task EXCEPT ![t] = record]

\* On to a step of the same task, and to the first step of another one.
StepTo(t, step) == Now(t, [task[t] EXCEPT !.step = step])
GoTo(record, at, step) == [record EXCEPT !.at = at, !.step = step, !.seen = Unseen]

Inspection(record, at) == GoTo(record, at, "list")

Result(record, is) ==
    [Came(is) EXCEPT !.id = record.id, !.verified = record.verified, !.hurt = record.hurt]

Ends(t, is) == Now(t, Result(task[t], is))

\* Mutant: a launch that failed is cleaned up only once it has its call.
UndoesCalls(t, hurt) ==
    LET record == [task[t] EXCEPT !.hurt = hurt] IN
    Now(t, IF record.op = "launch" /\ record.called
             THEN GoTo([record EXCEPT !.op = "undo"], "recall", "info")
             ELSE Result(record, "failed"))

\* An operation raises.  A launch whose App was verified first cancels its
\* call and stops the App as well as it can.
Raises(t, hurt) ==
    LET record == [task[t] EXCEPT !.hurt = hurt]
        undo == [record EXCEPT !.op = "undo"]
    IN  Now(t, IF record.op # "launch" \/ ~record.verified THEN Result(record, "failed")
               ELSE IF record.called THEN GoTo(undo, "recall", "info")
               ELSE Inspection(undo, "inspect"))

Refuses(t) == Raises(t, task[t].hurt)

Fine == UNCHANGED faults
Quietly == UNCHANGED <<kind, modal, known>> /\ Fine

\* The callers; an operation on an App is given its handle, with the call if
\* it came from the launch that returned it.
Begin(op, at, step, id, called) ==
    [op |-> op, at |-> at, step |-> step, id |-> id, called |-> called, verified |-> FALSE,
     hurt |-> 0, seen |-> Unseen, shown |-> {}, owned |-> {}, left |-> {}, doubt |-> FALSE,
     is |-> None]

Launches ==
    /\ task[Maker] = Came(None)
    /\ Now(Maker, Begin("launch", "collide", "name", None, FALSE))
    /\ Quietly

Stops(t) ==
    /\ task[t].op = "idle"
    /\ \E a \in known, called \in {FALSE, Training /\ task[Maker].is = "handle"} :
           \/ Now(t, Begin("stop", "inspect", "list", a, called))
           \/ Training /\ Now(t, Begin("cancel", "verify", "list", a, called))
           \/ ~called /\ Now(t, Begin("panic", "verify", "list", a, FALSE))
    /\ Quietly

Surveys(t) ==
    /\ task[t].op = "idle"
    /\ Now(t, Begin("survey", "survey", "list", None, FALSE))
    /\ Quietly

-----------------------------------------------------------------------------
(* Launching *)

Candidates(t, list) ==
    {a \in Apps : list[a] # None} \cup ({task[t].seen.name} \ {None})

\* _reject_name_collision: ours or not, an App of the name is in the way.
Collides(t) ==
    /\ At(t, "collide")
    /\ \/ /\ Step(t, "name")
          /\ \E a \in Names : Now(t, [task[t] EXCEPT !.seen.name = a, !.step = "list"])
          /\ UNCHANGED flight
       \/ /\ Step(t, "list")
          /\ \E l \in Lists :
                 IF Candidates(t, l) = {}
                   THEN Now(t, GoTo(task[t], "deploy", "answer")) /\ flight' = "sent"
                   ELSE Refuses(t) /\ UNCHANGED flight
    /\ UNCHANGED <<kind, app, callee, known>> /\ Fine

DeployAnswers(t) ==
    /\ At(t, "deploy") /\ flight = "over" /\ app["ours"].tagged
    /\ Now(t, Inspection([task[t] EXCEPT !.id = "ours"], "verify"))
    /\ Quietly

\* A deployment without an answer is looked for by its name; it counts if
\* one App not yet stopped is found, and is marked ours.
Recovers(t) ==
    /\ At(t, "recover")
    /\ \/ /\ Step(t, "name")
          /\ \E a \in Names :
                 Now(t, [task[t] EXCEPT !.step = "list",
                           !.seen.name = IF Training /\ a # None /\ ~Up(a) THEN None ELSE a])
       \/ /\ Step(t, "list")
          /\ \E l \in Lists :
                 LET found == Candidates(t, [a \in Apps |-> IF l[a] = "stopped" THEN None
                                                            ELSE l[a]])
                 IN  \/ \E a \in found :
                            found = {a} /\ Now(t, [task[t] EXCEPT !.step = "tags", !.id = a])
                     \/ (\A a \in Apps : found # {a}) /\ Refuses(t)
       \/ /\ Step(t, "tags")
          /\ IF Mine(TagOf(task[t].id)) THEN Now(t, Inspection(task[t], "verify"))
             ELSE Refuses(t)
    /\ Quietly

\* A call goes to whatever App bears the name by then, if it takes any.
Takers == {a \in Names \ {None} : Up(a) /\ app[a].life # "draining"}

Called(a) == [app EXCEPT ![a].call = "pending"]

\* spawn: the call is made, and the launch is asked whose it is.
Spawns(t) ==
    /\ At(t, "spawn")
    /\ \/ /\ \E a \in Takers : app' = Called(a) /\ callee' = a
          /\ Now(t, GoTo([task[t] EXCEPT !.called = TRUE], "identify", "info"))
       \/ /\ Names \ Takers # {}
          /\ Raises(t, task[t].hurt + 1) /\ UNCHANGED <<app, callee>>
    /\ UNCHANGED <<kind, flight, known>> /\ Fine

Identifies(t) ==
    /\ At(t, "identify")
    /\ IF ItsCall(t) THEN Ends(t, "handle") /\ known' = known \cup {task[t].id}
       ELSE Refuses(t) /\ UNCHANGED known
    /\ UNCHANGED <<kind, modal>> /\ Fine

-----------------------------------------------------------------------------
(* _verify_remote_identity, and where each operation goes from there *)

Verified(t) ==
    LET record == [task[t] EXCEPT !.verified = (@ \/ task[t].op = "launch")] IN
    IF record.op = "launch" /\ Training
      THEN Now(t, GoTo(record, "spawn", "spawn")) /\ UNCHANGED known
    ELSE IF record.op = "launch"
      THEN Now(t, Result(record, "handle")) /\ known' = known \cup {record.id}
    ELSE /\ UNCHANGED known
         /\ Now(t, IF At(t, "reverify") \/ ~Training THEN GoTo(record, "halt", "stop")
                   ELSE IF record.op = "cancel" /\ record.called
                          THEN GoTo(record, "recall", "info")
                   ELSE Inspection(record, "inspect"))

\* What a list says of the App in hand.
Entry(t, list) == [Unseen.list EXCEPT ![task[t].id] = list[task[t].id]]

\* stop_owned (deployments) inspects an App its list does not show.
VerifyLists(t) ==
    /\ At(t, "verify") \/ At(t, "reverify")
    /\ Step(t, "list")
    /\ \E l \in Lists :
           IF task[t].op = "panic" /\ ~Training /\ l[task[t].id] = None
             THEN Now(t, Inspection(task[t], "inspect"))
             ELSE Now(t, [task[t] EXCEPT !.seen.list = Entry(t, l), !.step = "name"])
    /\ Quietly

VerifyNames(t) ==
    /\ At(t, "verify") \/ At(t, "reverify")
    /\ Step(t, "name")
    /\ \E a \in Names :
           IF a = task[t].id \/ (a = None /\ task[t].seen.list[task[t].id] # None)
             THEN StepTo(t, "tags") ELSE Refuses(t)
    /\ Quietly

VerifyTags(t) ==
    /\ At(t, "verify") \/ At(t, "reverify")
    /\ Step(t, "tags")
    /\ IF Mine(TagOf(task[t].id)) THEN Verified(t) ELSE Refuses(t) /\ UNCHANGED known
    /\ UNCHANGED <<kind, modal>> /\ Fine

-----------------------------------------------------------------------------
(* _inspect_identity, for stop ("inspect") and in its loop ("await") *)

Inspecting(t) == At(t, "inspect") \/ At(t, "await")

\* The App has stopped as far as its stop is concerned; what undoes a launch
\* does not change how the launch came out.
Stopped(t) == Ends(t, IF task[t].op = "undo" THEN "failed" ELSE "stopped")

\* It has not: it is told to, or asked again.
NotStopped(t) ==
    IF At(t, "await") THEN Now(t, Inspection(task[t], "await"))
    ELSE IF Training THEN Now(t, Inspection(task[t], "reverify"))
    ELSE IF task[t].op = "panic" THEN Refuses(t)
    ELSE Now(t, GoTo(task[t], "halt", "stop"))

Exists(t, seen) == seen.list[task[t].id] # None \/ seen.life # None \/ seen.name = task[t].id

\* Mutant: an App on its way to stop has stopped.
IsStopping(t, seen) == seen.life \in {"draining", "stopped"}

\* The lifecycle by ID is proof, if neither the list nor the call objects.
ProvenStopped(t, seen) ==
    /\ seen.life = "stopped"
    /\ seen.list[task[t].id] \notin Tasks
    /\ seen.call \notin {"pending", "running"}

\* The lifecycle by ID, or else the list's, or else the name's.
Effective(t, seen) ==
    IF seen.life # None THEN seen.life
    ELSE IF seen.list[task[t].id] # None THEN seen.list[task[t].id] ELSE "stopped"

\* An active App must have its name, and be found in the list or by it.
Addressable(t, seen) ==
    /\ seen.name \in {None, task[t].id}
    /\ seen.list[task[t].id] # None \/ seen.name # None

\* What list, lifecycle, name and call say together; if that is no proof,
\* the App's mark is asked for.
Judges(t, seen) ==
    IF ~Exists(t, seen)
      THEN IF seen.call \in {"pending", "running"} THEN NotStopped(t) ELSE Stopped(t)
    ELSE IF ProvenStopped(t, seen) THEN Stopped(t)
    ELSE IF Effective(t, seen) \in Active /\ ~Addressable(t, seen) THEN Refuses(t)
    ELSE Now(t, [task[t] EXCEPT !.seen = seen, !.step = "tags"])

InspectLists(t) ==
    /\ Inspecting(t) /\ Step(t, "list")
    /\ \E l \in Lists : Now(t, [task[t] EXCEPT !.seen.list = Entry(t, l), !.step = "life"])
    /\ Quietly

InspectLife(t) ==
    /\ Inspecting(t) /\ Step(t, "life")
    /\ Now(t, [task[t] EXCEPT !.seen.life = LifeOf(task[t].id), !.step = "name"])
    /\ Quietly

InspectName(t) ==
    /\ Inspecting(t) /\ Step(t, "name")
    /\ \E a \in Names :
           LET seen == [task[t].seen EXCEPT !.name = a] IN
           IF task[t].called THEN Now(t, [task[t] EXCEPT !.seen = seen, !.step = "call"])
           ELSE Judges(t, seen)
    /\ Quietly

\* _call_execution_state, of a handle that names its call.
InspectCall(t) ==
    /\ Inspecting(t) /\ Step(t, "call")
    /\ IF ItsCall(t) THEN Judges(t, [task[t].seen EXCEPT !.call = app[task[t].id].call])
       ELSE Refuses(t)
    /\ Quietly

\* A mark lost meanwhile is forgiven once the stop has been asked for.
InspectTags(t) ==
    /\ Inspecting(t) /\ Step(t, "tags")
    /\ LET tag == TagOf(task[t].id)
           seen == task[t].seen
       IN  IF ~Mine(tag) /\ ~(At(t, "await") /\ tag = None) THEN Refuses(t)
           ELSE IF /\ Effective(t, seen) = "stopped" /\ seen.list[task[t].id] \notin Tasks
                THEN Stopped(t) ELSE NotStopped(t)
    /\ Quietly

-----------------------------------------------------------------------------
(* Stopping and cancelling *)

\* AppStop ends the App's tasks and, with them, its call.
Halted(a) ==
    [app EXCEPT ![a].life = IF @ = "busy" THEN "draining" ELSE IF @ \in Active \ {"draining"}
                              THEN "stopped" ELSE @,
                ![a].call = IF @ = "pending" THEN "over" ELSE @]

Cancelled(a) ==
    [app EXCEPT ![a].call = "over", ![a].life = IF @ = "busy" THEN "running" ELSE @]

Halts(t) ==
    /\ At(t, "halt")
    /\ app' = Halted(task[t].id)
    /\ Now(t, Inspection(task[t], "await"))
    /\ UNCHANGED <<kind, flight, callee, known>> /\ Fine

\* cancel, and the first half of undoing a launch: whose call it is, then its
\* cancellation, its containers included.  Another App's call is left alone:
\* the App is stopped without it and the operation raises.
Recalls(t) ==
    /\ At(t, "recall")
    /\ \/ /\ Step(t, "info") /\ UNCHANGED app
          /\ IF ItsCall(t) THEN StepTo(t, "cancel")
             ELSE Now(t, Inspection([task[t] EXCEPT !.op = "undo", !.called = FALSE], "inspect"))
       \/ /\ Step(t, "cancel")
          /\ app' = Cancelled(callee)
          /\ Now(t, Inspection([task[t] EXCEPT !.called = (task[t].op = "cancel")], "inspect"))
    /\ UNCHANGED <<kind, flight, callee, known>> /\ Fine

-----------------------------------------------------------------------------
(* list_owned *)

\* AppList says which Apps bear a name of ours; each is then looked at.
SurveyLists(t) ==
    /\ At(t, "survey") /\ Step(t, "list")
    /\ \E l \in Lists :
           LET found == {a \in Apps : l[a] # None} IN
           Now(t, [task[t] EXCEPT !.seen.list = l, !.left = found, !.step = "tags",
                                  !.shown = {a \in found : a = "ours" /\ Up(a)}])
    /\ Quietly

\* An unmarked App is skipped only once it has stopped.
Skips(t, a) ==
    /\ ~Mine(TagOf(a))
    /\ Now(t, [task[t] EXCEPT !.left = @ \ {a},
                              !.doubt = @ \/ (TagOf(a) = None /\ task[t].seen.list[a] # "stopped")])

SurveyTags(t) ==
    /\ At(t, "survey") /\ Step(t, "tags")
    /\ \E a \in task[t].left :
           \/ Skips(t, a)
           \/ Mine(TagOf(a)) /\ Now(t, [task[t] EXCEPT !.id = a, !.step = "life"])
    /\ Quietly

\* The App is shown unless its lifecycle is over and no task was left.
SurveyLife(t) ==
    /\ At(t, "survey") /\ Step(t, "life")
    /\ LET a == task[t].id
           life == IF LifeOf(a) # None THEN LifeOf(a) ELSE task[t].seen.list[a]
           gone == life = "stopped" /\ task[t].seen.list[a] \notin Tasks
       IN  Now(t, [task[t] EXCEPT !.left = @ \ {a}, !.step = "tags",
                                  !.owned = IF gone THEN @ ELSE @ \cup {a}])
    /\ Quietly

\* In doubt about one App, list_owned raises; list_owned_for_panic does not.
SurveyEnds(t) ==
    /\ At(t, "survey") /\ Step(t, "tags") /\ task[t].left = {}
    /\ Now(t, IF task[t].doubt THEN Came("failed")
              ELSE [Came("listed") EXCEPT !.shown = task[t].shown, !.owned = task[t].owned])
    /\ known' = known \cup task[t].owned
    /\ UNCHANGED <<kind, modal>> /\ Fine

-----------------------------------------------------------------------------
(* A request fails, or its answer is lost *)

\* What a request that changes Modal may have done all the same.
MayHaveDone(t) ==
    {<<app, callee>>} \cup
        CASE At(t, "spawn") -> {<<Called(a), a>> : a \in Takers}
          [] At(t, "halt") -> {<<Halted(task[t].id), callee>>}
          [] Step(t, "cancel") -> {<<Cancelled(callee), callee>>}
          [] OTHER -> {}

\* Most operations raise.  An answer to the deployment is looked for, a call
\* that cannot be asked about is unknown, and so is a mark once the stop has
\* been asked for; a cancellation is left to the stop that follows it; and a
\* list is in doubt about that App.
RequestFails(t) ==
    /\ task[t].op # "idle" /\ faults < MaxFaults /\ faults' = faults + 1
    /\ \E done \in MayHaveDone(t) : app' = done[1] /\ callee' = done[2]
    /\ LET hurt == IF task[t].verified THEN task[t].hurt + 1 ELSE 0
           record == [task[t] EXCEPT !.hurt = hurt]
       IN  CASE At(t, "deploy") -> Now(t, GoTo(record, "recover", "name"))
             [] At(t, "recall") ->
                    Now(t, Inspection([record EXCEPT !.called = (record.op = "cancel")], "inspect"))
             [] Inspecting(t) /\ Step(t, "call") -> Judges(t, record.seen)
             [] At(t, "await") /\ Step(t, "tags") -> Now(t, Inspection(record, "await"))
             [] At(t, "survey") /\ Step(t, "tags") ->
                    \E a \in record.left :
                        Now(t, [record EXCEPT !.left = @ \ {a}, !.doubt = TRUE])
             [] At(t, "survey") /\ Step(t, "life") ->
                    Now(t, [record EXCEPT !.left = @ \ {record.id}, !.doubt = TRUE,
                                          !.owned = @ \cup {record.id}, !.step = "tags"])
             [] OTHER -> Raises(t, hurt)
    /\ UNCHANGED <<kind, flight, known>>

\* The stop's loop gives up at its deadline.
GivesUp(t) ==
    /\ At(t, "await") /\ Step(t, "list")
    /\ faults < MaxFaults /\ faults' = faults + 1
    /\ Raises(t, IF task[t].verified THEN task[t].hurt + 1 ELSE 0)
    /\ UNCHANGED <<kind, modal, known>>

-----------------------------------------------------------------------------
(* Modal *)

\* The request to deploy makes the App; it takes over the name, and is marked
\* as it is published.
Lands ==
    /\ flight = "sent" /\ app["ours"].life = "absent" /\ ~Up("theirs")
    /\ app' = [app EXCEPT !["ours"].life = "deploying", !["theirs"].named = FALSE]
    /\ UNCHANGED <<kind, flight, callee, known, task, faults>>

Publishes ==
    /\ app["ours"].life = "deploying"
    /\ app' = [app EXCEPT !["ours"].life = "running", !["ours"].tagged = TRUE]
    /\ flight' = "over"
    /\ UNCHANGED <<kind, callee, known, task, faults>>

IsLost ==
    /\ flight = "sent" /\ ~At(Maker, "deploy") /\ flight' = "over"
    /\ UNCHANGED <<kind, app, callee, known, task, faults>>

Becomes(a, record) == app[a] # record /\ app' = [app EXCEPT ![a] = record]

\* List and name catch up; tasks come and go, with a call for training.
AppMoves(a) ==
    LET it == app[a] IN
    /\ \/ Up(a) /\ (Becomes(a, [it EXCEPT !.listed = TRUE]) \/ Becomes(a, [it EXCEPT !.named = TRUE]))
       \/ /\ it.life = "running" /\ (Training => it.call = "pending")
          /\ Becomes(a, [it EXCEPT !.life = "busy", !.call = IF Training THEN "running" ELSE @])
       \/ /\ it.life = "busy"
          /\ Becomes(a, [it EXCEPT !.life = "running", !.call = IF Training THEN "over" ELSE @])
       \/ /\ it.life = "draining"
          /\ Becomes(a, [it EXCEPT !.life = "stopped", !.call = IF Training THEN "over" ELSE @])
    /\ UNCHANGED <<kind, flight, callee, known, task, faults>>

\* Of an App that has stopped the mark, the name and its record expire.
Expires(a) ==
    /\ app[a].life = "stopped"
    /\ \/ a = "ours" /\ Becomes(a, [app[a] EXCEPT !.tagged = FALSE])
       \/ Becomes(a, [app[a] EXCEPT !.named = FALSE])
       \/ Becomes(a, [app[a] EXCEPT !.life = "forgotten", !.named = FALSE, !.tagged = FALSE])
    /\ UNCHANGED <<kind, flight, callee, known, task, faults>>

\* Somebody else deploys an App of our name, or stops it.
TheyDeploy ==
    /\ app["theirs"].life = "absent" /\ ~Up("ours")
    /\ \E tagged \in BOOLEAN :
           app' = [app EXCEPT !["theirs"] = [Theirs("running") EXCEPT !.tagged = tagged],
                              !["ours"].named = FALSE]
    /\ UNCHANGED <<kind, flight, callee, known, task, faults>>

TheyStop ==
    /\ app["theirs"].life = "running" /\ app' = Halted("theirs")
    /\ UNCHANGED <<kind, flight, callee, known, task, faults>>

-----------------------------------------------------------------------------
Verifies(t) == VerifyLists(t) \/ VerifyNames(t) \/ VerifyTags(t)

Inspects(t) ==
    \/ InspectLists(t) \/ InspectLife(t) \/ InspectName(t) \/ InspectCall(t) \/ InspectTags(t)

ListsOwned(t) == SurveyLists(t) \/ SurveyTags(t) \/ SurveyLife(t) \/ SurveyEnds(t)

Next ==
    \/ Launches \/ Collides(Maker) \/ DeployAnswers(Maker) \/ Recovers(Maker)
    \/ Spawns(Maker) \/ Identifies(Maker)
    \/ \E t \in Others : Stops(t) \/ Surveys(t) \/ ListsOwned(t)
    \/ \E t \in Threads :
           Verifies(t) \/ Inspects(t) \/ Halts(t) \/ Recalls(t) \/ RequestFails(t) \/ GivesUp(t)
    \/ Lands \/ Publishes \/ IsLost \/ AppMoves("ours") \/ TheyDeploy \/ TheyStop
    \/ \E a \in Apps : Expires(a)

Spec == Init /\ [][Next]_vars

-----------------------------------------------------------------------------
(* What an answer says, put together from answers of different moments, is *)
(* true of the Apps: a stop or a cancellation that returns left nothing of *)
(* its App running, and a list of our Apps holds every one Modal listed    *)
(* that is still up, marked by then or not.                                *)
AnswersAreTrue ==
    \A t \in Threads :
        /\ task[t].is = "stopped" => ~Up(task[t].id)
        /\ task[t].is = "listed" => \A a \in task[t].shown : Up(a) => a \in task[t].owned

(* Whatever bears our name, by chance or before or after us: a stop is     *)
(* only ever sent to the App that was deployed for us, and a cancellation  *)
(* to a call of that App, though the call was made by name.                *)
OnlyOursIsStopped ==
    \A t \in Threads :
        /\ At(t, "halt") => task[t].id = "ours"
        /\ At(t, "recall") /\ Step(t, "cancel") => callee = "ours"

(* A launch that fails after its App was verified takes the App down; it   *)
(* takes a second failure for something of it to stay.                     *)
FailedLaunchIsUndone ==
    task[Maker].is = "failed" /\ task[Maker].verified /\ task[Maker].hurt <= 1 => ~Up("ours")
=============================================================================
