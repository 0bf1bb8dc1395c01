------------------------------- MODULE RestMesh -------------------------------
(***************************************************************************)
(* The sweep that asks every router for its mesh tables                    *)
(* (fetch_mesh_diagnostics_all_devices), the single further request to     *)
(* routers that gave none (src/src/otbr_restapi_mesh_diagnostics.py), and  *)
(* what is concluded of each router                                        *)
(* (src/src/td_restapi_mesh_evidence.py).                                  *)
(***************************************************************************)
EXTENDS Naturals, FiniteSets

CONSTANTS Routers,    \* the routers of the device list: their extended addresses
          Fields,     \* the tables asked for
          Networks

None == "none"

VARIABLES
    phase,     \* sweep, probe, done
    before, after,   \* the network the border router was observed to be in
    witnessed, \* routers whose children a diagnostic sweep resolved, every one
    rebound,   \* the files of that sweep changed meanwhile
    todo, now, step, left,   \* routers left; the one asked, how, and the tables still to ask
    record,    \* of each router
    check,     \* the further request of each router
    running    \* the border router: actions that may still run

vars == <<phase, before, after, witnessed, rebound, todo, now, step, left, record,
          check, running>>

NoRecord == [rows |-> {}, covered |-> {}, ids |-> 0, responsive |-> FALSE, errors |-> {},
             asked |-> 0]

Init ==
    /\ phase = "sweep" /\ before \in Networks \cup {None} /\ after = None
    /\ witnessed \in SUBSET Routers /\ rebound = FALSE
    /\ todo = Routers /\ now = None /\ step = "idle" /\ left = {}
    /\ record = [r \in Routers |-> NoRecord] /\ check = [r \in Routers |-> "none"]
    /\ running = {}

world == <<before, after, witnessed, rebound>>

-------------------------------------------------------------------------------
(* _fetch_mesh_diagnostics_for_device.                                     *)

Take ==
    /\ phase = "sweep" /\ now = None
    /\ \E r \in todo : now' = r /\ todo' = todo \ {r}
    /\ step' = "all" /\ left' = Fields
    /\ UNCHANGED <<phase, world, record, check, running>>

This   == <<now, record[now].asked>>
Asking == step \in {"all", "one", "basic"} /\ now # None

Send ==
    /\ Asking
    /\ record' = [record EXCEPT ![now].asked = @ + 1]
    /\ running' = running \cup {<<now, record[now].asked + 1>>}
    /\ step' = [all |-> "all sent", one |-> "one sent", basic |-> "basic sent"][step]
    /\ UNCHANGED <<phase, world, todo, now, left, check>>

Asked == step \in {"all sent", "one sent", "basic sent"}

\* Where to go on: table by table through what is missing; when nothing at all was
\* answered, one basic request.
Continue(missing, responsive) ==
    IF missing # {} THEN step' = "one" /\ left' = missing /\ UNCHANGED now
    ELSE IF ~responsive THEN step' = "basic" /\ left' = {} /\ UNCHANGED now
    ELSE step' = "idle" /\ left' = {} /\ now' = None

\* The next of the tables, one after the other.
NextField == IF left = {} THEN {} ELSE {CHOOSE f \in left : TRUE}

\* An answer with some tables; whose row it is, is not looked at here.
Answered ==
    /\ Asked /\ running' = running \ {This}
    /\ \E who \in Routers, fs \in SUBSET IF step = "all sent" THEN Fields ELSE NextField :
         LET r == record[now]
             given == IF step = "basic sent" THEN {} ELSE fs
         IN /\ record' = [record EXCEPT ![now] =
                 [r EXCEPT !.rows = IF step = "basic sent" THEN @ ELSE @ \cup {who},
                           !.covered = @ \cup given, !.ids = @ + 1, !.responsive = TRUE]]
            /\ IF step = "basic sent" THEN Continue({}, TRUE)
               ELSE Continue(IF step = "all sent" THEN Fields \ given ELSE left \ NextField,
                             TRUE)
    /\ UNCHANGED <<phase, world, todo, check>>

\* Stopped or failed, or completed without a result.
Refused ==
    /\ Asked /\ running' = running \ {This}
    /\ \E kind \in {"failed", "invalid"} :
         record' = [record EXCEPT ![now].errors = @ \cup {kind}]
    /\ IF step = "basic sent" THEN Continue({}, TRUE)
       ELSE Continue(IF step = "all sent" THEN Fields ELSE left \ NextField,
                     record[now].responsive)
    /\ UNCHANGED <<phase, world, todo, check>>

\* A timeout, a disappearance, an unconfirmed enqueue: nothing more is asked of this router.
GiveUp ==
    /\ Asked
    /\ \E kind \in {"timeout", "lost"} :
         record' = [record EXCEPT ![now].errors = @ \cup {kind}]
    /\ step' = "idle" /\ left' = {} /\ now' = None
    /\ UNCHANGED <<phase, world, todo, check, running>>

Complete(r) == record[r].covered = Fields

-------------------------------------------------------------------------------
(* The further request: _attach_responsiveness.                            *)

\* Mutant: a router that answered some request may be asked too.
EligibleAnyway(r) == record[r].errors # {}

\* classify_mesh_probe_eligibility: nothing was answered, and every request ended in a
\* failure or a timeout that names its action.
Eligible(r) ==
    /\ record[r].ids = 0 /\ record[r].errors # {}
    /\ record[r].errors \subseteq {"failed", "timeout"}

StartProbes ==
    /\ phase = "sweep" /\ now = None /\ todo = {}
    /\ phase' = "probe"
    /\ check' = [r \in Routers |->
          IF ~Complete(r) /\ Eligible(r) /\ before # None /\ r \in witnessed THEN "due"
          ELSE "not-attempted"]
    /\ UNCHANGED <<world, todo, now, step, left, record, running>>

\* Exactly one request of a router; an answer is valid when it is the router's own.
Probe(r) ==
    /\ phase = "probe" /\ check[r] = "due"
    /\ \E c \in {"response", "invalid-response", "no-response"} : check' = [check EXCEPT ![r] = c]
    /\ UNCHANGED <<phase, world, todo, now, step, left, record, running>>

\* The network is observed again, and the diagnostic files are read again.
Conclude ==
    /\ phase = "probe" /\ \A r \in Routers : check[r] # "due"
    /\ phase' = "done" /\ after' \in Networks \cup {None} /\ rebound' \in BOOLEAN
    /\ UNCHANGED <<before, witnessed, todo, now, step, left, record, check,
                   running>>

Next ==
    \/ Take \/ Send \/ Answered \/ Refused \/ GiveUp
    \/ StartProbes \/ \E r \in Routers : Probe(r)
    \/ Conclude

Spec == Init /\ [][Next]_vars

-------------------------------------------------------------------------------
(* qualify_rest_mesh_outcome.                                              *)

\* A merged row keeps the identifier of its first answer, so only a router that gave
\* everything in one answer counts as answered.
ProvidedBy(r) == Complete(r) /\ record[r].ids = 1 /\ record[r].rows = {r}

NotProvidedBy(r) ==
    /\ ~ProvidedBy(r) /\ Eligible(r)
    /\ before # None /\ after = before /\ ~rebound
    /\ check[r] = "response" /\ r \in witnessed

Classification(r) == CASE ProvidedBy(r)    -> "answered"
                       [] NotProvidedBy(r) -> "not-provided"
                       [] OTHER            -> "unanswered"

Qualified ==
    /\ phase = "done"
    /\ \E r \in Routers : Classification(r) = "answered"
    /\ \A r \in Routers : Classification(r) # "unanswered"

-------------------------------------------------------------------------------
TypeOK ==
    /\ phase \in {"sweep", "probe", "done"} /\ now \in Routers \cup {None}
    /\ left \subseteq Fields /\ witnessed \subseteq Routers
    /\ \A r \in Routers : record[r].asked \in 0..(Cardinality(Fields) + 2)
    /\ check \in [Routers -> {"none", "due", "not-attempted", "response", "invalid-response",
                              "no-response"}]

\* A router is not asked for a table while an action that asked it may still run, and a
\* sweep that qualifies leaves no table unexplained: each is in a row of its router, or the
\* router gave nothing to anybody, answered for itself afterwards, and its children are
\* known from elsewhere, all in one network.
MeshExplained ==
    /\ \A a, b \in running : a[1] = b[1] => a = b
    /\ Qualified => \A r \in Routers :
          \/ record[r].covered = Fields /\ record[r].rows = {r}
          \/ record[r].rows = {} /\ ~record[r].responsive /\ check[r] = "response"
             /\ r \in witnessed /\ before = after
===============================================================================
