------------------------------ MODULE RestSweep ------------------------------
(***************************************************************************)
(* The diagnostic sweep over the OTBR REST API                             *)
(* (src/src/otbr_restapi_util.py: fetch_device_collection and              *)
(* fetch_all_devices_diagnostics with the expansion of child tables by     *)
(* RLOC16), and the reconciliation of its outcome                          *)
(* (src/src/td_restapi_diagnostic_recovery.py).                            *)
(*                                                                         *)
(* One client; every diagnostic is an action the border router queues: an  *)
(* enqueue that cannot be confirmed, a poll that runs out of time or an    *)
(* action that disappears leave one that may still run.                    *)
(***************************************************************************)
EXTENDS Naturals, FiniteSets

CONSTANTS Routers, Listed, \* extended addresses: routers and children of the device list
          Guarded,         \* children listed with a zero mesh-local interface identifier
          Slots,           \* RLOC16s of children
          RouterRlocs,     \* RLOC16s of routers
          ParentOf,        \* [Slots -> RouterRlocs]
          Answers,         \* the diagnostics each target may be answered with
          MaxDiscoveries   \* whole_action_attempts

None   == "none"
NoItem == [ext |-> None, rloc |-> "no item", hasTable |-> FALSE, table |-> {}]
Base   == Routers \cup Listed \cup Guarded
Target == Base \cup Slots

\* What the constants satisfy: extended addresses and RLOC16s are told apart, and a child
\* table lists children of the RLOC16 that answers.
SweepAssumption ==
    /\ None \notin Target /\ Slots \cap Base = {}
    /\ Guarded \cap (Routers \cup Listed) = {} /\ Routers \cap Listed = {}
    /\ ParentOf \in [Slots -> RouterRlocs]
    /\ \A t \in Target : \A i \in Answers[t] :
          i # NoItem /\ i.table \subseteq {s \in Slots : ParentOf[s] = i.rloc}

VARIABLES
    phase,      \* discover, base, expand, done
    style,      \* how children are asked: legacy type sets, or mode-aware passes
    discovery,  \* the discovery actions sent so far, and how the last one ended
    todo, now,  \* the targets left in this phase, the one being asked
    pass, tries, sent,  \* the pass and attempt of `now`, and whether it awaits an answer
    seen,       \* what earlier answers of `now` fixed
    record,     \* what is recorded of each target
    items,      \* the item collected for a target
    conflict,   \* targets with conflicting evidence
    stop,       \* the expansion stopped: an action is unresolved
    active      \* the border router: actions of this run that may still run

progress == <<pass, tries, sent, seen>>
vars == <<phase, style, discovery, todo, now, progress, record, items, conflict, stop, active>>

NoRecord == [status |-> "none", errors |-> {}, passed |-> {}, attempts |-> 0]
NoSeen   == [ext |-> None, rloc |-> None]

Styles == {"legacy", "fast", "detail", "disabled"}

Init ==
    /\ phase = "discover" /\ style \in Styles
    /\ discovery = [sent |-> 0, status |-> "none"]
    /\ todo = {} /\ now = None /\ pass = 1 /\ tries = 0 /\ sent = FALSE /\ seen = NoSeen
    /\ record = [t \in Target |-> NoRecord] /\ items = [t \in Target |-> NoItem]
    /\ conflict = {} /\ stop = FALSE /\ active = {}

Collected == {t \in Target : items[t] # NoItem}

-------------------------------------------------------------------------------
(* Discovery.                                                              *)

SendDiscovery ==
    /\ phase = "discover" /\ discovery.status \in {"none", "failed"}
    /\ discovery.sent < MaxDiscoveries
    /\ discovery' = [sent |-> discovery.sent + 1, status |-> "sent"]
    /\ active' = active \cup {<<"discovery", 0, discovery.sent + 1>>}
    /\ UNCHANGED <<phase, style, todo, now, progress, record, items, conflict, stop>>

\* Stopped and failed are retried; a timeout, a disappearance and an enqueue that may or may
\* not have happened are not.
DiscoveryEnds ==
    /\ phase = "discover" /\ discovery.status = "sent"
    /\ \E status \in {"completed", "failed", "unresolved"} :
         /\ discovery' = [discovery EXCEPT !.status = status]
         /\ \/ active' = {}
            \/ status = "unresolved" /\ UNCHANGED active
    /\ UNCHANGED <<phase, style, todo, now, progress, record, items, conflict, stop>>

\* The device list is read whatever became of it, and its action is forgotten.
StartSweep ==
    /\ phase = "discover"
    /\ \/ discovery.status \in {"completed", "unresolved"}
       \/ discovery.status = "failed" /\ discovery.sent = MaxDiscoveries
    /\ phase' = "base" /\ todo' = Base
    /\ discovery' = [sent |-> 0, status |-> "none"] /\ active' = {}
    /\ UNCHANGED <<style, now, progress, record, items, conflict, stop>>

-------------------------------------------------------------------------------
(* The attempts at one target.                                             *)

\* Routers, and every child under the legacy policy, are asked with fewer and fewer types;
\* other children in passes, each tried twice.
Passes(t) == IF t \in Routers \/ style = "legacy" THEN 1..1
             ELSE CASE style = "disabled" -> {} [] style = "fast" -> 1..1
                    [] style = "detail" -> 1..2
Legacy(t) == t \in Routers \/ style = "legacy"
MaxTries  == 2

\* The errors: "refused" (_KNOWN_TERMINAL_DIAGNOSTIC_ERRORS), "identity", and those after
\* which the action may still run.
Unresolved == {"timeout", "lost"}

Status(t, passed) ==
    IF Passes(t) = {} THEN "skipped"
    ELSE IF passed = {} THEN "failed"
    ELSE IF passed # Passes(t) THEN "partial" ELSE "completed"

\* Take the next target; a guarded child is skipped, and so is one without a pass.
Take ==
    /\ phase \in {"base", "expand"} /\ now = None /\ todo # {}
    /\ LET t == CHOOSE t \in todo : TRUE
           skip(s) == /\ record' = [record EXCEPT ![t].status = s]
                      /\ UNCHANGED <<now, progress>>
       IN /\ todo' = todo \ {t}
          /\ IF phase = "expand" /\ stop THEN skip("not_attempted")
             ELSE IF t \in Guarded \/ Passes(t) = {} THEN skip("skipped")
             ELSE /\ now' = t /\ UNCHANGED <<progress, record>>
    /\ UNCHANGED <<phase, style, discovery, items, conflict, stop, active>>

This == <<now, pass, tries>>

\* enqueue_get_network_diagnostic_task.
Send ==
    /\ now # None /\ ~sent
    /\ sent' = TRUE /\ tries' = tries + 1
    /\ active' = active \cup {<<now, pass, tries + 1>>}
    /\ record' = [record EXCEPT ![now].attempts = @ + 1]
    /\ UNCHANGED <<phase, style, discovery, todo, now, pass, seen, items, conflict, stop>>

\* The target is left; an unresolved action stops the expansion.
Leave(passed, errors) ==
    /\ now' = None /\ sent' = FALSE
    /\ record' = [record EXCEPT ![now].status =
                     IF Legacy(now) /\ passed # {} /\ tries > 1 THEN "partial"
                     ELSE Status(now, passed),
                  ![now].passed = passed, ![now].errors = errors]
    /\ stop' = (stop \/ (phase = "expand" /\ \E e \in errors : e[2] \in Unresolved))
    /\ pass' = 1 /\ tries' = 0 /\ seen' = NoSeen

Again(errors) ==
    /\ sent' = FALSE /\ record' = [record EXCEPT ![now].errors = errors]
    /\ UNCHANGED <<now, pass, tries, seen, stop>>

NextPass(passed, errors, fixed) ==
    IF pass + 1 \in Passes(now)
    THEN /\ pass' = pass + 1 /\ tries' = 0 /\ sent' = FALSE /\ seen' = fixed
         /\ record' = [record EXCEPT ![now].passed = passed, ![now].errors = errors]
         /\ UNCHANGED <<now, stop>>
    ELSE Leave(passed, errors)

\* validate_child_context of a listed child, validate of an RLOC target: does the answer
\* identify who was asked, and agree with what an earlier pass accepted?
Identifies(i) ==
    CASE now \in Listed /\ ~Legacy(now) ->
           /\ i.ext \in {None, now}
           /\ i.rloc = None \/ seen.rloc \in {None, i.rloc}
      [] now \in Slots ->
           /\ i.ext # None /\ i.rloc = now
           /\ IF seen.ext # None THEN i.ext = seen.ext
              ELSE \A t \in Collected : items[t].ext # i.ext
      [] OTHER -> TRUE

Errors(kind) == record[now].errors \cup {<<pass, kind>>}

\* The action completed and its diagnostic was read: accepted, or the identity is wrong,
\* which ends this pass (and under the legacy policy the target).  A later pass replaces
\* the item of an earlier one.
Answered ==
    /\ sent /\ active' = active \ {This}
    /\ \E i \in Answers[now] :
         IF Identifies(i)
         THEN /\ items' = [items EXCEPT ![now] = i]
              /\ NextPass(record[now].passed \cup {pass}, record[now].errors,
                          [ext |-> i.ext, rloc |-> IF seen.rloc = None THEN i.rloc
                                                   ELSE seen.rloc])
         ELSE UNCHANGED items /\ NextPass(record[now].passed, Errors("identity"), seen)
    /\ UNCHANGED <<phase, style, discovery, todo, conflict>>

\* Stopped, failed, or completed without a result: tried again.  (An answer without an
\* action identifier or with an unknown status counts as this too; the border router is
\* assumed to give neither.)
Refused ==
    /\ sent /\ active' = active \ {This}
    /\ IF tries < MaxTries THEN Again(Errors("refused"))
       ELSE NextPass(record[now].passed, Errors("refused"), seen)
    /\ UNCHANGED <<phase, style, discovery, todo, items, conflict>>

\* Mutant: an action that timed out is tried again like one that failed.
GiveUpRetries ==
    /\ sent
    /\ \E kind \in Unresolved :
         IF tries < MaxTries THEN Again(Errors(kind))
         ELSE Leave(record[now].passed, Errors(kind))
    /\ UNCHANGED <<phase, style, discovery, todo, items, conflict, active>>

\* The poll timed out, or the enqueue, a poll or the read of the result failed, or the
\* action disappeared: nothing more is asked of this target.
GiveUp ==
    /\ sent
    /\ \E kind \in Unresolved : Leave(record[now].passed, Errors(kind))
    /\ UNCHANGED <<phase, style, discovery, todo, items, conflict, active>>

-------------------------------------------------------------------------------
(* The expansion: children of the child tables, by RLOC16.                 *)

Heard == Base \cap Collected

\* _derive_child_rloc_targets, from the items of the base sweep (which no longer change).
Parents    == {b \in Heard : items[b].hasTable /\ items[b].rloc \in RouterRlocs}
Conflicted == {r \in RouterRlocs :
                 Cardinality({items[b].ext : b \in {p \in Parents : items[p].rloc = r}}) > 1}
Entries    == UNION {items[b].table : b \in Parents}
CoveredBy(s) == {items[b].ext : b \in {h \in Heard : items[h].rloc = s}} \ {None}

\* What keeps the children of some parent from being known.
Unavailable == \E r \in Routers : record[r].status = "failed"
Anonymous   == \E b \in Heard : items[b].rloc = None
TableGap    == \E b \in Heard : items[b].hasTable # (items[b].rloc \in RouterRlocs)
                                /\ (items[b].hasTable \/ items[b].rloc \in RouterRlocs)

\* _base_sweep_has_unresolved_action: told by the names of the errors, so an answer of the
\* wrong identity counts too.
BaseUnresolved ==
    \E b \in Base : \E e \in record[b].errors : e[2] \in Unresolved \cup {"identity"}

Expand ==
    /\ phase = "base" /\ now = None /\ todo = {}
    /\ phase' = "expand"
    /\ conflict' = {s \in Entries : ParentOf[s] \in Conflicted}
    /\ todo' = {s \in Entries : ParentOf[s] \notin Conflicted /\ CoveredBy(s) = {}}
    /\ stop' = BaseUnresolved
    /\ UNCHANGED <<style, discovery, now, progress, record, items, active>>

Finish ==
    /\ phase = "expand" /\ now = None /\ todo = {}
    /\ phase' = "done" /\ active' = {}
    /\ UNCHANGED <<style, discovery, todo, now, progress, record, items, conflict, stop>>

Next ==
    \/ SendDiscovery \/ DiscoveryEnds \/ StartSweep
    \/ Take \/ Send \/ Answered \/ Refused \/ GiveUp
    \/ Expand \/ Finish

Spec == Init /\ [][Next]_vars

-------------------------------------------------------------------------------
(* The outcome, as reconcile_rest_diagnostics makes it.                    *)

Covered(s) == s \notin conflict /\ CoveredBy(s) # {}
Issues     == Unavailable \/ Anonymous \/ TableGap \/ Conflicted # {} \/ BaseUnresolved

\* The address an expansion record names.
NamedBy(s) == IF Covered(s) THEN CoveredBy(s)
              ELSE {items[s].ext} \ {None}

\* bound_row: a row is evidence only when no other row has its address or its RLOC16.
Bound(t) ==
    /\ t \in Collected /\ items[t].ext # None /\ items[t].rloc # None
    /\ \A u \in Collected \ {t} : items[u].ext # items[t].ext /\ items[u].rloc # items[t].rloc

\* _router_fallback: fewer types were answered after refusals only.
RouterFallback(r) ==
    /\ record[r].status = "partial" /\ Legacy(r) /\ record[r].attempts >= 2
    /\ \A e \in record[r].errors : e[2] = "refused"

\* _detail_gap: the fast pass answered, the detail pass alone did not.
DetailGap(t) ==
    /\ ~Legacy(t) /\ record[t].passed = {1}
    /\ \A e \in record[t].errors : e[1] = 2 => e[2] \in {"refused", "timeout"}

\* parent_row and target_row.
ParentRow(s) ==
    \E r \in Routers :
       /\ Bound(r) /\ items[r].ext = r /\ items[r].rloc = ParentOf[s]
       /\ items[r].hasTable /\ s \in items[r].table
       /\ record[r].status = "completed" \/ RouterFallback(r)

TargetRow(s) ==
    /\ Bound(s) /\ ParentRow(s) /\ record[s].attempts > 0
    /\ \A u \in Entries \ {s} : NamedBy(u) # {items[s].ext}
    /\ ~Unavailable /\ ~Anonymous /\ ~BaseUnresolved /\ ParentOf[s] \notin Conflicted
    /\ \A b \in Heard : items[b].hasTable => items[b].rloc # s

RecoveredSlot(s) == record[s].status = "partial" /\ TargetRow(s) /\ DetailGap(s)
SlotComplete(s)  == record[s].status = "completed" \/ RecoveredSlot(s)

Recovered(d) ==
    CASE d \in Guarded ->
           \E s \in Entries :
              /\ d \in NamedBy(s) /\ ~Covered(s) /\ SlotComplete(s) /\ TargetRow(s)
              /\ \A u \in Entries \ {s} : d \notin NamedBy(u)
      [] d \in Listed ->
           /\ record[d].status = "partial" /\ DetailGap(d)
           /\ Bound(d) /\ items[d].ext = d /\ items[d].rloc \in Slots
      [] d \in Routers ->
           /\ RouterFallback(d) /\ Bound(d)
           /\ items[d].ext = d /\ items[d].rloc \in RouterRlocs /\ items[d].hasTable

EffectivelyPartial ==
    \/ Issues
    \/ \E s \in Entries : ~Covered(s) /\ ~SlotComplete(s)
    \/ \E d \in Base : record[d].status # "completed" /\ ~Recovered(d)

-------------------------------------------------------------------------------
(* Properties.                                                             *)

TypeOK ==
    /\ phase \in {"discover", "base", "expand", "done"} /\ style \in Styles
    /\ todo \subseteq Target /\ now \in Target \cup {None}
    /\ pass \in 1..2 /\ tries \in 0..MaxTries /\ sent \in BOOLEAN /\ conflict \subseteq Slots
    /\ \A t \in Target : record[t].passed \subseteq 1..2 /\ record[t].attempts \in 0..4
    /\ \A t \in Collected : items[t] \in Answers[t]

\* Nothing is asked again while the action that asked it may still run; and once children
\* are asked by RLOC16, nothing at all is asked beside an action that may still run: the
\* sweep does not flood the mesh with diagnostics it gave up on.
NothingBesideUnresolved ==
    /\ \A a, b \in active : a[1] = b[1] => a = b
    /\ phase = "expand" /\ sent => active = {This}

\* A row collected by RLOC16 is of that RLOC16 and of a device no other row is of, although
\* RLOC16s are reassigned while the sweep runs and a later pass replaces an earlier row.
ExpandedAreIdentified ==
    \A s \in Slots \cap Collected :
       /\ items[s].rloc = s /\ items[s].ext # None
       /\ \A t \in Collected \ {s} : items[t].ext # items[s].ext

\* An outcome that is reconciled to complete hides nothing: every listed device has a row,
\* a guarded one under its own address, and every child of a child table was heard.
CompleteMeansHeard ==
    phase = "done" /\ ~EffectivelyPartial =>
       /\ \A d \in Routers \cup Listed : d \in Collected
       /\ \A d \in Guarded : \E t \in Collected : items[t].ext = d
       /\ \A b \in Heard : \A s \in items[b].table : \E t \in Collected : items[t].rloc = s
===============================================================================
