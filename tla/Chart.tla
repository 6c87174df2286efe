------------------------------- MODULE Chart --------------------------------
(***************************************************************************)
(* A chart of c3.js while the page calls its API: the data, which each     *)
(* call changes at once, and the elements that show it, which follow in    *)
(* transitions of d3.  A call that arrives while the transitions of an     *)
(* earlier one run finds the elements half way: a new transition of an     *)
(* element supersedes the one that runs, whose end is then never heard.    *)
(*                                                                         *)
(* A target has three elements, for its line, its bars and its labels,     *)
(* which are treated alike: one here.  Axes, shapes and legends are left   *)
(* out, and so is time: transitions end in any order.  d3 is external.     *)
(***************************************************************************)
EXTENDS Integers, Sequences, FiniteSets, SequencesExt, Sorting

CONSTANTS Ids,          \* targets, as the page names them
          IdLists,      \* the lists of different ids that calls name
          ViewLists,    \* bound: those of them that hide, show and toggle name
          LoadLength,   \* values of a target that is loaded, two at least
          MaxData,      \* bound: calls of load, unload and flow
          MaxHasty,     \* bound: those after which a hasty page makes no more
          MaxViews      \* bound: calls of hide, show and toggle

ASSUME ChartAssumption ==
    /\ IdLists \subseteq Seq(Ids)
    /\ \A ids \in IdLists : ids # <<>> /\ IsInjective(ids)
    /\ ViewLists \subseteq IdLists
    /\ LoadLength \in Nat \ {0, 1} /\ {MaxData, MaxHasty, MaxViews} \subseteq Nat

VARIABLES
    targets,    \* data.targets: [id, values], in order; a value is [index, value]
    elements,   \* the elements in their order: [id, opacity, tr]
    hidden,     \* hiddenTargetIds
    unloads,    \* calls of the internal unload: what is to be called at the end
    flows,      \* calls of flow: index, length and state, and even, a history variable
    flowing,    \* $$.flowing
    given,      \* history: the values given for each target since it was last loaded
    hasty,      \* history: the page did not wait for an unload or a flow to end
    calls       \* how many calls of each kind there were

vars == <<targets, elements, hidden, unloads, flows, flowing, given, hasty, calls>>

Null == -1                                  \* no value
NoTransition == [to |-> 0, call |-> -1]

\* What the page gives: the number of the call stands for the value.
Given(n) == [k \in 1 .. n |-> calls.data + 1]

IdsOf(ts) == [i \in DOMAIN ts |-> ts[i].id]
HasTarget(ts, id) == \E i \in DOMAIN ts : ts[i].id = id
IsTargetToShow(id) == ~ Contains(hidden, id)
-----------------------------------------------------------------------------
(* Elements.                                                               *)

\* The data are joined to the elements by position: an element may change the
\* target it shows.  Elements left over keep theirs; they are not removed.
Join(els, ts) ==
    [i \in 1 .. (IF Len(els) < Len(ts) THEN Len(ts) ELSE Len(els)) |->
        IF i > Len(els) THEN [id |-> ts[i].id, opacity |-> 0, tr |-> NoTransition]
        ELSE IF i > Len(ts) THEN els[i]
        ELSE [els[i] EXCEPT !.id = ts[i].id]]

\* Mutant: every element fades.
FadeAll(els, ids, to, call) ==
    [i \in DOMAIN els |-> [els[i] EXCEPT !.tr = [to |-> to, call |-> call]]]

Fade(els, ids, to, call) ==
    [i \in DOMAIN els |->
        IF els[i].id \in ids THEN [els[i] EXCEPT !.tr = [to |-> to, call |-> call]] ELSE els[i]]

ShowTargets(els) == Fade(els, {id \in Ids : IsTargetToShow(id)}, 1, 0)

UpdateTargets(els, ts) == ShowTargets(Join(els, ts))

-----------------------------------------------------------------------------
(* Data.                                                                   *)

\* convertDataToTargets: each id's values have the indices 0, 1, ...
Converted(ids) ==
    [i \in DOMAIN ids |-> [id |-> ids[i],
                           values |-> [k \in 1 .. LoadLength |->
                                          [index |-> k - 1, value |-> Given(LoadLength)[k]]]]]

\* Those of the loaded targets that are new.
Added(ts, loaded) ==
    Chosen(loaded, {k \in DOMAIN loaded : ~ HasTarget(ts, loaded[k].id)})

\* Mutant: the targets there are keep their values.
LoadedNew(ts, loaded) == ts \o Added(ts, loaded)

\* load: targets of the same id get the new values, the rest is added.
Loaded(ts, loaded) ==
    [i \in DOMAIN ts |->
        IF HasTarget(loaded, ts[i].id)
        THEN loaded[CHOOSE k \in DOMAIN loaded : loaded[k].id = ts[i].id] ELSE ts[i]]
    \o Added(ts, loaded)

GivenBy(loaded) ==
    [id \in Ids |-> IF HasTarget(loaded, id)
                    THEN LET t == loaded[CHOOSE k \in DOMAIN loaded : loaded[k].id = id]
                         IN  [k \in DOMAIN t.values |-> t.values[k].value]
                    ELSE given[id]]

Unloading == \E k \in DOMAIN unloads : unloads[k].state = "running"
Flowing == \E k \in DOMAIN flows : flows[k].state \in {"drawing", "flowing"}

FlowOver(k) == flows[k].state \in {"done", "undrawn"}

MayCall == calls.data < MaxData /\ (hasty => calls.data < MaxHasty)
Count(kind) == calls' = [calls EXCEPT ![kind] = @ + 1]

\* load(targets) of the internals, of targets that were converted before
DoLoad(els, ts, loaded) ==
    /\ targets' = Loaded(ts, loaded)
    /\ elements' = UpdateTargets(els, Loaded(ts, loaded))
    /\ given' = GivenBy(loaded)

Init ==
    \E ids \in IdLists :
        /\ targets = [i \in DOMAIN ids |->
                         [id |-> ids[i], values |-> [k \in 1 .. LoadLength |->
                                                        [index |-> k - 1, value |-> 0]]]]
        /\ elements = [i \in DOMAIN ids |->
                          [id |-> ids[i], opacity |-> 0, tr |-> [to |-> 1, call |-> 0]]]
        /\ hidden = <<>> /\ unloads = <<>> /\ flows = <<>> /\ flowing = FALSE
        /\ given = [id \in Ids |-> IF HasTarget(targets, id) THEN [k \in 1 .. LoadLength |-> 0]
                                   ELSE <<>>]
        /\ hasty = FALSE
        /\ calls = [data |-> 0, view |-> 0]

\* load without unload
Load ==
    /\ MayCall
    /\ \E ids \in IdLists : DoLoad(elements, targets, Converted(ids))
    /\ hasty' = (hasty \/ Unloading \/ Flowing)
    /\ Count("data")
    /\ UNCHANGED <<hidden, unloads, flows, flowing>>

\* Mutant: the data stay until the elements are gone.
WithoutTargetsLate(ts, ids) == ts

WithoutTargets(ts, ids) == Chosen(ts, {i \in DOMAIN ts : ~ Contains(ids, ts[i].id)})

\* Mutant: the transitions of all elements are waited for.
WaitedAll(ids) == Len(elements)

\* endall: how many transitions have to end
Waited(ids) == Cardinality({i \in DOMAIN elements : Contains(ids, elements[i].id)})

\* unload of ids that are there, with `load`, what is to be loaded at the end:
\* converted already or <<>> for the callback of the API's own unload.  The
\* data are gone at once; the elements fade out and are removed.
DoUnload(ids, load) ==
    LET call == Len(unloads) + 1
    IN  /\ targets' = WithoutTargets(targets, ids)
        /\ elements' = Fade(elements, ToSet(ids), 0, call)
        /\ unloads' = Append(unloads, [state |-> "running", load |-> load,
                                       left |-> Waited(ids)])
        /\ UNCHANGED given

Existing(ids) == Chosen(ids, {i \in DOMAIN ids : HasTarget(targets, ids[i])})

\* load with `unload`: with nothing to unload, it is loaded at once.
LoadUnloading ==
    /\ MayCall
    /\ \E ids \in IdLists, gone \in IdLists :
          IF Existing(gone) = <<>>
          THEN DoLoad(elements, targets, Converted(ids)) /\ UNCHANGED unloads
          ELSE DoUnload(Existing(gone), Converted(ids))
    /\ hasty' = (hasty \/ Unloading \/ Flowing)
    /\ Count("data")
    /\ UNCHANGED <<hidden, flows, flowing>>

Unload ==
    /\ MayCall
    /\ \E gone \in IdLists : Existing(gone) # <<>> /\ DoUnload(Existing(gone), <<>>)
    /\ hasty' = (hasty \/ Unloading \/ Flowing)
    /\ Count("data")
    /\ UNCHANGED <<hidden, flows, flowing>>

\* The transition of the i-th element ends.  One that fades out for an unload
\* removes it, and the last of the call calls `done`.
TransitionEnds(i) ==
    LET tr == elements[i].tr
        settled == [elements EXCEPT ![i].opacity = tr.to, ![i].tr = NoTransition]
        removed == RemoveAt(elements, i)
    IN  /\ tr # NoTransition
        /\ IF tr.call = 0
           THEN elements' = settled /\ UNCHANGED <<targets, given, unloads>>
           ELSE LET u == unloads[tr.call]
                IN  /\ unloads' = [unloads EXCEPT ![tr.call].left = @ - 1,
                                                  ![tr.call].state = IF u.left = 1 THEN "done" ELSE @]
                    /\ IF u.left = 1 /\ u.load # <<>> THEN DoLoad(removed, targets, u.load)
                       ELSE elements' = removed /\ UNCHANGED <<targets, given>>
        /\ UNCHANGED <<hidden, flows, flowing, hasty, calls>>

-----------------------------------------------------------------------------
(* Views.                                                                  *)

RemoveHiddenTargetIds(ids) ==
    Chosen(hidden, {i \in DOMAIN hidden : ~ Contains(ids, hidden[i])})

View(shown, hid) ==
    /\ calls.view < MaxViews
    /\ hidden' = RemoveHiddenTargetIds(shown) \o hid   \* addHiddenTargetIds(hid)
    /\ elements' = Fade(Fade(elements, ToSet(shown), 1, 0), ToSet(hid), 0, 0)
    /\ hasty' = (hasty \/ Unloading)
    /\ Count("view")
    /\ UNCHANGED <<targets, given, unloads, flows, flowing>>

Hide == \E ids \in ViewLists : View(<<>>, ids)
Show == \E ids \in ViewLists : View(ids, <<>>)
Toggle == \E ids \in ViewLists :
              LET shown == {i \in DOMAIN ids : IsTargetToShow(ids[i])}
              IN  View(Chosen(ids, DOMAIN ids \ shown), Chosen(ids, shown))

-----------------------------------------------------------------------------
(* Flow: values are added at the tail of every target, and as many are     *)
(* removed at the head when the chart has been drawn with them.            *)

TailOf(t) == t.values[Len(t.values)].index + 1

At(t, from, values) ==
    [t EXCEPT !.values = @ \o [k \in DOMAIN values |-> [index |-> from + k - 1, value |-> values[k]]]]

\* The tail of the last target that is not named, or else of the last that is.
LastTail(ids) ==
    LET unnamed == WithoutTargets(targets, ids)
    IN  TailOf(Last(IF unnamed = <<>> THEN targets ELSE unnamed))

Missing(ids) == Chosen(ids, {i \in DOMAIN ids : ~ HasTarget(targets, ids[i])})

\* flow of one value for each of `ids`.  A target that is not named is given as
\* many nulls as one that is; one that is new gets nulls for the values that
\* the others have.
Flowed(ids, n) ==
    LET there == [i \in DOMAIN targets |->
                     At(targets[i], TailOf(targets[i]),
                        IF Contains(ids, targets[i].id) THEN Given(1) ELSE [k \in 1 .. n |-> Null])]
        tail == LastTail(ids)
        first == targets[1].values[1].index
        new(id) == At(At([id |-> id, values |-> <<>>], first, [k \in 1 .. tail - first |-> Null]),
                      tail, Given(1))
        added == Missing(ids)
    IN  IF targets = <<>> THEN [i \in DOMAIN ids |-> At([id |-> ids[i], values |-> <<>>], 0, Given(1))]
        ELSE there \o [i \in DOMAIN added |-> new(added[i])]

GivenByFlow(ts, n) ==
    [id \in Ids |->
        IF ~ HasTarget(ts, id) THEN given[id]
        ELSE LET t == ts[CHOOSE k \in DOMAIN ts : ts[k].id = id]
                 values == [k \in DOMAIN t.values |-> t.values[k].value]
             IN  IF HasTarget(targets, id)
                 THEN given[id] \o SubSeq(values, Len(values) - n + 1, Len(values)) ELSE values]

\* redraw: a chart of at most one value is drawn without transitions, and then
\* nothing is removed and the end of the flow is never told.
Drawn(ts) == IF \E i \in DOMAIN ts : Len(ts[i].values) > 1 THEN "drawing" ELSE "undrawn"

\* The flow leaves all targets of one length: it is not for new ones only, and
\* there are none that are new unless those there begin at the same index.
Even(ids) ==
    /\ Existing(ids) # <<>>
    /\ Missing(ids) = <<>> \/ \A i \in DOMAIN targets :
                                  targets[i].values[1].index = targets[1].values[1].index

\* As many values are removed at the head as the named ones that are there got,
\* none if only new ones are named.
Flow ==
    /\ MayCall
    /\ \A i \in DOMAIN targets : targets[i].values # <<>>
    /\ \E ids \in IdLists :
          LET n == IF Existing(ids) = <<>> THEN 0 ELSE 1
          IN  /\ targets' = Flowed(ids, n)
              /\ elements' = UpdateTargets(elements, targets')
              /\ given' = GivenByFlow(targets', n)
              /\ flows' = Append(flows,
                     [index |-> targets'[1].values[1].index, length |-> n,
                      state |-> Drawn(targets), even |-> Even(ids)])
    /\ hasty' = (hasty \/ Unloading \/ Flowing)
    /\ Count("data")
    /\ UNCHANGED <<hidden, unloads, flowing>>

\* remove head data after rendered
Beheaded(ts, n) == [i \in DOMAIN ts |-> [ts[i] EXCEPT !.values = SubSeq(@, n + 1, Len(@))]]

HasIndex(ts, index) == ts # <<>> /\ \E k \in DOMAIN ts[1].values : ts[1].values[k].index = index

\* The chart has been drawn: the head is removed and the chart begins to move.
\* The values from and to which it moves are looked up by the index they had
\* when flow was called; if one is not there any more, this ends in an exception.
StartFlow(k) ==
    LET f == flows[k]
    IN  /\ f.state = "drawing"
        /\ IF targets = <<>>
           THEN /\ flows' = [flows EXCEPT ![k].state = "thrown"]
                /\ UNCHANGED <<targets, flowing>>
           ELSE /\ flowing' = TRUE
                /\ targets' = Beheaded(targets, f.length)
                /\ flows' = [flows EXCEPT ![k].state =
                                IF HasIndex(targets, f.index) /\ HasIndex(targets, f.index + f.length)
                                THEN "flowing" ELSE "thrown"]
        /\ UNCHANGED <<elements, hidden, unloads, given, hasty, calls>>

\* Mutant: the flag is left as it is.
FlowFlagKept(k) == flowing

\* `done` is called and the flag falls, whatever other flows there are.
FlowFlag(k) == FALSE

FinishFlow(k) ==
    /\ flows[k].state = "flowing"
    /\ flows' = [flows EXCEPT ![k].state = "done"]
    /\ flowing' = FlowFlag(k)
    /\ UNCHANGED <<targets, elements, hidden, unloads, given, hasty, calls>>

Next ==
    \/ Load \/ LoadUnloading \/ Unload \/ Hide \/ Show \/ Toggle \/ Flow
    \/ \E i \in DOMAIN elements : TransitionEnds(i)
    \/ \E k \in DOMAIN flows : StartFlow(k) \/ FinishFlow(k)

Spec == Init /\ [][Next]_vars

\* d3's timers run for as long as the page is open: transitions end, and waits
\* are looked at every 10 ms.
FairSpec ==
    /\ Spec
    /\ WF_vars(\E i \in DOMAIN elements : TransitionEnds(i))
    /\ WF_vars(\E k \in DOMAIN flows : StartFlow(k) \/ FinishFlow(k))
-----------------------------------------------------------------------------
TypeOK ==
    /\ \A i \in DOMAIN targets :
         /\ targets[i].id \in Ids
         /\ \A k \in DOMAIN targets[i].values :
              targets[i].values[k] \in [index : Nat, value : Null .. MaxData]
    /\ \A i \in DOMAIN elements :
         /\ elements[i].id \in Ids /\ elements[i].opacity \in {0, 1}
         /\ elements[i].tr = NoTransition \/ elements[i].tr \in [to : {0, 1}, call : 0 .. Len(unloads)]
    /\ hidden \in Seq(Ids)
    /\ \A k \in DOMAIN unloads :
         /\ unloads[k].state \in {"running", "done"}
         /\ Cardinality({i \in DOMAIN elements : elements[i].tr.call = k}) <= unloads[k].left
    /\ \A k \in DOMAIN flows : flows[k].state \in {"drawing", "undrawn", "flowing", "thrown", "done"}
    /\ flowing \in BOOLEAN /\ hasty \in BOOLEAN

\* However the calls overlap, no id has two targets, the values of a target
\* have indices that run on without a gap, as the shapes that are looked up by
\* index need them, and the values are those given last in the order they were
\* given: only the oldest are ever missing (load, unload and flow).
LatestInOrder ==
    /\ IsInjective(IdsOf(targets))
    /\ \A i \in DOMAIN targets :
         LET t == targets[i]
             values == [k \in DOMAIN t.values |-> t.values[k].value]
         IN  /\ \A k \in DOMAIN t.values : t.values[k].index = t.values[1].index + k - 1
             /\ IsSuffix(values, given[t.id])

\* If the page waits for the end of every unload and flow, the elements are
\* those of the data, in the same order, although they are joined by position
\* alone, and each one that is not in transition is visible unless its target is
\* hidden (updateTargets, show and hide).
ShownAsData ==
    ~ hasty /\ ~ Unloading =>
        /\ IdsOf(elements) = IdsOf(targets)
        /\ \A i \in DOMAIN elements :
             elements[i].tr = NoTransition =>
                 elements[i].opacity = IF IsTargetToShow(elements[i].id) THEN 1 ELSE 0

\* If the page waits likewise, and new targets came by a flow only beside others
\* that got values of it and all began at one index, a chart has as many values
\* of each target after a flow as before it.  The flag that makes it deaf to the
\* mouse is up only while something flows (flow, generateFlow).
FlowKeepsLength ==
    ~ hasty /\ ~ Flowing =>
        /\ (\A k \in DOMAIN flows : flows[k].even) =>
              \A i \in DOMAIN targets : Len(targets[i].values) = LoadLength
        /\ ~ flowing

\* What a page that waits for each call to end can rely on.
PatientPageServed == ShownAsData /\ FlowKeepsLength

\* A call has begun and not told that it is over.
Underway == Unloading \/ \E k \in DOMAIN flows : ~ FlowOver(k)

\* If the page waits likewise, every unload ends, so that what is to be loaded
\* after it is loaded, and every flow of more than one value ends and tells so.
CallsEnd == Underway ~> hasty \/ ~ Underway
=============================================================================
