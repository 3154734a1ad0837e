------------------------------ MODULE Dialogue ------------------------------
(***************************************************************************)
(* One conversation of examples/customer_service/dialogue.py: the task the *)
(* customer is on (active), tasks interrupted by others (suspended), a     *)
(* pending clarification (choices), and the demo store of actions.py.  An  *)
(* action is a whole turn that commits; a turn that raises leaves the      *)
(* conversation as it was (app.py:130).                                    *)
(*                                                                         *)
(* A message is what the code reads from its text: a command, a number     *)
(* that may pick a choice, an intent clicked in the list, whether it reads *)
(* as a request or refers back, the slot values found in any case (values) *)
(* and the value it would be for a slot that was just asked for (hint), be  *)
(* it behind the slot's name (prefixed) or in a wrong form (malformed).     *)
(* Left out: wording, cards, the swap of a second product (slots.py:79)    *)
(* and the check of an option (actions.py:161), one more way to refuse.    *)
(***************************************************************************)
EXTENDS Integers, Sequences, FiniteSets, SequencesExt, Functions

CONSTANTS Required,         \* Required[i]: the slots of intent i, in the order they are asked
          Confirmed,        \* intents that need a confirmation
          Mutations,        \* handlers "mutation" and "handoff": they write a ticket
          NeedsPaid,        \* mutations of an order that has not left yet
          Cancelling,       \* order_cancel
          Searches,         \* handler "search"
          Described,        \* those of them with handler "product"
          Orders, Paid,     \* the orders of the fixtures, those with status "paid"
          Category,         \* Category[i]: the group that the classifier finds i in
          Utterances,
          Doubtful,         \* bound of the model: rankings that may be unclear
          MaxSuspended,     \* 8 in the code
          MaxTurns          \* bound of the model

Intents == DOMAIN Required
ProductIntents == {i \in Intents : Category[i] = "products"}
Detail  == "product_detail"

ASSUME CatalogAssumption ==
  /\ Cancelling \subseteq NeedsPaid /\ NeedsPaid \subseteq Mutations
  /\ Mutations \subseteq Confirmed /\ Confirmed \subseteq Intents
  /\ \A i \in NeedsPaid : "order_id" \in ToSet(Required[i])
  /\ Detail \in Described /\ Described \cup Searches \subseteq ProductIntents
  /\ DOMAIN Category = Intents /\ Described \cap Searches = {}
ASSUME BoundsAssumption == MaxSuspended \in Nat \ {0} /\ MaxTurns \in Nat

VARIABLES active, suspended, last, choices,
          pending,    \* clarification_text, as a message
          status,     \* status[o]: of order o in the store
          tickets,    \* the store's tickets
          shown,      \* the last summary the customer was asked to confirm
          heard,      \* the command of the last message
          turn

vars == <<active, suspended, last, choices, pending, status, tickets, shown, heard, turn>>
storeVars == <<status, tickets>>
taskVars  == <<active, suspended, last, choices, pending, shown>>

None   == [intent |-> "none", slots |-> <<>>, phase |-> "none"]
NoText == [cmd |-> "none"]
Nothing == [intent |-> "none", slots |-> <<>>]

Init ==
  /\ active = None /\ suspended = <<>> /\ last = None
  /\ choices = <<>> /\ pending = NoText
  /\ status = [o \in Orders |-> IF o \in Paid THEN "paid" ELSE "shipped"]
  /\ tickets = <<>>
  /\ shown = Nothing /\ heard = "none" /\ turn = 0

-----------------------------------------------------------------------------
(* Frames. *)

Unfilled(f, slot) == slot \notin DOMAIN f.slots
Missing(f) ==    \* their places in Required
  {k \in DOMAIN Required[f.intent] : Unfilled(f, Required[f.intent][k])}
Expected(f) == IF Missing(f) = {} THEN "none" ELSE Required[f.intent][Min(Missing(f))]

Update(slots, values) ==    \* dict.update
  [s \in DOMAIN slots \cup DOMAIN values |->
     IF s \in DOMAIN values THEN values[s] ELSE slots[s]]
Found(m, slot) ==
  Update(Restrict(m.hint, DOMAIN m.hint \cap {slot}), m.values)
Useful(values, i) == Restrict(values, DOMAIN values \cap ToSet(Required[i]))
With(f, values) == [f EXCEPT !.slots = Update(@, values), !.phase = "collecting"]

SuspendAll(f) == Append(suspended, f)    \* mutant: no bound
Suspend(f) ==
  LET all == SuspendAll(f)
  IN SubSeq(all, IF Len(all) > MaxSuspended THEN Len(all) - MaxSuspended + 1 ELSE 1, Len(all))

-----------------------------------------------------------------------------
(* The store. *)

NeverRefused(f) == FALSE    \* mutant: executes whatever became of the order
Refused(f) == f.intent \in NeedsPaid /\ status[f.slots["order_id"]] # "paid"

Execute(f) ==
  /\ tickets' = IF f.intent \in Mutations /\ ~Refused(f)
                  THEN Append(tickets, [intent |-> f.intent, slots |-> f.slots]) ELSE tickets
  /\ status' = IF f.intent \in Cancelling /\ ~Refused(f)
                 THEN [status EXCEPT ![f.slots["order_id"]] = "cancelled"] ELSE status

Finish(f) == active' = None /\ last' = [f EXCEPT !.phase = "completed"]

(* What is next for frame f: the order is unknown and asked for again, the *)
(* next slot is asked for, a summary is shown, or the action is done.  A   *)
(* search with a single hit remembers the product.                         *)
Unknown(f) == "order_id" \in DOMAIN f.slots /\ f.slots["order_id"] \notin Orders

Advance(f) ==
  \/ /\ Unknown(f)
     /\ active' = [f EXCEPT !.slots = Restrict(@, DOMAIN @ \ {"order_id"})]
     /\ UNCHANGED <<last, storeVars, shown>>
  \/ /\ ~Unknown(f) /\ Missing(f) # {}
     /\ active' = f
     /\ UNCHANGED <<last, storeVars, shown>>
  \/ /\ ~Unknown(f) /\ Missing(f) = {} /\ f.intent \in Confirmed
     /\ active' = [f EXCEPT !.phase = "confirming"]
     /\ shown' = [intent |-> f.intent, slots |-> f.slots]
     /\ UNCHANGED <<last, storeVars>>
  \/ /\ ~Unknown(f) /\ Missing(f) = {} /\ f.intent \notin Confirmed
     /\ Execute(f)
     /\ \/ Finish(f)
        \/ f.intent \in Searches /\ Finish([f EXCEPT !.slots = Update(@, [product |-> "p1"])])
     /\ UNCHANGED shown

Borrowed(m, prior, i) ==
  IF prior = None \/ ~m.refer THEN <<>>
  ELSE Restrict(prior.slots,
                DOMAIN prior.slots \cap {"order_id", "product"} \cap ToSet(Required[i]))

Activate(i, m) ==
  LET prior == IF active # None THEN active ELSE last
      stays == active # None /\ active.intent = i
      frame == IF stays THEN active
               ELSE [intent |-> i, slots |-> Borrowed(m, prior, i), phase |-> "collecting"]
  IN /\ suspended' = IF active # None /\ ~stays THEN Suspend(active) ELSE suspended
     /\ choices' = <<>> /\ pending' = NoText
     /\ Advance(With(frame, Useful(m.values, i)))

-----------------------------------------------------------------------------
(* The branches of turn(), in their order. *)

NothingToResume(m) ==
  /\ m.cmd = "resume" /\ suspended = <<>>
  /\ UNCHANGED <<taskVars, storeVars>>

ResumedAsItWas(f) ==    \* mutant: the resumed task is not summarised again
  active' = f /\ UNCHANGED <<last, storeVars, shown>>
Resumed(f) == Advance(f)

Resume(m) ==
  /\ m.cmd = "resume" /\ suspended # <<>>
  /\ suspended' = Front(suspended) \o (IF active = None THEN <<>> ELSE <<active>>)
  /\ choices' = <<>> /\ UNCHANGED pending
  /\ Resumed(Last(suspended))

Drops == active # None \/ choices # <<>>

Drop(m) ==
  /\ m.cmd = "no" /\ Drops
  /\ active' = None /\ choices' = <<>>
  /\ UNCHANGED <<suspended, last, pending, shown, storeVars>>

PastCommands(m) == m.cmd # "resume" /\ ~(m.cmd = "no" /\ Drops)

Select(m) ==
  /\ PastCommands(m) /\ m.select \in Intents
  /\ Activate(m.select, m)

Picks(m) == m.pick \in DOMAIN choices

Pick(m) ==
  /\ PastCommands(m) /\ m.select \notin Intents /\ Picks(m)
  /\ Activate(choices[m.pick], pending)

PastChoices(m) == PastCommands(m) /\ m.select \notin Intents /\ ~Picks(m)

Thanks(m) ==
  /\ PastChoices(m) /\ m.cmd = "thanks" /\ active # None
  /\ UNCHANGED <<taskVars, storeVars>>

(* The message is read as an answer within the active task only while no   *)
(* clarification is pending.                                               *)
Within(m) ==
  PastChoices(m) /\ m.cmd # "thanks" /\ active # None /\ choices = <<>>

Consents(m) == active.phase = "confirming" /\ m.cmd = "yes"

Confirm(m) ==
  /\ Within(m) /\ Consents(m)
  /\ Execute(active) /\ Finish(active)
  /\ UNCHANGED <<suspended, choices, pending, shown>>

Answer(m) == Useful(Found(m, Expected(active)), active.intent)
Fills(m) ==
  \/ Answer(m) # <<>> /\ ~m.request
  \/ m.prefixed = Expected(active) /\ m.prefixed \in DOMAIN Answer(m)

Fill(m) ==
  /\ Within(m) /\ ~Consents(m) /\ Fills(m)
  /\ choices' = <<>>
  /\ Advance(With(active, Answer(m)))
  /\ UNCHANGED <<suspended, pending>>

Repeat(m) ==
  /\ Within(m) /\ ~Consents(m) /\ ~Fills(m) /\ m.cmd = "yes"
  /\ Advance(active)
  /\ UNCHANGED <<suspended, choices, pending>>

Malformed(m) == m.malformed = Expected(active) /\ m.malformed # "none" /\ ~m.request

AskAgain(m) ==
  /\ Within(m) /\ ~Fills(m) /\ m.cmd # "yes" /\ Malformed(m)
  /\ UNCHANGED <<taskVars, storeVars>>

(* Nothing of the above: a follow-up of the completed task, or the model.  *)
Elsewhere(m) ==
  /\ PastChoices(m)
  /\ ~(m.cmd = "thanks" /\ active # None)
  /\ Within(m) => ~Fills(m) /\ m.cmd # "yes" /\ ~Malformed(m)

FollowsProduct(m) ==
  /\ active = None /\ ~m.request /\ last # None /\ "product" \in DOMAIN m.values
  /\ last.intent \in ProductIntents
FollowsOrder(m) ==
  /\ active = None /\ ~m.request /\ last # None /\ "order_id" \in DOMAIN m.values
  /\ "order_id" \in ToSet(Required[last.intent])

ProductFollowUp(m) ==
  /\ Elsewhere(m) /\ FollowsProduct(m)
  /\ Activate(IF last.intent \in Described THEN last.intent ELSE Detail, m)

OrderFollowUp(m) ==
  /\ Elsewhere(m) /\ ~FollowsProduct(m) /\ FollowsOrder(m)
  /\ Activate(last.intent, m)

Asked(m) == Elsewhere(m) /\ ~FollowsProduct(m) /\ ~FollowsOrder(m)

(* The classifier asks for the category and then for the intent within it. *)
(* Nothing is a candidate when the category is out of scope, else the      *)
(* three likeliest intents of the one category, and the first of them is   *)
(* the intent if both answers were clear enough.                           *)
Rankings ==
  {top \in {<<>>} \cup UNION {[1..n -> Intents] : n \in 1..3} :
     /\ IsInjective(top)
     /\ \A k \in DOMAIN top :
          LET group == {i \in Intents : Category[i] = Category[top[k]]}
          IN Range(top) \subseteq group /\ (Len(top) = 3 \/ Range(top) = group)}
Classifications ==
  [intent : {"none"}, candidates : Rankings \cap Doubtful]
  \cup {[intent |-> Head(top), candidates |-> top] : top \in Rankings \ {<<>>}}

Classified(m, result) ==
  /\ result.intent # "none"
  /\ Activate(result.intent, m)

DropInterrupted(m) == suspended' = suspended    \* mutant: an interrupted task is dropped
SuspendInterrupted(m) == suspended' = Suspend(active)

Unclear(m, result) ==
  /\ result.intent = "none"
  /\ IF active # None /\ m.request THEN SuspendInterrupted(m) /\ active' = None
     ELSE UNCHANGED <<suspended, active>>
  /\ pending' = m /\ choices' = result.candidates
  /\ UNCHANGED <<last, shown, storeVars>>

Turn(m) ==
  /\ turn < MaxTurns
  /\ turn' = turn + 1 /\ heard' = m.cmd
  /\ \/ NothingToResume(m) \/ Resume(m) \/ Drop(m) \/ Select(m) \/ Pick(m) \/ Thanks(m)
     \/ Confirm(m) \/ Fill(m) \/ Repeat(m) \/ AskAgain(m)
     \/ ProductFollowUp(m) \/ OrderFollowUp(m)
     \/ Asked(m) /\ \E result \in Classifications : Classified(m, result) \/ Unclear(m, result)

Next == \E m \in Utterances : Turn(m)
Spec == Init /\ [][Next]_vars

-----------------------------------------------------------------------------
IsFrame(f) ==
  /\ f.intent \in Intents
  /\ DOMAIN f.slots \subseteq ToSet(Required[f.intent]) \cup {"product"}
  /\ f.phase \in {"collecting", "confirming", "completed"}

(* A task that waits for a confirmation, active or suspended, has all its  *)
(* slots and a known order, and if it is active the last summary was of it *)
(* as it is: a yes or a resumption can act on it.                          *)
ConfirmableIsComplete ==
  \A f \in ToSet(suspended) \cup {active} : f.phase = "confirming" =>
    /\ Missing(f) = {} /\ ~Unknown(f) /\ f.intent \in Confirmed
    /\ f = active => shown = [intent |-> f.intent, slots |-> f.slots]

(* Every variable has its type: a frame holds slots of its own intent only *)
(* (or what a search found), one that can be confirmed is complete, and    *)
(* the list of interrupted tasks is bounded, by way of resuming too.       *)
TypeOK ==
  /\ active = None \/ (IsFrame(active) /\ active.phase # "completed")
  /\ \A i \in DOMAIN suspended : IsFrame(suspended[i]) /\ suspended[i].phase # "completed"
  /\ (last = None \/ (IsFrame(last) /\ last.phase = "completed"))
  /\ \A i \in DOMAIN choices : choices[i] \in Intents
  /\ pending \in Utterances \cup {NoText}
  /\ status \in [Orders -> {"paid", "shipped", "cancelled"}]
  /\ \A i \in DOMAIN tickets : tickets[i].intent \in Mutations
  /\ turn \in 0..MaxTurns
  /\ Len(suspended) <= MaxSuspended
  /\ ConfirmableIsComplete

(* A change is made only when the customer says yes, no clarification is   *)
(* pending, and the last summary shown was of exactly this task with       *)
(* exactly these values, whatever was corrected, interrupted or resumed    *)
(* since (dialogue.py:96, "confirmation gates").                           *)
ConsentBeforeChange ==
  [][tickets' # tickets =>
       /\ heard' = "yes" /\ choices = <<>>
       /\ tickets' = Append(tickets, shown)]_vars

(* What was confirmed against an order's old state is not done after it    *)
(* was cancelled through another task (actions.py:143-160).                *)
NothingAfterCancellation ==
  \A i, j \in DOMAIN tickets :
    i < j /\ tickets[i].intent \in Cancelling /\ tickets[j].intent \in NeedsPaid =>
      tickets[i].slots["order_id"] # tickets[j].slots["order_id"]

(* Task g is f, with slots filled or corrected.  Only an order number that *)
(* no order has is taken back, to be asked for again.                      *)
Continues(f, g) ==
  /\ g.intent = f.intent
  /\ DOMAIN f.slots \ DOMAIN g.slots \subseteq IF g.phase = "collecting" THEN {"order_id"} ELSE {}

(* A turn loses no task and none of its slots.  An interrupted task stays  *)
(* as it is until it is resumed, which changes no slot of it and executes  *)
(* nothing; only the oldest of a full list is given up.  The active task   *)
(* is interrupted as it is, goes on or is completed, unless the customer   *)
(* drops it.                                                               *)
TasksKept ==
  [][/\ \A f \in ToSet(suspended) :
          \/ f \in ToSet(suspended')
          \/ heard' = "resume" /\ active'.intent = f.intent /\ active'.slots = f.slots
          \/ Len(suspended) = MaxSuspended /\ f = Head(suspended)
     /\ active # None =>
          \/ active \in ToSet(suspended') \/ heard' = "no"
          \/ Continues(active, active') \/ Continues(active, last')]_vars
=============================================================================
