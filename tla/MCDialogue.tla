----------------------------- MODULE MCDialogue -----------------------------
(***************************************************************************)
(* A catalog of five of the hundred intents and a set of messages for TLC. *)
(***************************************************************************)
EXTENDS Dialogue

Catalog ==
  [order_status   |-> <<"order_id">>,
   order_cancel   |-> <<"order_id", "reason">>,
   agent_handoff  |-> <<"channel">>,
   product_search |-> <<"query">>,
   product_detail |-> <<"product">>]

Groups ==
  [order_status |-> "orders", order_cancel |-> "orders", agent_handoff |-> "support",
   product_search |-> "products", product_detail |-> "products"]

Doubts == {<<>>, <<"order_cancel", "order_status">>}

Text(cmd) ==    \* a request without values
  [cmd |-> cmd, pick |-> 0, select |-> "none", request |-> TRUE, refer |-> FALSE,
   values |-> <<>>, hint |-> <<>>, prefixed |-> "none", malformed |-> "none"]

(* Anything but a request is the value of a free slot that was asked for.  *)
Words(cmd) ==
  [Text(cmd) EXCEPT !.request = FALSE, !.hint = [reason |-> "words", query |-> "words"]]

Commands ==
  {Text("no"), Words("resume"), Words("thanks"),
   [Words("yes") EXCEPT !.hint = <<>>],     \* only this yes is never taken for a reason
   Words("yes")}

Answers ==
  {[Words("other") EXCEPT !.values = [order_id |-> "o9"]],
   [Words("other") EXCEPT !.values = [channel |-> "chat"]],
   [Words("other") EXCEPT !.values = [product |-> "p1"]],
   [Words("other") EXCEPT !.hint = ("order_id" :> "o1") @@ @],      \* its four digits
   [Words("other") EXCEPT !.pick = 1, !.malformed = "order_id"],    \* "1"
   [Text("other") EXCEPT !.values = [order_id |-> "o2", reason |-> "x"], !.prefixed = "reason"]}

Requests ==
  {Text("other"),
   [Text("other") EXCEPT !.refer = TRUE],
   [Text("other") EXCEPT !.select = "agent_handoff"]}

Messages == Commands \cup Answers \cup Requests
=============================================================================
