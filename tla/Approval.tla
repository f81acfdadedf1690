------------------------------ MODULE Approval ------------------------------
(***************************************************************************)
(* What a conversation promises about the requests (permissions and forms) *)
(* of its agent, whatever the threads, queues and failures behind it: a    *)
(* request that was shown is decided once, a decision is final, and the    *)
(* agent is told at most once, and nothing but the decision that the       *)
(* users were shown.                                                       *)
(***************************************************************************)
CONSTANT Requests

VARIABLES
  status,           \* what the users have been shown of each request
  told              \* what the agent has been told about each request

Decisions == {"allow", "reject", "cancelled"}

ApprovalInit ==
  /\ status = [id \in Requests |-> "unasked"]
  /\ told = [id \in Requests |-> "nothing"]

(* A request is shown, a shown request is decided, or both at once. *)
Decided(id) ==
  /\ \/ status[id] = "unasked" /\ status'[id] \in Decisions \cup {"open"}
     \/ status[id] = "open" /\ status'[id] \in Decisions
  /\ told'[id] = told[id]

(* A request that was withdrawn or has expired is not answered. *)
Told(id) ==
  /\ told[id] = "nothing"
  /\ status[id] \in {"allow", "reject"}
  /\ told'[id] = status[id]
  /\ status'[id] = status[id]

Stays(id) == status'[id] = status[id] /\ told'[id] = told[id]

ApprovalNext ==
  /\ status' \in [Requests -> Decisions \cup {"unasked", "open"}]
  /\ told' \in [Requests -> {"nothing", "allow", "reject"}]
  /\ \A id \in Requests : Stays(id) \/ Decided(id) \/ Told(id)

ApprovalSpec == ApprovalInit /\ [][ApprovalNext]_<<status, told>>
=============================================================================
