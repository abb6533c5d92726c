----------------------------- MODULE AgentTurn ------------------------------
(***************************************************************************)
(* What the compiled pipeline promises to the code that streams it, for    *)
(* one question: it works, may ship tokens of an answer, and either ends   *)
(* with a non-empty final answer or raises.  A turn that ends by asking    *)
(* the user a question back has shipped no token.  chat_stream_service is  *)
(* written against this; AgentGraph shows that the graphs of               *)
(* agent/pipeline.py keep it.                                              *)
(***************************************************************************)

VARIABLES
    phase,     \* "working", "ended" or "raised"
    answer,    \* final_answer: "none", "empty", or what kind of text it is
    asking,    \* requires_clarification
    shipped    \* tokens sent: "none", those of the answer, or of other text

turnVars == <<phase, answer, asking, shipped>>

Answers == {"text", "question", "fallback", "blocked"}
Shipments == {"none", "answer", "other"}

TurnInit ==
    /\ phase = "working" /\ answer = "none"
    /\ asking = FALSE /\ shipped = "none"

\* The graph goes on: drafts replace each other, tokens are never recalled.
TurnWork ==
    /\ phase = "working" /\ phase' = "working"
    /\ answer' \in Answers \cup {"none", "empty"}
    /\ asking' \in BOOLEAN
    /\ shipped' \in Shipments
    /\ shipped # "none" => shipped' # "none"
    /\ asking' => shipped' = "none"

\* The graph reaches END.
TurnEnd ==
    /\ phase = "working" /\ phase' = "ended"
    /\ answer' \in Answers
    /\ asking' = asking
    /\ shipped' \in {shipped, "other"}
    /\ shipped = "none" => shipped' = "none"
    /\ shipped' = "answer" => answer' = answer

\* A node let an exception out, or the graph ran out of supersteps.
TurnRaise ==
    /\ phase = "working" /\ phase' = "raised"
    /\ UNCHANGED <<answer, asking, shipped>>

TurnNext == TurnWork \/ TurnEnd \/ TurnRaise

TurnSpec == TurnInit /\ [][TurnNext]_turnVars /\ <>(phase # "working")
=============================================================================
