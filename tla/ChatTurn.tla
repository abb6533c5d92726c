------------------------------ MODULE ChatTurn ------------------------------
(***************************************************************************)
(* One question of a user, from POST /sessions/{id}/messages to the last   *)
(* frame of the event stream (api/v1/chat.py, chat_stream_service.py), and *)
(* the admin's sandbox stream, beside the endpoints that rename, scope and *)
(* delete the session and change the user's permissions meanwhile.  The    *)
(* graph behind the stream is the contract of AgentTurn.                   *)
(*                                                                         *)
(* Abstractions: one user; a run of delta frames is one frame; agentic     *)
(* frames (plan, step, budget, replan) are left out, they carry no state.  *)
(* The branch for an empty final answer is left out: AgentTurn excludes it.*)
(***************************************************************************)
EXTENDS Integers, Sequences, FiniteSets

CONSTANTS
    Turns,      \* requests
    Chats,      \* sessions
    Old,        \* the sessions that exist from the start
    Docs,       \* sources
    Owned       \* those the user created

ASSUME ChatAssumption == Old \subseteq Chats /\ Owned \subseteq Docs

VARIABLES
    chat,      \* rows of chat_sessions
    granted,   \* sources the user has a source_permissions row for
    removed,   \* soft-deleted sources
    turn,      \* the requests
    rows       \* assistant rows each request stored

cvars == <<chat, granted, removed, turn, rows>>

Terminals == {"clarification", "error", "done"}
GraphStates == [phase : {"working", "ended", "raised"}, answer : {"none", "text"},
                asking : BOOLEAN, shipped : {"none", "answer", "other"}]

NoTurn == [pc |-> "idle", kind |-> "chat", chat |-> CHOOSE c \in Chats : TRUE,
           lazy |-> FALSE, titling |-> FALSE, titled |-> FALSE, scope |-> {},
           graph |-> [phase |-> "working", answer |-> "none", asking |-> FALSE,
                      shipped |-> "none"],
           wire |-> <<>>, atYield |-> FALSE, sessions |-> FALSE, cut |-> FALSE]

ChatInit ==
    /\ chat = [c \in Chats |-> [exists |-> c \in Old, deleted |-> FALSE,
                                title |-> "placeholder", allow |-> {}]]
    /\ granted = {} /\ removed = {}
    /\ turn = [t \in Turns |-> NoTurn]
    /\ rows = [t \in Turns |-> <<>>]

-----------------------------------------------------------------------------
(* Permissions and the session endpoints. *)

\* list_source_ids_for_user: the filter on deleted_at is on the owned branch.
Permitted == (Owned \ removed) \cup granted

\* create_session and the lazy path keep the permitted ids only.
NewChat(c, allow) ==
    /\ ~chat[c].exists
    /\ chat' = [chat EXCEPT ![c].exists = TRUE, ![c].allow = allow \cap Permitted]

CreateSession ==
    /\ \E c \in Chats, allow \in SUBSET Docs : NewChat(c, allow)
    /\ UNCHANGED <<granted, removed, turn, rows>>

\* PATCH: the title, the allowlist (unchecked), or both.
UpdateSession ==
    /\ \E c \in Chats, allow \in SUBSET Docs : \E title \in {chat[c].title, "user"} :
          /\ chat[c].exists
          /\ chat' = [chat EXCEPT ![c].title = title, ![c].allow = allow]
    /\ UNCHANGED <<granted, removed, turn, rows>>

DeleteSession ==
    /\ \E c \in Chats : /\ chat[c].exists
                        /\ chat' = [chat EXCEPT ![c].deleted = TRUE]
    /\ UNCHANGED <<granted, removed, turn, rows>>

\* Grants are refused for a source that is gone; its row, once there, stays.
GrantSource ==
    /\ \E d \in Docs \ (granted \cup removed) : granted' = granted \cup {d}
    /\ UNCHANGED <<chat, removed, turn, rows>>

RevokeSource ==
    /\ \E d \in granted : granted' = granted \ {d}
    /\ UNCHANGED <<chat, removed, turn, rows>>

DeleteSource ==
    /\ \E d \in Docs \ removed : removed' = removed \cup {d}
    /\ UNCHANGED <<chat, granted, turn, rows>>

-----------------------------------------------------------------------------
(* The request, before the stream opens. *)

\* Mutant of ScopeOf: the stored allowlist is trusted.
ScopeOfStored(override, allow) ==
    IF override \cup allow = {} THEN Permitted
    ELSE IF override # {} THEN override \cap Permitted ELSE allow

\* get_source_ids_for_session: the override, else the allowlist, else all.
ScopeOf(override, allow) ==
    IF override \cup allow = {} THEN Permitted
    ELSE (IF override # {} THEN override ELSE allow) \cap Permitted

\* send_message up to the commit of the user's message.
SendMessage(t) ==
    /\ turn[t].pc = "idle"
    /\ \E c \in Chats, override \in SUBSET Docs :
          /\ chat[c].exists
          /\ turn' = [turn EXCEPT ![t].pc = "posted", ![t].chat = c,
                          ![t].titling = chat[c].title = "placeholder",
                          ![t].scope = ScopeOf(override, chat[c].allow)]
    /\ UNCHANGED <<chat, granted, removed, rows>>

\* The sentinel "new": the session is created and committed first.
SendFirstMessage(t) ==
    /\ turn[t].pc = "idle"
    /\ \E c \in Chats, allow \in SUBSET Docs :
          /\ NewChat(c, allow)
          /\ turn' = [turn EXCEPT ![t].pc = "created", ![t].chat = c,
                          ![t].lazy = TRUE, ![t].titling = TRUE,
                          ![t].scope = ScopeOf({}, allow \cap Permitted)]
    /\ UNCHANGED <<granted, removed, rows>>

PostFirstMessage(t) ==
    /\ turn[t].pc = "created"
    /\ turn' = [turn EXCEPT ![t].pc = "posted"]
    /\ UNCHANGED <<chat, granted, removed, rows>>

\* The sandbox: one live source, whatever the permissions, and no session.
SandboxStream(t) ==
    /\ turn[t].pc = "idle"
    /\ \E d \in Docs \ removed :
          turn' = [turn EXCEPT ![t].pc = "open", ![t].kind = "sandbox",
                               ![t].scope = {d}]
    /\ UNCHANGED <<chat, granted, removed, rows>>

\* The titler answers: rename writes whatever the title is by now.
Title(t) ==
    /\ turn[t].pc = "posted" /\ turn[t].titling
    /\ chat' = [chat EXCEPT ![turn[t].chat].title = "model"]
    /\ turn' = [turn EXCEPT ![t].pc = "open", ![t].titled = TRUE]
    /\ UNCHANGED <<granted, removed, rows>>

\* No title is due, or the titler or the rename failed.
NoTitle(t) ==
    /\ turn[t].pc = "posted"
    /\ turn' = [turn EXCEPT ![t].pc = "open"]
    /\ UNCHANGED <<chat, granted, removed, rows>>

-----------------------------------------------------------------------------
(* The stream. *)

\* A frame is yielded; a delta behind a delta adds nothing here.
Yield(wire, frame) ==
    IF frame = "delta" /\ wire # <<>> /\ wire[Len(wire)] = "delta"
    THEN wire ELSE Append(wire, frame)

Handshake(t) ==
    (IF turn[t].lazy THEN <<"session_created">> ELSE <<>>)
        \o (IF turn[t].titled THEN <<"title">> ELSE <<>>)

\* The five database sessions of the pipeline are opened, then pre_yield.
OpenStream(t) ==
    /\ turn[t].pc = "open"
    /\ turn' = [turn EXCEPT ![t].pc = "streaming", ![t].sessions = TRUE,
                            ![t].wire = Handshake(t),
                            ![t].atYield = Handshake(t) # <<>>]
    /\ UNCHANGED <<chat, granted, removed, rows>>

Graph(t) == INSTANCE AgentTurn WITH
    phase <- turn[t].graph.phase, answer <- turn[t].graph.answer,
    asking <- turn[t].graph.asking, shipped <- turn[t].graph.shipped

\* The graph moves; tokens become delta frames.
GraphMoves(t, ships) ==
    /\ turn[t].pc = "streaming" /\ turn[t].graph.phase = "working"
    /\ \E g \in GraphStates :
          /\ ships => g.shipped # "none"
          /\ ~ships => g.shipped = "none" \/ turn[t].graph.shipped # "none"
          /\ turn' = [turn EXCEPT ![t].graph = g, ![t].atYield = ships,
                          ![t].wire = IF ships THEN Yield(@, "delta") ELSE @]
    /\ UNCHANGED <<chat, granted, removed, rows>>

GraphWorks(t) == \E ships \in BOOLEAN : GraphMoves(t, ships) /\ Graph(t)!TurnWork
GraphFinishes(t) == GraphMoves(t, FALSE) /\ (Graph(t)!TurnEnd \/ Graph(t)!TurnRaise)

\* A frame that ends the stream.
Terminate(t, frame) ==
    turn' = [turn EXCEPT ![t].pc = "terminal", ![t].atYield = TRUE,
                         ![t].wire = Append(@, frame)]

\* The graph ended asking: no answer is sent and no row is stored.
AskBack(t) ==
    /\ turn[t].pc = "streaming" /\ turn[t].graph.phase = "ended" /\ turn[t].graph.asking
    /\ Terminate(t, "clarification")
    /\ UNCHANGED <<chat, granted, removed, rows>>

\* Mutant of PipelineError: the stream ends without a frame.
PipelineErrorSilent(t) ==
    /\ turn[t].pc = "streaming" /\ turn[t].graph.phase = "raised"
    /\ turn' = [turn EXCEPT ![t].pc = "terminal"]
    /\ UNCHANGED <<chat, granted, removed, rows>>

PipelineError(t) ==
    /\ turn[t].pc = "streaming" /\ turn[t].graph.phase = "raised"
    /\ Terminate(t, "error")
    /\ UNCHANGED <<chat, granted, removed, rows>>

\* The answer is there; one that no token announced is sent whole.
Answer(t) ==
    /\ turn[t].pc = "streaming" /\ turn[t].graph.phase = "ended" /\ ~turn[t].graph.asking
    /\ turn' = [turn EXCEPT ![t].pc = "answered",
                    ![t].atYield = turn[t].graph.shipped = "none",
                    ![t].wire = IF turn[t].graph.shipped = "none"
                                THEN Yield(@, "delta") ELSE @]
    /\ UNCHANGED <<chat, granted, removed, rows>>

Row(partial) == [partial |-> partial, rating |-> 0]

\* Thumbs up or down on a stored message; a second vote replaces the first.
RateMessage(t) ==
    /\ \E i \in 1..Len(rows[t]), rating \in {-1, 1} :
          rows' = [rows EXCEPT ![t][i].rating = rating]
    /\ UNCHANGED <<chat, granted, removed, turn>>

\* on_done commits the row; the sandbox stores nothing.
Store(t) ==
    /\ turn[t].pc = "answered"
    /\ turn' = [turn EXCEPT ![t].pc = "stored", ![t].atYield = FALSE]
    /\ rows' = IF turn[t].kind = "chat"
               THEN [rows EXCEPT ![t] = Append(@, Row(FALSE))] ELSE rows
    /\ UNCHANGED <<chat, granted, removed>>

\* Mutant of PersistError: the handler falls through to the done frame.
PersistErrorFallsThrough(t) ==
    /\ turn[t].pc = "answered" /\ turn[t].kind = "chat"
    /\ turn' = [turn EXCEPT ![t].pc = "stored", ![t].wire = Append(@, "error")]
    /\ UNCHANGED <<chat, granted, removed, rows>>

PersistError(t) ==
    /\ turn[t].pc = "answered" /\ turn[t].kind = "chat"
    /\ Terminate(t, "error")
    /\ UNCHANGED <<chat, granted, removed, rows>>

\* Mutant of Done: the frame does not wait for the commit.
DoneEarly(t) ==
    /\ turn[t].pc \in {"answered", "stored"}
    /\ Terminate(t, "done")
    /\ UNCHANGED <<chat, granted, removed, rows>>

Done(t) ==
    /\ turn[t].pc = "stored"
    /\ Terminate(t, "done")
    /\ UNCHANGED <<chat, granted, removed, rows>>

\* The generator is resumed after its last frame and leaves its scope.
Close(t) ==
    /\ turn[t].pc = "terminal"
    /\ turn' = [turn EXCEPT ![t].pc = "over", ![t].atYield = FALSE,
                            ![t].sessions = FALSE]
    /\ UNCHANGED <<chat, granted, removed, rows>>

\* A frame of this kind was yielded.
Sent(t, frame) == \E i \in 1..Len(turn[t].wire) : turn[t].wire[i] = frame

\* Mutant of Disconnect: the partial is stored whether or not there is one.
DisconnectStores(t) ==
    /\ turn[t].atYield
    /\ turn' = [turn EXCEPT ![t].pc = "over", ![t].atYield = FALSE,
                            ![t].sessions = FALSE, ![t].cut = TRUE]
    /\ \/ rows' = rows
       \/ /\ turn[t].kind = "chat"
          /\ rows' = [rows EXCEPT ![t] = Append(@, Row(TRUE))]
    /\ UNCHANGED <<chat, granted, removed>>

\* The client is gone while the generator stands at a yield: GeneratorExit.
\* What was streamed is stored as a partial row, unless that insert fails.
Disconnect(t) ==
    /\ turn[t].atYield
    /\ turn' = [turn EXCEPT ![t].pc = "over", ![t].atYield = FALSE,
                            ![t].sessions = FALSE, ![t].cut = TRUE]
    /\ \/ rows' = rows
       \/ /\ turn[t].kind = "chat" /\ Sent(t, "delta")
          /\ rows' = [rows EXCEPT ![t] = Append(@, Row(TRUE))]
    /\ UNCHANGED <<chat, granted, removed>>

\* The client is gone, or the process, while the generator awaits: the
\* cancellation is caught by nobody and the stream just ends.
CancelStream(t) ==
    /\ turn[t].pc \notin {"idle", "over"} /\ ~turn[t].atYield
    /\ turn' = [turn EXCEPT ![t].pc = "over", ![t].sessions = FALSE, ![t].cut = TRUE]
    /\ UNCHANGED <<chat, granted, removed, rows>>

-----------------------------------------------------------------------------
Progress(t) ==
    \/ PostFirstMessage(t) \/ Title(t) \/ NoTitle(t) \/ OpenStream(t)
    \/ GraphFinishes(t) \/ AskBack(t) \/ PipelineError(t) \/ Answer(t)
    \/ Store(t) \/ PersistError(t) \/ Done(t) \/ Close(t)

ChatNext ==
    \/ CreateSession \/ UpdateSession \/ DeleteSession
    \/ GrantSource \/ RevokeSource \/ DeleteSource
    \/ \E t \in Turns :
          \/ SendMessage(t) \/ SendFirstMessage(t) \/ SandboxStream(t)
          \/ RateMessage(t) \/ GraphWorks(t) \/ Disconnect(t) \/ CancelStream(t) \/ Progress(t)

ChatSpec == ChatInit /\ [][ChatNext]_cvars

\* The handler runs on by itself; the graph keeps the promise of AgentTurn to
\* come to an end; a client that stays reads on.
ChatFairSpec == ChatSpec /\ \A t \in Turns : WF_cvars(Progress(t))

-----------------------------------------------------------------------------
(* Properties. *)

\* The wire grammar the client is written against: the new session's id comes
\* first, the title before every token, one terminal frame and nothing behind
\* it, and a question back only when no token was sent.
WireGrammar ==
    \A t \in Turns : LET wire == turn[t].wire IN
        /\ \A i \in 1..Len(wire) :
              /\ wire[i] = "session_created" => i = 1 /\ turn[t].lazy
              /\ wire[i] = "title" => \A k \in 1..i : wire[k] # "delta"
              /\ wire[i] \in Terminals => i = Len(wire)
        /\ turn[t].lazy /\ wire # <<>> => wire[1] = "session_created"
        /\ Sent(t, "clarification") => ~Sent(t, "delta")

\* run_pipeline_stream tells the client "done" only about an answer that was
\* sent and whose row is committed: a reload shows it.
DoneIsStored ==
    \A t \in Turns : Sent(t, "done") =>
        /\ Sent(t, "delta")
        /\ turn[t].kind = "chat" => rows[t] # <<>> /\ ~rows[t][1].partial

\* A turn stores its complete answer once, ahead of any partial row; a partial
\* row needs a client that left after tokens (the content is NOT NULL); a
\* question back, a failure and the sandbox store no answer.
RowsOfTurn ==
    \A t \in Turns :
        /\ \A i \in 1..Len(rows[t]) :
              IF rows[t][i].partial THEN turn[t].cut /\ Sent(t, "delta") ELSE i = 1
        /\ \A i, k \in 1..Len(rows[t]) : rows[t][i].partial /\ rows[t][k].partial => i = k
        /\ Sent(t, "clarification") \/ turn[t].kind = "sandbox" => rows[t] = <<>>
        /\ Sent(t, "error") => \A i \in 1..Len(rows[t]) : rows[t][i].partial

\* Whatever the allowlist holds (PATCH does not check it) and whatever was
\* revoked since it was written, a turn searches only what its user may read
\* when it is posted.
ScopePermitted ==
    [][\A t \in Turns : turn[t].pc = "idle" /\ turn'[t].pc \in {"created", "posted"}
          => turn'[t].scope \subseteq Permitted]_cvars

\* Every stream comes to an end that the client sees, unless the client (or
\* the process) went away, and gives its database sessions back (#276).
StreamsEnd ==
    \A t \in Turns : turn[t].pc # "idle" ~>
        /\ turn[t].pc = "over" /\ ~turn[t].sessions
        /\ turn[t].cut \/ \E frame \in Terminals : Sent(t, frame)

\* chat.py says of the titler that a concurrent rename in another tab wins
\* the race.  (The code violates it: the title is read once, on entry.)
UserTitleKept ==
    [][\A c \in Chats : chat[c].title = "user" => chat'[c].title = "user"]_cvars

\* source_permission_repository.py says soft-deleted sources are filtered out
\* of what a user can read.  (The code violates it for granted sources.)
DeletedOutOfScope ==
    [][\A t \in Turns : turn[t].pc = "idle" /\ turn'[t].pc \in {"created", "posted"}
          => turn'[t].scope \cap removed = {}]_cvars
=============================================================================
