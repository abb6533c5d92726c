--------------------------- MODULE ChatTurn_proofs ---------------------------
(***************************************************************************)
(* Proofs about ChatTurn.  Good says of one turn, stage by stage, what has *)
(* gone out to the client and what has been stored; each step changes one  *)
(* turn and leaves it good.  The grammar of the frames and the promises    *)
(* about rows are read off it.                                             *)
(***************************************************************************)
EXTENDS ChatTurn, TLAPS

Frames == {"session_created", "title", "delta"} \cup Terminals
RowTypes == [partial : BOOLEAN, rating : {-1, 0, 1}]
TurnTypes ==
    [pc : {"idle", "created", "posted", "open", "streaming", "answered", "stored", "terminal", "over"},
     kind : {"chat", "sandbox"}, chat : Chats \cup {NoTurn.chat}, lazy : BOOLEAN, titling : BOOLEAN, titled : BOOLEAN,
     scope : SUBSET Docs, graph : GraphStates, wire : Seq(Frames), atYield : BOOLEAN,
     sessions : BOOLEAN, cut : BOOLEAN]

Has(wire, frame) == \E i \in 1..Len(wire) : wire[i] = frame

Grammatical(wire, lazy) ==
    /\ \A i \in 1..Len(wire) :
          /\ wire[i] = "session_created" => i = 1 /\ lazy
          /\ wire[i] = "title" => \A k \in 1..i : wire[k] # "delta"
          /\ wire[i] \in Terminals => i = Len(wire)
    /\ lazy /\ wire # <<>> => wire[1] = "session_created"
    /\ Has(wire, "clarification") => ~Has(wire, "delta")

\* More frames may follow; the handshake of a lazy session is out.
GoesOn(q) ==
    /\ \A frame \in Terminals : ~Has(q.wire, frame)
    /\ q.lazy => q.wire # <<>>
    /\ ~q.cut

Started == {"idle", "created", "posted", "open"}

\* What a stage has sent and stored.
Staged(q, stored) ==
    /\ q.pc \in Started =>
           /\ q.wire = <<>> /\ stored = <<>> /\ ~q.atYield /\ ~q.cut
           /\ q.graph.shipped = "none" /\ ~q.graph.asking
    /\ q.pc = "streaming" =>
           /\ GoesOn(q) /\ stored = <<>>
           /\ Has(q.wire, "delta") <=> q.graph.shipped # "none"
           /\ q.graph.asking => q.graph.shipped = "none"
    /\ q.pc = "answered" => GoesOn(q) /\ stored = <<>> /\ Has(q.wire, "delta")
    /\ q.pc = "stored" =>
           /\ GoesOn(q) /\ Has(q.wire, "delta") /\ ~q.atYield
           /\ IF q.kind = "chat" THEN Len(stored) = 1 /\ ~stored[1].partial ELSE stored = <<>>
    /\ q.pc = "terminal" =>
           /\ Len(stored) <= 1 /\ \A i \in 1..Len(stored) : ~stored[i].partial
           /\ Has(q.wire, "error") => stored = <<>>
    /\ q.pc = "over" => ~q.atYield

\* What is true of a request for good.
Kept(q, stored) ==
    /\ Has(q.wire, "done") =>
           Has(q.wire, "delta") /\ (q.kind = "chat" => stored # <<>> /\ ~stored[1].partial)
    /\ \A i \in 1..Len(stored) :
           IF stored[i].partial THEN q.cut /\ Has(q.wire, "delta") ELSE i = 1
    /\ \A i, k \in 1..Len(stored) : stored[i].partial /\ stored[k].partial => i = k
    /\ Has(q.wire, "clarification") \/ q.kind = "sandbox" => stored = <<>>
    /\ Has(q.wire, "error") => \A i \in 1..Len(stored) : stored[i].partial

Good(q, stored) ==
    /\ q \in TurnTypes /\ stored \in Seq(RowTypes) /\ Grammatical(q.wire, q.lazy)
    /\ Staged(q, stored) /\ Kept(q, stored)

ChatInv ==
    /\ granted \subseteq Docs
    /\ turn \in [Turns -> TurnTypes] /\ rows \in [Turns -> Seq(RowTypes)]
    /\ \A t \in Turns : Good(turn[t], rows[t])

-----------------------------------------------------------------------------
(* Frames. *)

\* Appending one frame to a stream that goes on.
LEMMA FrameSent ==
    ASSUME NEW w \in Seq(Frames), NEW lazy \in BOOLEAN, Grammatical(w, lazy),
           \A frame \in Terminals : ~Has(w, frame), lazy => w # <<>>,
           NEW f \in Terminals \cup {"delta"}, f = "clarification" => ~Has(w, "delta")
    PROVE  /\ Append(w, f) \in Seq(Frames) /\ Grammatical(Append(w, f), lazy)
           /\ \A g : Has(Append(w, f), g) <=> Has(w, g) \/ g = f
           /\ Append(w, f) # <<>>
  <1> DEFINE v == Append(w, f)
  <1>1. /\ v \in Seq(Frames) /\ Len(v) = Len(w) + 1 /\ Len(w) \in Nat
        /\ \A i \in 1..Len(w) : v[i] = w[i]
        /\ v[Len(v)] = f
    BY DEF Frames, Terminals
  <1> HIDE DEF v
  <1>2. \A g : Has(v, g) <=> Has(w, g) \/ g = f
    <2> SUFFICES ASSUME NEW g PROVE Has(v, g) <=> Has(w, g) \/ g = f
      OBVIOUS
    <2>1. Has(w, g) => Has(v, g)
      BY <1>1 DEF Has
    <2>2. g = f => Has(v, g)
      BY <1>1 DEF Has
    <2>3. Has(v, g) => Has(w, g) \/ g = f
      BY <1>1 DEF Has
    <2> QED
      BY <2>1, <2>2, <2>3
  <1>3. \A i \in 1..Len(w) : w[i] \notin Terminals
    BY DEF Has
  <1>4. Grammatical(v, lazy)
    <2>1. ASSUME NEW i \in 1..Len(v)
          PROVE  /\ v[i] = "session_created" => i = 1 /\ lazy
                 /\ v[i] = "title" => \A k \in 1..i : v[k] # "delta"
                 /\ v[i] \in Terminals => i = Len(v)
      <3>1. CASE i = Len(v)
        BY <1>1, <3>1 DEF Terminals
      <3>2. CASE i \in 1..Len(w)
        BY <1>1, <1>3, <3>2 DEF Grammatical
      <3> QED
        BY <1>1, <3>1, <3>2
    <2>2. lazy => v[1] = "session_created"
      <3>1. w # <<>> => 1 \in 1..Len(w)
        BY <1>1
      <3> QED
        BY <1>1, <3>1 DEF Grammatical
    <2>3. Has(v, "clarification") => ~Has(v, "delta")
      <3>1. ~Has(w, "clarification")
        BY DEF Terminals
      <3> QED
        BY <1>2, <3>1
    <2> QED
      BY <2>1, <2>2, <2>3 DEF Grammatical
  <1>5. v # <<>>
    BY <1>1
  <1> QED
    BY <1>1, <1>2, <1>4, <1>5 DEF v

\* The first frames.
LEMMA HandshakeSent ==
    ASSUME ChatInv, NEW t \in Turns
    PROVE  LET w == Handshake(t)
           IN  /\ w \in Seq(Frames) /\ Grammatical(w, turn[t].lazy)
               /\ turn[t].lazy => w # <<>>
               /\ \A f \in Terminals \cup {"delta"} : ~Has(w, f)
  <1> DEFINE w == Handshake(t)
  <1>1. turn[t].lazy \in BOOLEAN /\ turn[t].titled \in BOOLEAN
    BY DEF ChatInv, TurnTypes
  <1>2. /\ w \in Seq(Frames)
        /\ turn[t].lazy => w # <<>>
        /\ \A i \in 1..Len(w) :
              /\ w[i] \in {"session_created", "title"}
              /\ w[i] = "session_created" => i = 1 /\ turn[t].lazy
        /\ turn[t].lazy /\ w # <<>> => w[1] = "session_created"
    <2> DEFINE u == IF turn[t].lazy THEN <<"session_created">> ELSE <<>>
               v == IF turn[t].titled THEN <<"title">> ELSE <<>>
    <2>1. /\ u \in Seq({"session_created"}) /\ Len(u) = IF turn[t].lazy THEN 1 ELSE 0
          /\ turn[t].lazy => u[1] = "session_created"
      <3>1. CASE turn[t].lazy
        <4>1. u = <<"session_created">>
          BY <3>1
        <4> QED
          BY <3>1, <4>1
      <3>2. CASE ~turn[t].lazy
        <4>1. u = <<>>
          BY <3>2
        <4> QED
          BY <3>2, <4>1
      <3> QED
        BY <1>1, <3>1, <3>2
    <2>2. /\ v \in Seq({"title"}) /\ Len(v) = IF turn[t].titled THEN 1 ELSE 0
          /\ turn[t].titled => v[1] = "title"
      <3>1. CASE turn[t].titled
        <4>1. v = <<"title">>
          BY <3>1
        <4> QED
          BY <3>1, <4>1
      <3>2. CASE ~turn[t].titled
        <4>1. v = <<>>
          BY <3>2
        <4> QED
          BY <3>2, <4>1
      <3> QED
        BY <1>1, <3>1, <3>2
    <2>3. w = u \o v
      BY DEF Handshake
    <2> HIDE DEF u, v, w
    <2>4. /\ w \in Seq({"session_created", "title"}) /\ Len(w) = Len(u) + Len(v)
          /\ \A i \in 1..Len(w) : w[i] = IF i <= Len(u) THEN u[i] ELSE v[i - Len(u)]
      BY <2>1, <2>2, <2>3
    <2>5. w \in Seq(Frames)
      BY <2>4 DEF Frames
    <2>6. turn[t].lazy => w # <<>>
      BY <1>1, <2>1, <2>2, <2>4
    <2>7. turn[t].lazy /\ w # <<>> => w[1] = "session_created"
      BY <1>1, <2>1, <2>2, <2>4
    <2>8. ASSUME NEW i \in 1..Len(w)
          PROVE  /\ w[i] \in {"session_created", "title"}
                 /\ w[i] = "session_created" => i = 1 /\ turn[t].lazy
      BY <1>1, <2>1, <2>2, <2>4, <2>8
    <2> QED
      BY <2>5, <2>6, <2>7, <2>8
  <1> HIDE DEF w
  <1>3. \A f \in Terminals \cup {"delta"} : ~Has(w, f)
    BY <1>2 DEF Has, Terminals
  <1>4. Grammatical(w, turn[t].lazy)
    <2>1. Len(w) \in Nat
      BY <1>2
    <2> QED
      BY <1>2, <1>3, <2>1 DEF Grammatical, Terminals
  <1> QED
    BY <1>2, <1>3, <1>4 DEF w

\* A token goes out.
LEMMA DeltaSent ==
    ASSUME NEW w \in Seq(Frames), NEW lazy \in BOOLEAN, Grammatical(w, lazy),
           \A frame \in Terminals : ~Has(w, frame), lazy => w # <<>>
    PROVE  LET v == Yield(w, "delta")
           IN  /\ v \in Seq(Frames) /\ Grammatical(v, lazy) /\ v # <<>>
               /\ \A g : Has(v, g) <=> Has(w, g) \/ g = "delta"
  <1>1. CASE w # <<>> /\ w[Len(w)] = "delta"
    <2>1. Has(w, "delta")
      BY <1>1 DEF Has
    <2> QED
      BY <1>1, <2>1 DEF Yield
  <1>2. CASE ~(w # <<>> /\ w[Len(w)] = "delta")
    BY <1>2, FrameSent DEF Yield
  <1> QED
    BY <1>1, <1>2

-----------------------------------------------------------------------------
(* Steps. *)

\* Only the request t and its rows change.
Only(t) ==
    /\ granted' = granted
    /\ turn' = [s \in Turns |-> IF s = t THEN turn'[t] ELSE turn[s]]
    /\ rows' = [s \in Turns |-> IF s = t THEN rows'[t] ELSE rows[s]]

\* A step that leaves its request good leaves all of them good.
LEMMA OneMoves ==
    ASSUME ChatInv, NEW t \in Turns, Only(t), Good(turn'[t], rows'[t])
    PROVE  ChatInv'
  <1>1. \A s \in Turns : Good(turn'[s], rows'[s])
    BY DEF ChatInv, Only
  <1>2. /\ turn' \in [Turns -> TurnTypes] /\ rows' \in [Turns -> Seq(RowTypes)]
        /\ granted' \subseteq Docs
    <2>1. turn'[t] \in TurnTypes /\ rows'[t] \in Seq(RowTypes)
      BY DEF Good, Staged, Kept
    <2> QED
      BY <2>1 DEF ChatInv, Only
  <1> QED
    BY <1>1, <1>2 DEF ChatInv

\* Before the stream opens nothing is sent and nothing stored.
LEMMA NothingSent ==
    ASSUME NEW q \in TurnTypes, q.pc \in Started, q.wire = <<>>, ~q.atYield, ~q.cut,
           q.graph.shipped = "none", ~q.graph.asking
    PROVE  Good(q, <<>>)
  <1>1. Grammatical(<<>>, q.lazy) /\ \A f : ~Has(<<>>, f)
    BY DEF Grammatical, Has
  <1>2. <<>> \in Seq(RowTypes) /\ Len(<<>>) = 0
    OBVIOUS
  <1> QED
    BY <1>1, <1>2 DEF Good, Staged, Kept, Started

\* The initial states.
LEMMA InitGood ==
    ASSUME ChatInit
    PROVE  ChatInv
  <1>1. NoTurn \in TurnTypes
    BY DEF NoTurn, TurnTypes, GraphStates
  <1>2. Good(NoTurn, <<>>)
    BY <1>1, NothingSent DEF NoTurn, Started
  <1>3. <<>> \in Seq(RowTypes)
    OBVIOUS
  <1> QED
    BY <1>1, <1>2, <1>3 DEF ChatInit, ChatInv

\* A request that starts, or goes on to its stream.
Prepares(t) ==
    SendMessage(t) \/ SendFirstMessage(t) \/ SandboxStream(t)
        \/ PostFirstMessage(t) \/ Title(t) \/ NoTitle(t)

\* Up to the stream a request only moves on.
LEMMA PreparesKept ==
    ASSUME ChatInv, NEW t \in Turns, Prepares(t)
    PROVE  ChatInv'
  <1> USE ChatAssumption
  <1> DEFINE q == turn[t]
             p == turn'[t]
  <1>1. /\ q \in TurnTypes /\ turn \in [Turns -> TurnTypes] /\ rows \in [Turns -> Seq(RowTypes)]
        /\ Good(q, rows[t]) /\ granted \subseteq Docs
    BY DEF ChatInv
  <1>2. q.pc \in Started /\ rows' = rows /\ granted' = granted
    BY DEF Prepares, SendMessage, SendFirstMessage, SandboxStream, PostFirstMessage, Title, NoTitle, Started
  <1>3. q.wire = <<>> /\ rows[t] = <<>> /\ ~q.atYield /\ ~q.cut
        /\ q.graph.shipped = "none" /\ ~q.graph.asking
    BY <1>1, <1>2 DEF Good, Staged, Kept
  <1>4. Permitted \subseteq Docs
    BY <1>1 DEF Permitted
  <1>5. /\ p \in TurnTypes /\ p.pc \in Started
        /\ p.wire = q.wire /\ p.atYield = q.atYield /\ p.cut = q.cut /\ p.graph = q.graph
        /\ turn' = [s \in Turns |-> IF s = t THEN turn'[t] ELSE turn[s]]
    <2>1. CASE SendMessage(t)
      <3>1. PICK c \in Chats, override \in SUBSET Docs :
                turn' = [turn EXCEPT ![t].pc = "posted", ![t].chat = c,
                             ![t].titling = (chat[c].title = "placeholder"),
                             ![t].scope = ScopeOf(override, chat[c].allow)]
        BY <2>1 DEF SendMessage
      <3>2. ScopeOf(override, chat[c].allow) \subseteq Docs
        BY <1>4 DEF ScopeOf
      <3> QED
        BY <1>1, <3>1, <3>2 DEF TurnTypes, Started
    <2>2. CASE SendFirstMessage(t)
      <3>1. PICK c \in Chats, allow \in SUBSET Docs :
                turn' = [turn EXCEPT ![t].pc = "created", ![t].chat = c,
                             ![t].lazy = TRUE, ![t].titling = TRUE,
                             ![t].scope = ScopeOf({}, allow \cap Permitted)]
        BY <2>2 DEF SendFirstMessage
      <3>2. ScopeOf({}, allow \cap Permitted) \subseteq Docs
        BY <1>4 DEF ScopeOf
      <3> QED
        BY <1>1, <3>1, <3>2 DEF TurnTypes, Started
    <2>3. CASE SandboxStream(t)
      <3>1. PICK d \in Docs :
                turn' = [turn EXCEPT ![t].pc = "open", ![t].kind = "sandbox", ![t].scope = {d}]
        BY <2>3 DEF SandboxStream
      <3> QED
        BY <1>1, <3>1 DEF TurnTypes, Started
    <2>4. CASE PostFirstMessage(t)
      BY <1>1, <2>4 DEF PostFirstMessage, TurnTypes, Started
    <2>5. CASE Title(t)
      BY <1>1, <2>5 DEF Title, TurnTypes, Started
    <2>6. CASE NoTitle(t)
      BY <1>1, <2>6 DEF NoTitle, TurnTypes, Started
    <2> QED
      BY <2>1, <2>2, <2>3, <2>4, <2>5, <2>6 DEF Prepares
  <1>6. Good(p, <<>>)
    BY <1>3, <1>5, NothingSent
  <1> QED
    BY <1>1, <1>2, <1>3, <1>5, <1>6, OneMoves DEF Only

\* The stream opens with its handshake.
LEMMA OpenKept ==
    ASSUME ChatInv, NEW t \in Turns, OpenStream(t)
    PROVE  ChatInv'
  <1> DEFINE q == turn[t]
             p == turn'[t]
  <1>1. /\ q \in TurnTypes /\ turn \in [Turns -> TurnTypes] /\ rows \in [Turns -> Seq(RowTypes)]
        /\ Good(q, rows[t]) /\ q.pc = "open" /\ rows' = rows /\ granted' = granted
    BY DEF ChatInv, OpenStream
  <1>2. rows[t] = <<>> /\ ~q.cut /\ q.graph.shipped = "none" /\ ~q.graph.asking
    BY <1>1 DEF Good, Staged, Kept, Started
  <1>3. /\ Handshake(t) \in Seq(Frames) /\ Grammatical(Handshake(t), q.lazy)
        /\ q.lazy => Handshake(t) # <<>>
        /\ \A f \in Terminals \cup {"delta"} : ~Has(Handshake(t), f)
    BY HandshakeSent
  <1>4. /\ p \in TurnTypes /\ p.pc = "streaming" /\ p.wire = Handshake(t) /\ p.lazy = q.lazy
        /\ p.graph = q.graph /\ p.cut = q.cut
        /\ turn' = [s \in Turns |-> IF s = t THEN turn'[t] ELSE turn[s]]
    <2>1. PICK w \in Seq(Frames), b \in BOOLEAN :
             /\ w = Handshake(t)
             /\ turn' = [turn EXCEPT ![t].pc = "streaming", ![t].sessions = TRUE,
                                     ![t].wire = w, ![t].atYield = b]
      BY <1>3 DEF OpenStream
    <2> QED
      BY <1>1, <2>1 DEF TurnTypes
  <1>5. Len(<<>>) = 0 /\ rows[t] \in Seq(RowTypes)
    BY <1>1
  <1>6. Good(p, rows[t])
    <2> HIDE DEF p, q
    <2>1. GoesOn(p)
      BY <1>2, <1>3, <1>4 DEF GoesOn
    <2>2. ~Has(p.wire, "delta") /\ ~Has(p.wire, "done") /\ ~Has(p.wire, "error")
          /\ ~Has(p.wire, "clarification")
      BY <1>3, <1>4 DEF Terminals
    <2> QED
      BY <1>2, <1>3, <1>4, <1>5, <2>1, <2>2 DEF Good, Staged, Kept, Started
  <1> QED
    BY <1>1, <1>4, <1>6, OneMoves DEF Only

\* The graph moves: a token is out exactly when the graph has shipped one.
LEMMA GraphKept ==
    ASSUME ChatInv, NEW t \in Turns, GraphWorks(t) \/ GraphFinishes(t)
    PROVE  ChatInv'
  <1> DEFINE q == turn[t]
             p == turn'[t]
  <1>1. PICK ships \in BOOLEAN :
            /\ GraphMoves(t, ships)
            /\ Graph(t)!TurnWork \/ (~ships /\ (Graph(t)!TurnEnd \/ Graph(t)!TurnRaise))
    BY DEF GraphWorks, GraphFinishes
  <1>2. /\ q \in TurnTypes /\ turn \in [Turns -> TurnTypes] /\ rows \in [Turns -> Seq(RowTypes)]
        /\ Good(q, rows[t]) /\ q.pc = "streaming" /\ rows' = rows /\ granted' = granted
    BY <1>1 DEF ChatInv, GraphMoves
  <1>3. /\ q.graph.shipped # "none" => p.graph.shipped # "none"
        /\ p.graph.asking => p.graph.shipped = "none"
        /\ ~ships => (p.graph.shipped # "none" <=> q.graph.shipped # "none")
        /\ ships => p.graph.shipped # "none"
    <2>1. q.graph.asking => q.graph.shipped = "none"
      BY <1>2 DEF Good, Staged, Kept, Started
    <2>2. CASE Graph(t)!TurnWork
      <3>1. /\ ships => p.graph.shipped # "none"
            /\ ~ships => p.graph.shipped = "none" \/ q.graph.shipped # "none"
        BY <1>1, <1>2 DEF GraphMoves, TurnTypes
      <3> QED
        BY <2>2, <3>1 DEF Graph!TurnWork
    <2>3. CASE ~ships /\ Graph(t)!TurnEnd
      BY <1>1, <2>1, <2>3 DEF Graph!TurnEnd, GraphMoves
    <2>4. CASE ~ships /\ Graph(t)!TurnRaise
      BY <1>1, <2>1, <2>4 DEF Graph!TurnRaise, GraphMoves
    <2> QED
      BY <1>1, <2>2, <2>3, <2>4
  <1>4. /\ GoesOn(q) /\ rows[t] = <<>> /\ Grammatical(q.wire, q.lazy)
        /\ Has(q.wire, "delta") <=> q.graph.shipped # "none"
    BY <1>2 DEF Good, Staged, Kept, Started
  <1> DEFINE w == IF ships THEN Yield(q.wire, "delta") ELSE q.wire
  <1>5. /\ w \in Seq(Frames) /\ Grammatical(w, q.lazy)
        /\ q.lazy => w # <<>>
        /\ \A f : Has(w, f) <=> Has(q.wire, f) \/ (ships /\ f = "delta")
    <2>1. q.wire \in Seq(Frames) /\ q.lazy \in BOOLEAN
      BY <1>2 DEF TurnTypes
    <2> QED
      BY <1>4, <2>1, DeltaSent DEF GoesOn
  <1> HIDE DEF w
  <1>6. /\ p \in TurnTypes /\ p.pc = "streaming" /\ p.wire = w /\ p.lazy = q.lazy /\ p.cut = q.cut
        /\ turn' = [s \in Turns |-> IF s = t THEN turn'[t] ELSE turn[s]]
    <2>1. PICK g \in GraphStates :
              turn' = [turn EXCEPT ![t].graph = g, ![t].atYield = ships, ![t].wire = w]
      BY <1>1, <1>2 DEF GraphMoves, w
    <2> QED
      BY <1>2, <1>5, <2>1 DEF TurnTypes
  <1>7. Good(p, rows[t])
    <2> HIDE DEF p, q
    <2>1. GoesOn(p)
      BY <1>4, <1>5, <1>6 DEF GoesOn, Terminals
    <2>2. Has(p.wire, "delta") <=> p.graph.shipped # "none"
      BY <1>3, <1>4, <1>5, <1>6
    <2>3. ~Has(p.wire, "done") /\ ~Has(p.wire, "error") /\ ~Has(p.wire, "clarification")
      BY <2>1 DEF GoesOn, Terminals
    <2>4. Len(<<>>) = 0 /\ rows[t] \in Seq(RowTypes)
      BY <1>2
    <2> QED
      BY <1>3, <1>4, <1>5, <1>6, <2>1, <2>2, <2>3, <2>4 DEF Good, Staged, Kept, Started
  <1> QED
    BY <1>2, <1>6, <1>7, OneMoves DEF Only

\* A frame that ends the stream: what it says is stored is stored.
LEMMA TerminateKept ==
    ASSUME ChatInv, NEW t \in Turns, NEW f \in Terminals, Terminate(t, f),
           rows' = rows, granted' = granted,
           turn[t].pc \in {"streaming", "answered", "stored"},
           f = "clarification" => ~Has(turn[t].wire, "delta"),
           f = "done" <=> turn[t].pc = "stored"
    PROVE  ChatInv'
  <1> DEFINE q == turn[t]
             p == turn'[t]
             w == Append(q.wire, f)
  <1>1. /\ q \in TurnTypes /\ turn \in [Turns -> TurnTypes] /\ rows \in [Turns -> Seq(RowTypes)]
        /\ Good(q, rows[t]) /\ q.wire \in Seq(Frames) /\ q.lazy \in BOOLEAN
        /\ Len(rows[t]) \in Nat /\ Len(<<>>) = 0
    BY DEF ChatInv, TurnTypes
  <1>2. GoesOn(q) /\ Grammatical(q.wire, q.lazy)
    BY <1>1 DEF Good, Staged, Kept
  <1>3. /\ w \in Seq(Frames) /\ Grammatical(w, q.lazy)
        /\ \A g : Has(w, g) <=> Has(q.wire, g) \/ g = f
    <2>1. /\ f \in Terminals \cup {"delta"} /\ \A g \in Terminals : ~Has(q.wire, g)
          /\ q.lazy => q.wire # <<>>
          /\ f = "clarification" => ~Has(q.wire, "delta")
      BY <1>2 DEF GoesOn
    <2> HIDE DEF q
    <2> QED
      BY <1>1, <1>2, <2>1, FrameSent
  <1> HIDE DEF w
  <1>4. /\ p \in TurnTypes /\ p.pc = "terminal" /\ p.wire = w /\ p.lazy = q.lazy /\ p.kind = q.kind
        /\ turn' = [s \in Turns |-> IF s = t THEN turn'[t] ELSE turn[s]]
    <2>1. turn' = [turn EXCEPT ![t].pc = "terminal", ![t].atYield = TRUE, ![t].wire = w]
      BY <1>1 DEF Terminate, w
    <2> QED
      BY <1>1, <1>3, <2>1 DEF TurnTypes
  <1>5. /\ Len(rows[t]) <= 1 /\ \A i \in 1..Len(rows[t]) : ~rows[t][i].partial
        /\ f # "done" \/ q.kind = "sandbox" => rows[t] = <<>>
        /\ f = "done" => Has(q.wire, "delta") /\ (q.kind = "chat" => rows[t] # <<>> /\ ~rows[t][1].partial)
    <2>1. q.kind \in {"chat", "sandbox"}
      BY <1>1 DEF TurnTypes
    <2>2. CASE q.pc = "stored"
      BY <1>1, <2>1, <2>2 DEF Good, Staged, Kept
    <2>3. CASE q.pc \in {"streaming", "answered"}
      BY <1>1, <2>3 DEF Good, Staged, Kept
    <2> QED
      BY <2>2, <2>3
  <1>6. Good(p, rows[t])
    <2> HIDE DEF p, q
    <2>1. /\ Has(p.wire, "done") => f = "done"
          /\ Has(p.wire, "error") => f = "error"
          /\ Has(p.wire, "clarification") => f = "clarification"
          /\ Has(q.wire, "delta") => Has(p.wire, "delta")
      BY <1>2, <1>3, <1>4 DEF GoesOn, Terminals
    <2> QED
      BY <1>1, <1>3, <1>4, <1>5, <2>1 DEF Good, Staged, Kept, Started
  <1> QED
    BY <1>1, <1>4, <1>6, OneMoves DEF Only

\* The answer is there.
LEMMA AnswerKept ==
    ASSUME ChatInv, NEW t \in Turns, Answer(t)
    PROVE  ChatInv'
  <1> DEFINE q == turn[t]
             p == turn'[t]
             w == IF q.graph.shipped = "none" THEN Yield(q.wire, "delta") ELSE q.wire
  <1>1. /\ q \in TurnTypes /\ turn \in [Turns -> TurnTypes] /\ rows \in [Turns -> Seq(RowTypes)]
        /\ Good(q, rows[t]) /\ q.wire \in Seq(Frames) /\ q.lazy \in BOOLEAN
        /\ q.pc = "streaming" /\ rows' = rows /\ granted' = granted /\ Len(<<>>) = 0
    BY DEF ChatInv, TurnTypes, Answer
  <1>2. /\ GoesOn(q) /\ Grammatical(q.wire, q.lazy) /\ rows[t] = <<>>
        /\ Has(q.wire, "delta") <=> q.graph.shipped # "none"
    BY <1>1 DEF Good, Staged, Kept
  <1>3. /\ w \in Seq(Frames) /\ Grammatical(w, q.lazy) /\ Has(w, "delta")
        /\ q.lazy => w # <<>>
        /\ \A g \in Terminals : ~Has(w, g)
    BY <1>1, <1>2, DeltaSent DEF GoesOn, Terminals
  <1> HIDE DEF w
  <1>4. /\ p \in TurnTypes /\ p.pc = "answered" /\ p.wire = w /\ p.lazy = q.lazy /\ p.cut = q.cut
        /\ turn' = [s \in Turns |-> IF s = t THEN turn'[t] ELSE turn[s]]
    <2>1. PICK b \in BOOLEAN :
             turn' = [turn EXCEPT ![t].pc = "answered", ![t].atYield = b, ![t].wire = w]
      BY <1>1 DEF Answer, w
    <2> QED
      BY <1>1, <1>3, <2>1 DEF TurnTypes
  <1>5. Good(p, rows[t])
    <2> HIDE DEF p, q
    <2>1. ~Has(p.wire, "done") /\ ~Has(p.wire, "error") /\ ~Has(p.wire, "clarification")
      BY <1>3, <1>4 DEF Terminals
    <2>2. GoesOn(p) /\ rows[t] \in Seq(RowTypes)
      BY <1>1, <1>2, <1>3, <1>4 DEF GoesOn
    <2> QED
      BY <1>1, <1>2, <1>3, <1>4, <2>1, <2>2 DEF Good, Staged, Kept, Started
  <1> QED
    BY <1>1, <1>4, <1>5, OneMoves DEF Only

\* The complete row, the first of its request.
LEMMA CompleteAdded ==
    /\ Append(<<>>, Row(FALSE)) \in Seq(RowTypes)
    /\ Len(Append(<<>>, Row(FALSE))) = 1
    /\ ~Append(<<>>, Row(FALSE))[1].partial
  <1> DEFINE v == Row(FALSE)
             rs == <<>>
             new == Append(rs, v)
  <1>1. v \in RowTypes /\ ~v.partial
    BY DEF Row, RowTypes
  <1>2. rs \in Seq(RowTypes) /\ Len(rs) = 0
    OBVIOUS
  <1> HIDE DEF rs, v
  <1>3. new \in Seq(RowTypes) /\ Len(new) = 1 /\ new[1] = v
    BY <1>1, <1>2
  <1> QED
    BY <1>1, <1>3 DEF rs, v

\* A partial row behind at most one complete row.
LEMMA PartialAdded ==
    ASSUME NEW rs \in Seq(RowTypes), Len(rs) <= 1, \A i \in 1..Len(rs) : ~rs[i].partial
    PROVE  LET new == Append(rs, Row(TRUE))
           IN  /\ new \in Seq(RowTypes) /\ Len(new) = Len(rs) + 1
               /\ \A i \in 1..Len(new) : IF new[i].partial THEN i = Len(new) ELSE i = 1
               /\ rs # <<>> => new # <<>> /\ ~new[1].partial
               /\ rs = <<>> => \A i \in 1..Len(new) : new[i].partial
  <1> DEFINE v == Row(TRUE)
             new == Append(rs, v)
  <1>1. v \in RowTypes /\ v.partial
    BY DEF Row, RowTypes
  <1> HIDE DEF v
  <1>2. /\ new \in Seq(RowTypes) /\ Len(new) = Len(rs) + 1 /\ Len(rs) \in Nat
        /\ new[Len(new)] = v
        /\ \A i \in 1..Len(rs) : new[i] = rs[i]
        /\ rs = <<>> => Len(rs) = 0
    BY <1>1
  <1> HIDE DEF new
  <1>3. \A i \in 1..Len(new) : IF new[i].partial THEN i = Len(new) ELSE i = 1
    <2> SUFFICES ASSUME NEW i \in 1..Len(new)
                 PROVE  IF new[i].partial THEN i = Len(new) ELSE i = 1
      OBVIOUS
    <2>1. CASE i = Len(new)
      BY <1>1, <1>2, <2>1
    <2>2. CASE i \in 1..Len(rs)
      BY <1>2, <2>2
    <2> QED
      BY <1>2, <2>1, <2>2
  <1>4. rs # <<>> => new # <<>> /\ ~new[1].partial
    BY <1>2
  <1>5. rs = <<>> => \A i \in 1..Len(new) : new[i].partial
    BY <1>1, <1>2
  <1> QED
    BY <1>2, <1>3, <1>4, <1>5 DEF new, v

\* The row is committed, or the sandbox goes by.
LEMMA StoreKept ==
    ASSUME ChatInv, NEW t \in Turns, Store(t)
    PROVE  ChatInv'
  <1> DEFINE q == turn[t]
             p == turn'[t]
             rs == rows'[t]
  <1>1. /\ q \in TurnTypes /\ turn \in [Turns -> TurnTypes] /\ rows \in [Turns -> Seq(RowTypes)]
        /\ Good(q, rows[t]) /\ q.kind \in {"chat", "sandbox"}
        /\ q.pc = "answered" /\ granted' = granted
    BY DEF ChatInv, TurnTypes, Store
  <1>2. GoesOn(q) /\ rows[t] = <<>> /\ Has(q.wire, "delta")
    BY <1>1 DEF Good, Staged, Kept
  <1>3. /\ p \in TurnTypes /\ p.pc = "stored" /\ ~p.atYield
        /\ p.wire = q.wire /\ p.lazy = q.lazy /\ p.cut = q.cut /\ p.kind = q.kind
        /\ turn' = [s \in Turns |-> IF s = t THEN turn'[t] ELSE turn[s]]
    BY <1>1 DEF Store, TurnTypes
  <1>4. /\ rows' = [s \in Turns |-> IF s = t THEN rs ELSE rows[s]]
        /\ rs \in Seq(RowTypes)
        /\ IF q.kind = "chat" THEN Len(rs) = 1 /\ ~rs[1].partial ELSE rs = <<>>
    <2>1. CASE q.kind = "chat"
      <3>1. rows' = [rows EXCEPT ![t] = Append(<<>>, Row(FALSE))]
        BY <1>1, <1>2, <2>1 DEF Store
      <3>2. rs = Append(<<>>, Row(FALSE))
        BY <1>1, <3>1
      <3>3. rows' = [s \in Turns |-> IF s = t THEN rs ELSE rows[s]]
        BY <1>1, <3>1
      <3> QED
        BY <2>1, <3>2, <3>3, CompleteAdded
    <2>2. CASE q.kind # "chat"
      BY <1>1, <1>2, <2>2 DEF Store
    <2> QED
      BY <2>1, <2>2
  <1>5. Good(p, rs)
    <2> HIDE DEF p, q, rs
    <2>1. ~Has(p.wire, "done") /\ ~Has(p.wire, "error") /\ ~Has(p.wire, "clarification")
      BY <1>2, <1>3 DEF GoesOn, Terminals
    <2>2. GoesOn(p) /\ Grammatical(p.wire, p.lazy)
      BY <1>1, <1>2, <1>3 DEF GoesOn, Good, Staged, Kept
    <2>3. Len(<<>>) = 0
      OBVIOUS
    <2>4. /\ \A i \in 1..Len(rs) : i = 1 /\ ~rs[i].partial
          /\ q.kind = "sandbox" => rs = <<>>
      <3>1. CASE q.kind = "chat"
        <4>1. Len(rs) = 1 /\ ~rs[1].partial
          BY <1>4, <3>1
        <4> QED
          BY <3>1, <4>1
      <3>2. CASE q.kind = "sandbox"
        <4>1. rs = <<>>
          BY <1>4, <3>2
        <4> QED
          BY <2>3, <4>1
      <3> QED
        BY <1>1, <3>1, <3>2
    <2> QED
      BY <1>1, <1>2, <1>3, <1>4, <2>1, <2>2, <2>4 DEF Good, Staged, Kept, Started
  <1> QED
    BY <1>1, <1>3, <1>4, <1>5, OneMoves DEF Only

\* A stream that ends without a word: what it sent and stored stays.
LEMMA EndKept ==
    ASSUME ChatInv, NEW t \in Turns, Only(t), rows'[t] = rows[t],
           turn'[t] \in TurnTypes, turn'[t].pc = "over", ~turn'[t].atYield,
           turn[t].cut => turn'[t].cut, turn'[t].wire = turn[t].wire,
           turn'[t].lazy = turn[t].lazy, turn'[t].kind = turn[t].kind
    PROVE  ChatInv'
  <1> DEFINE q == turn[t]
             p == turn'[t]
             rs == rows[t]
  <1>1. /\ Good(q, rs) /\ p \in TurnTypes /\ p.pc = "over" /\ ~p.atYield /\ (q.cut => p.cut)
        /\ p.wire = q.wire /\ p.lazy = q.lazy /\ p.kind = q.kind
    BY DEF ChatInv
  <1>2. Good(p, rs)
    <2> HIDE DEF p, q, rs
    <2> QED
      BY <1>1 DEF Good, Staged, Kept, Started
  <1>3. Good(turn'[t], rows'[t])
    BY <1>2
  <1> QED
    BY <1>3, OneMoves

\* The client is gone: at most one partial row behind the complete one.
LEMMA DisconnectKept ==
    ASSUME ChatInv, NEW t \in Turns, Disconnect(t)
    PROVE  ChatInv'
  <1> DEFINE q == turn[t]
             p == turn'[t]
             rs == Append(rows[t], Row(TRUE))
  <1>1. /\ q \in TurnTypes /\ turn \in [Turns -> TurnTypes] /\ rows \in [Turns -> Seq(RowTypes)]
        /\ Good(q, rows[t]) /\ q.atYield /\ granted' = granted
        /\ turn' = [turn EXCEPT ![t].pc = "over", ![t].atYield = FALSE,
                                ![t].sessions = FALSE, ![t].cut = TRUE]
    BY DEF ChatInv, Disconnect
  <1>2. CASE rows' = rows
    <2>1. /\ p \in TurnTypes /\ p.pc = "over" /\ ~p.atYield /\ p.cut
          /\ p.wire = q.wire /\ p.lazy = q.lazy /\ p.kind = q.kind
      BY <1>1 DEF TurnTypes
    <2>2. Only(t)
      BY <1>1, <1>2 DEF Only
    <2> QED
      BY <1>2, <2>1, <2>2, EndKept
  <1>3. CASE q.kind = "chat" /\ Sent(t, "delta") /\ rows' = [rows EXCEPT ![t] = rs]
    <2>1. /\ p \in TurnTypes /\ p.pc = "over" /\ ~p.atYield /\ p.cut
          /\ p.wire = q.wire /\ p.lazy = q.lazy /\ p.kind = q.kind
          /\ turn' = [s \in Turns |-> IF s = t THEN turn'[t] ELSE turn[s]]
      BY <1>1 DEF TurnTypes
    <2>2. Has(q.wire, "delta") /\ Grammatical(q.wire, q.lazy)
      BY <1>1, <1>3 DEF Sent, Has, Good, Staged, Kept
    <2>3. /\ Len(rows[t]) <= 1 /\ \A i \in 1..Len(rows[t]) : ~rows[t][i].partial
          /\ ~Has(q.wire, "clarification")
          /\ Has(q.wire, "done") => rows[t] # <<>>
          /\ Has(q.wire, "error") => rows[t] = <<>>
      <3> HIDE DEF q
      <3> DEFINE stored == rows[t]
      <3>1. stored \in Seq(RowTypes) /\ Good(q, stored) /\ Len(<<>>) = 0
        BY <1>1
      <3> HIDE DEF stored
      <3>2. q.pc \in {"streaming", "answered", "terminal"}
        BY <1>1, <3>1 DEF Good, Staged, Started, TurnTypes
      <3>3. ~Has(q.wire, "clarification")
        BY <2>2 DEF Grammatical
      <3>4. Has(q.wire, "done") => stored # <<>>
        BY <1>3, <3>1 DEF Good, Kept
      <3>5. CASE q.pc = "terminal"
        BY <3>1, <3>3, <3>4, <3>5 DEF Good, Staged, stored
      <3>6. CASE q.pc \in {"streaming", "answered"}
        <4>1. stored = <<>>
          BY <3>1, <3>6 DEF Good, Staged
        <4>2. Len(stored) = 0
          BY <3>1, <4>1
        <4> QED
          BY <3>3, <3>4, <4>1, <4>2 DEF stored
      <3> QED
        BY <3>2, <3>5, <3>6
    <2>4. /\ rs \in Seq(RowTypes) /\ Len(rs) = Len(rows[t]) + 1
          /\ \A i \in 1..Len(rs) : IF rs[i].partial THEN i = Len(rs) ELSE i = 1
          /\ Has(q.wire, "done") => rs # <<>> /\ ~rs[1].partial
          /\ Has(q.wire, "error") => \A i \in 1..Len(rs) : rs[i].partial
      <3> HIDE DEF q
      <3>1. rows[t] \in Seq(RowTypes)
        BY <1>1
      <3> QED
        BY <2>3, <3>1, PartialAdded
    <2>5. Good(p, rs)
      <3> HIDE DEF p, q, rs
      <3>1. Kept(p, rs)
        BY <1>3, <2>1, <2>2, <2>3, <2>4 DEF Kept
      <3>2. Staged(p, rs)
        BY <2>1 DEF Staged, Started
      <3> QED
        BY <2>1, <2>2, <2>4, <3>1, <3>2 DEF Good
    <2>6. rows' = [s \in Turns |-> IF s = t THEN rs ELSE rows[s]]
      BY <1>1, <1>3
    <2> QED
      <3>1. Only(t)
        BY <1>1, <2>1, <2>6 DEF Only
      <3>2. Good(turn'[t], rows'[t])
        BY <1>1, <1>3, <2>5
      <3> QED
        BY <3>1, <3>2, OneMoves
  <1> QED
    BY <1>2, <1>3 DEF Disconnect

\* Closed by its reader, or cancelled where it awaits.
LEMMA CloseKept ==
    ASSUME ChatInv, NEW t \in Turns, Close(t) \/ CancelStream(t)
    PROVE  ChatInv'
  <1>1. turn \in [Turns -> TurnTypes] /\ rows \in [Turns -> Seq(RowTypes)]
    BY DEF ChatInv
  <1>2. /\ turn'[t] \in TurnTypes /\ turn'[t].pc = "over" /\ ~turn'[t].atYield
        /\ turn[t].cut => turn'[t].cut
        /\ turn'[t].wire = turn[t].wire /\ turn'[t].lazy = turn[t].lazy /\ turn'[t].kind = turn[t].kind
    <2>1. CASE Close(t)
      <3>1. /\ turn' = [turn EXCEPT ![t].pc = "over", ![t].atYield = FALSE, ![t].sessions = FALSE]
            /\ turn[t] \in TurnTypes
        BY <1>1, <2>1 DEF Close
      <3>2. turn'[t] = [turn[t] EXCEPT !.pc = "over", !.atYield = FALSE, !.sessions = FALSE]
        BY <1>1, <3>1
      <3> DEFINE q == turn[t]
                 p == turn'[t]
      <3>3. q \in TurnTypes /\ p = [q EXCEPT !.pc = "over", !.atYield = FALSE, !.sessions = FALSE]
        BY <3>1, <3>2
      <3> HIDE DEF p, q
      <3>4. p \in TurnTypes
        BY <3>3 DEF TurnTypes
      <3>5. /\ p.pc = "over" /\ ~p.atYield /\ p.cut = q.cut
            /\ p.wire = q.wire /\ p.lazy = q.lazy /\ p.kind = q.kind
        BY <3>3 DEF TurnTypes
      <3> QED
        BY <3>4, <3>5 DEF p, q
    <2>2. CASE CancelStream(t)
      <3>1. /\ turn' = [turn EXCEPT ![t].pc = "over", ![t].sessions = FALSE, ![t].cut = TRUE]
            /\ ~turn[t].atYield /\ turn[t] \in TurnTypes
        BY <1>1, <2>2 DEF CancelStream
      <3>2. turn'[t] = [turn[t] EXCEPT !.pc = "over", !.sessions = FALSE, !.cut = TRUE]
        BY <1>1, <3>1
      <3> DEFINE q == turn[t]
                 p == turn'[t]
      <3>3. q \in TurnTypes /\ ~q.atYield /\ p = [q EXCEPT !.pc = "over", !.sessions = FALSE, !.cut = TRUE]
        BY <3>1, <3>2
      <3> HIDE DEF p, q
      <3>4. p \in TurnTypes
        BY <3>3 DEF TurnTypes
      <3>5. /\ p.pc = "over" /\ p.cut /\ p.atYield = q.atYield
            /\ p.wire = q.wire /\ p.lazy = q.lazy /\ p.kind = q.kind
        BY <3>3 DEF TurnTypes
      <3> QED
        BY <3>3, <3>4, <3>5 DEF p, q
    <2> QED
      BY <2>1, <2>2
  <1>3. Only(t) /\ rows'[t] = rows[t]
    BY <1>1 DEF Only, Close, CancelStream
  <1> QED
    BY <1>2, <1>3, EndKept

\* The last frame of each kind.
LEMMA LastFrameKept ==
    ASSUME ChatInv, NEW t \in Turns, AskBack(t) \/ PipelineError(t) \/ PersistError(t) \/ Done(t)
    PROVE  ChatInv'
  <1>1. rows' = rows /\ granted' = granted
    BY DEF AskBack, PipelineError, PersistError, Done
  <1>2. CASE AskBack(t)
    <2>1. ~Has(turn[t].wire, "delta")
      BY <1>2 DEF AskBack, ChatInv, Good, Staged
    <2> QED
      BY <1>1, <1>2, <2>1, TerminateKept DEF AskBack, Terminals
  <1>3. CASE PipelineError(t) \/ PersistError(t)
    BY <1>1, <1>3, TerminateKept DEF PipelineError, PersistError, Terminals
  <1>4. CASE Done(t)
    BY <1>1, <1>4, TerminateKept DEF Done, Terminals
  <1> QED
    BY <1>2, <1>3, <1>4

\* A vote changes no row's kind.
LEMMA RateKept ==
    ASSUME ChatInv, NEW t \in Turns, RateMessage(t)
    PROVE  ChatInv'
  <1> DEFINE q == turn[t]
             old == rows[t]
             new == rows'[t]
  <1>1. /\ turn \in [Turns -> TurnTypes] /\ rows \in [Turns -> Seq(RowTypes)]
        /\ Good(q, old) /\ turn' = turn /\ granted' = granted
    BY DEF ChatInv, RateMessage
  <1>2. PICK i \in 1..Len(old), rating \in {-1, 1} : rows' = [rows EXCEPT ![t][i].rating = rating]
    BY DEF RateMessage
  <1>3. /\ rows' = [s \in Turns |-> IF s = t THEN rows'[t] ELSE rows[s]]
        /\ new = [old EXCEPT ![i].rating = rating]
    BY <1>1, <1>2
  <1>4. /\ new \in Seq(RowTypes) /\ Len(new) = Len(old) /\ old # <<>> /\ new # <<>>
        /\ \A k \in 1..Len(old) : new[k].partial = old[k].partial
    <2>1. old \in Seq(RowTypes)
      BY <1>1
    <2> HIDE DEF old, new
    <2> DEFINE r == old[i]
               v == [r EXCEPT !.rating = rating]
    <2>2. new = [old EXCEPT ![i] = v]
      BY <1>3
    <2>3. v \in RowTypes /\ v.partial = r.partial
      <3>1. r \in RowTypes
        BY <2>1, <1>2
      <3> HIDE DEF r
      <3>2. v = [partial |-> r.partial, rating |-> rating]
        BY <3>1 DEF RowTypes
      <3> QED
        BY <1>2, <3>1, <3>2 DEF RowTypes
    <2> HIDE DEF v
    <2> QED
      BY <1>2, <2>1, <2>2, <2>3
  <1>5. Good(q, new)
    <2> HIDE DEF q, old, new
    <2>1. Len(old) \in Nat /\ (Len(old) >= 1)
      BY <1>2, <1>4
    <2>2. \A k \in 1..Len(new) : new[k].partial <=> old[k].partial
      BY <1>4
    <2>3. 1 \in 1..Len(new) /\ 1 \in 1..Len(old)
      BY <1>4, <2>1
    <2>4. Staged(q, new)
      <3>1. q.pc \notin Started \cup {"streaming", "answered"}
        BY <1>1, <1>4 DEF Good, Staged
      <3>2. q.pc = "stored" =>
               /\ GoesOn(q) /\ Has(q.wire, "delta") /\ ~q.atYield
               /\ q.kind = "chat" /\ Len(new) = 1 /\ ~new[1].partial
        BY <1>1, <1>4, <2>2, <2>3 DEF Good, Staged
      <3>3. q.pc = "terminal" =>
               /\ Len(new) <= 1 /\ \A k \in 1..Len(new) : ~new[k].partial
               /\ ~Has(q.wire, "error")
        BY <1>1, <1>4, <2>2 DEF Good, Staged
      <3>4. q.pc = "over" => ~q.atYield
        BY <1>1 DEF Good, Staged
      <3> QED
        BY <3>1, <3>2, <3>3, <3>4 DEF Staged
    <2>5. Kept(q, new)
      <3>1. Kept(q, old)
        BY <1>1 DEF Good
      <3>2. /\ Has(q.wire, "done") => Has(q.wire, "delta") /\ (q.kind = "chat" => ~new[1].partial)
            /\ ~Has(q.wire, "clarification") /\ q.kind # "sandbox"
        BY <1>4, <2>2, <2>3, <3>1 DEF Kept
      <3>3. \A k \in 1..Len(new) :
               IF new[k].partial THEN q.cut /\ Has(q.wire, "delta") ELSE k = 1
        BY <1>4, <2>2, <3>1 DEF Kept
      <3>4. \A j, k \in 1..Len(new) : new[j].partial /\ new[k].partial => j = k
        BY <1>4, <2>2, <3>1 DEF Kept
      <3>5. Has(q.wire, "error") => \A k \in 1..Len(new) : new[k].partial
        BY <1>4, <2>2, <3>1 DEF Kept
      <3> QED
        BY <1>4, <3>2, <3>3, <3>4, <3>5 DEF Kept
    <2> QED
      BY <1>1, <1>4, <2>4, <2>5 DEF Good
  <1>6. Only(t)
    BY <1>1, <1>3 DEF Only
  <1>7. Good(turn'[t], rows'[t])
    BY <1>1, <1>5
  <1> QED
    BY <1>6, <1>7, OneMoves

-----------------------------------------------------------------------------
(* The endpoints around the turns change no turn. *)

\* Sessions, grants and deletions move no request.
LEMMA AroundKept ==
    ASSUME ChatInv, turn' = turn, rows' = rows, granted' \subseteq Docs
    PROVE  ChatInv'
  BY DEF ChatInv

\* Every step.
LEMMA StepKept ==
    ASSUME ChatInv, [ChatNext]_cvars
    PROVE  ChatInv'
  <1>1. granted \subseteq Docs
    BY DEF ChatInv
  <1>2. CASE CreateSession \/ UpdateSession \/ DeleteSession
             \/ GrantSource \/ RevokeSource \/ DeleteSource \/ UNCHANGED cvars
    <2>1. turn' = turn /\ rows' = rows /\ granted' \subseteq Docs
      BY <1>1, <1>2 DEF CreateSession, UpdateSession, DeleteSession, GrantSource, RevokeSource,
                        DeleteSource, cvars
    <2> QED
      BY <2>1, AroundKept
  <1>3. ASSUME NEW t \in Turns,
               SendMessage(t) \/ SendFirstMessage(t) \/ SandboxStream(t) \/ RateMessage(t)
                   \/ GraphWorks(t) \/ Disconnect(t) \/ CancelStream(t) \/ Progress(t)
        PROVE  ChatInv'
    BY <1>3, PreparesKept, OpenKept, GraphKept, AnswerKept, StoreKept, DisconnectKept, CloseKept,
       LastFrameKept, RateKept DEF Progress, Prepares
  <1> QED
    BY <1>2, <1>3 DEF ChatNext

\* Between any two steps every request is where its frames and rows say.
THEOREM ChatInvariant == ChatSpec => []ChatInv
  <1> QED
    BY InitGood, StepKept, PTL DEF ChatSpec

\* run_pipeline_stream keeps the grammar the client reads by: the handshake
\* first, one terminal frame and nothing behind it, a question back only where
\* no token went out.
THEOREM WireKept == ChatSpec => []WireGrammar
  <1>1. ChatInv => WireGrammar
    BY DEF ChatInv, Good, Grammatical, WireGrammar, Sent, Has
  <1> QED
    BY <1>1, ChatInvariant, PTL

\* run_pipeline_stream says "done" only of an answer that was sent and, in a
\* chat, committed by on_done.
THEOREM DoneStored == ChatSpec => []DoneIsStored
  <1>1. ChatInv => DoneIsStored
    BY DEF ChatInv, Good, Kept, DoneIsStored, Sent, Has
  <1> QED
    BY <1>1, ChatInvariant, PTL

\* on_done and on_disconnect together store one complete answer, ahead of at
\* most one partial row, and nothing for a question back or the sandbox.
THEOREM RowsKept == ChatSpec => []RowsOfTurn
  <1>1. ChatInv => RowsOfTurn
    BY DEF ChatInv, Good, Kept, RowsOfTurn, Sent, Has
  <1> QED
    BY <1>1, ChatInvariant, PTL

\* send_message hands the graph only sources the user may read at that moment,
\* whatever the session's allowlist holds.
THEOREM ScopesPermitted == ChatSpec => ScopePermitted
  <1> DEFINE Asks == \A t \in Turns :
                         turn[t].pc = "idle" /\ turn'[t].pc \in {"created", "posted"}
                             => turn'[t].scope \subseteq Permitted
  <1>1. ASSUME ChatInv, ChatNext, NEW t \in Turns,
               turn[t].pc = "idle", turn'[t].pc \in {"created", "posted"}
        PROVE  turn'[t].scope \subseteq Permitted
    <2>1. turn \in [Turns -> TurnTypes]
      BY <1>1 DEF ChatInv
    <2>2. PICK s \in Turns :
             SendMessage(s) \/ SendFirstMessage(s) \/ SandboxStream(s) \/ RateMessage(s)
                 \/ GraphWorks(s) \/ Disconnect(s) \/ CancelStream(s) \/ Progress(s)
      BY <1>1 DEF ChatNext, CreateSession, UpdateSession, DeleteSession, GrantSource, RevokeSource,
                  DeleteSource
    <2>3. CASE SendMessage(s)
      <3>1. PICK c \in Chats, override \in SUBSET Docs :
                turn' = [turn EXCEPT ![s].pc = "posted", ![s].chat = c,
                             ![s].titling = (chat[c].title = "placeholder"),
                             ![s].scope = ScopeOf(override, chat[c].allow)]
        BY <2>3 DEF SendMessage
      <3>2. turn'[t].scope = ScopeOf(override, chat[c].allow)
        BY <1>1, <2>1, <3>1 DEF TurnTypes
      <3> QED
        BY <3>2 DEF ScopeOf
    <2>4. CASE SendFirstMessage(s)
      <3>1. PICK c \in Chats, allow \in SUBSET Docs :
                turn' = [turn EXCEPT ![s].pc = "created", ![s].chat = c,
                             ![s].lazy = TRUE, ![s].titling = TRUE,
                             ![s].scope = ScopeOf({}, allow \cap Permitted)]
        BY <2>4 DEF SendFirstMessage
      <3>2. turn'[t].scope = ScopeOf({}, allow \cap Permitted)
        BY <1>1, <2>1, <3>1 DEF TurnTypes
      <3> QED
        BY <3>2 DEF ScopeOf
    <2>5. CASE SandboxStream(s) \/ RateMessage(s) \/ GraphWorks(s) \/ Disconnect(s) \/ CancelStream(s)
      <3>1. s # t => turn'[t] = turn[t]
        BY <2>1, <2>5 DEF SandboxStream, RateMessage, GraphWorks, GraphMoves, Disconnect, CancelStream
      <3>2. CASE RateMessage(s)
        BY <1>1, <3>2 DEF RateMessage
      <3>3. CASE GraphWorks(s)
        BY <1>1, <3>1, <3>3 DEF GraphWorks, GraphMoves
      <3>4. CASE Disconnect(s) \/ CancelStream(s)
        <4>1. turn'[s].pc = "over"
          <5>1. CASE Disconnect(s)
            BY <2>1, <5>1 DEF Disconnect, TurnTypes
          <5>2. CASE CancelStream(s)
            BY <2>1, <5>2 DEF CancelStream, TurnTypes
          <5> QED
            BY <3>4, <5>1, <5>2
        <4> QED
          BY <1>1, <3>1, <4>1
      <3>5. CASE SandboxStream(s)
        <4>1. turn'[s].pc = "open"
          BY <2>1, <3>5 DEF SandboxStream, TurnTypes
        <4> QED
          BY <1>1, <3>1, <4>1
      <3> QED
        BY <2>5, <3>2, <3>3, <3>4, <3>5
    <2>6. CASE Progress(s)
      <3>1. s # t => turn'[t] = turn[t]
        <4>1. CASE PostFirstMessage(s) \/ Title(s) \/ NoTitle(s) \/ OpenStream(s) \/ Close(s)
          BY <2>1, <4>1 DEF PostFirstMessage, Title, NoTitle, OpenStream, Close
        <4>2. CASE AskBack(s) \/ PipelineError(s) \/ PersistError(s) \/ Done(s)
          BY <2>1, <4>2 DEF AskBack, PipelineError, PersistError, Done, Terminate
        <4>3. CASE GraphFinishes(s) \/ Answer(s) \/ Store(s)
          BY <2>1, <4>3 DEF GraphFinishes, GraphMoves, Answer, Store
        <4> QED
          BY <2>6, <4>1, <4>2, <4>3 DEF Progress
      <3>2. turn[s].pc # "idle"
        BY <2>6 DEF Progress, PostFirstMessage, Title, NoTitle, OpenStream, GraphFinishes,
           GraphMoves, AskBack, PipelineError, PersistError, Done, Answer, Store, Close
      <3> QED
        BY <1>1, <3>1, <3>2
    <2> QED
      BY <2>2, <2>3, <2>4, <2>5, <2>6
  <1>2. ChatInv /\ [ChatNext]_cvars => [Asks]_cvars
    BY <1>1
  <1> QED
    BY <1>2, ChatInvariant, PTL DEF ChatSpec, ScopePermitted, Asks
=============================================================================
