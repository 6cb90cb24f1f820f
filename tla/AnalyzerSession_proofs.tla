----------------------- MODULE AnalyzerSession_proofs -----------------------
(* Proofs, for pipes of any size and servers that misbehave any number of  *)
(* times, of what AnalyzerProperties states about the end of a session.    *)
EXTENDS AnalyzerProperties, SequenceTheorems, TLAPS

-----------------------------------------------------------------------------
(* What the variables hold.                                                *)

Kinds == {"initialize", "initialized", "status", "didOpen", "query", "shutdown",
          "exit", "refusal", "none", "response", "note", "request", "log", "broken"}
Message == [kind : Kinds, id : Nat, says : {"ok", "error", "busy"}]
Part == [message : Message, last : BOOLEAN]
Items == {Item("ask", "initialize", TRUE), Item("tell", "initialized", FALSE),
          Item("ready", "status", FALSE), Document, Item("ask", "query", TRUE),
          Item("ask", "query", FALSE), Item("ask", "shutdown", TRUE),
          Item("tell", "exit", TRUE)}
Talking == {"begin", "guard", "read", "clock", "pop"}
Reasons == {"codec", "eof", "io", "cancelled", "timeout"}

ChildType ==
  [fatal : Reasons \cup {"none"}, reaped : BOOLEAN, stdin : BOOLEAN, eof : BOOLEAN,
   handshake : {"none", "refused", "complete"}]
PeerType ==
  [up : BOOLEAN, code : {"none", "exit", "signal", "killed"}, todo : Seq(Message),
   leaving : BOOLEAN, deaf : BOOLEAN, mute : BOOLEAN, hung : BOOLEAN, unwilling : BOOLEAN]

TypeOK ==
  /\ todo \in Seq(Items)
  /\ pc \in Talking \cup {"leave", "drain", "drop", "done"} \cup Blocked
  /\ out \in [frame : Message, left : Nat]
  /\ inbox \in Seq(Message)
  /\ ids \in [last : Nat, outstanding : SUBSET Nat, responded : SUBSET Nat]
  /\ child \in ChildType
  /\ outcome \in {"open", "answered", "failed"}
  /\ stop \in {"none", "exited", "killed", "kill_uncertain", "cancelled", "timeout", "eof"}
  /\ hurried \subseteq {"cancelled", "timeout"}
  /\ toPeer \in Seq(Part) /\ fromPeer \in Seq(Message) /\ log \in Nat
  /\ peer \in PeerType
  /\ said \in Nat /\ faults \in Nat

-----------------------------------------------------------------------------
(* Why the verdict is true: the inductive invariant.                       *)

(* The conversation goes on to a question or to the farewell; what is told *)
(* is written before anything is looked at, what is asked is answered      *)
(* before anything else is asked.                                          *)
Conversation ==
  /\ pc \in Talking =>
       /\ todo # <<>>
       /\ todo[Len(todo)].kind \in {"query", "exit"}
  /\ pc \in {"begin", "pop"} => ~Sending
  /\ pc \in {"guard", "read", "clock"} =>
       /\ out.frame.kind \in {This.kind, "refusal", "none"}
       /\ This.do = "tell" => out.frame.kind = This.kind
  /\ pc = "guard" /\ Sending => out.left > 0
  /\ pc = "pop" => This.do # "tell"
  /\ ids.outstanding \subseteq {ids.last}
  /\ pc \in Talking /\ (pc = "begin" \/ This.do # "ask") => ids.outstanding = {}

(* A process that was reaped has ended, a verdict is given when the wait is *)
(* over, and what is said of the end was seen: a token or a deadline, the   *)
(* end of the stream, or a server that was told or refused to leave.        *)
Verdict ==
  /\ child.reaped => ~peer.up
  /\ pc \notin {"drop", "lost", "done"} => stop = "none"
  /\ stop \notin {"none", "kill_uncertain"} => ~peer.up
  /\ child.fatal \in {"cancelled", "timeout"} => child.fatal \in hurried
  /\ stop \in {"cancelled", "timeout"} => stop \in hurried
  /\ pc \notin Talking /\ child.fatal = "none" /\ child.handshake = "none" => child.eof
  /\ stop = "exited" => /\ peer.code = "exit" /\ child.fatal = "none"
                        /\ child.handshake # "none"

Elements(s) == {s[i] : i \in 1..Len(s)}
Answers == Elements(inbox) \cup Elements(fromPeer) \cup Elements(peer.todo)
Parting == out.frame.kind = "exit" /\ out.left = 0

(* A server without a fault stays until it is told to leave: no end of     *)
(* file, no refusal to shut down, no answer to what was not asked.         *)
Calm ==
  faults = 0 =>
    /\ ~peer.mute /\ ~peer.deaf
    /\ pc \in Talking /\ ~Parting =>
         /\ peer.up /\ ~peer.leaving /\ ~child.eof /\ child.stdin
         /\ \A p \in Elements(toPeer) : p.last => p.message.kind # "exit"
    /\ child.fatal # "eof" /\ stop # "eof"
    /\ pc \notin Talking => child.handshake = "complete" \/ child.fatal # "none"
    /\ \A m \in Answers : m.kind = "response" => m.id <= ids.last
    /\ \A p \in Elements(toPeer) : p.message.id <= ids.last
    /\ out.frame.id <= ids.last
    /\ pc \in Talking \ {"begin"} /\ This.kind = "shutdown" =>
         /\ \A m \in Answers : m.kind = "response" /\ m.id = ids.last => m.says = "ok"
         /\ \A p \in Elements(toPeer) :
              p.message.id = ids.last => p.message.kind \notin {"initialize", "query"}

IInv == TypeOK /\ Conversation /\ Verdict /\ Calm

-----------------------------------------------------------------------------
(* Sequences of messages.                                                  *)

(* The elements of a sequence over a set are in the set.                   *)
LEMMA ElementsIn ==
  ASSUME NEW S, NEW s \in Seq(S)
  PROVE  /\ Elements(s) \subseteq S
         /\ s # <<>> => /\ Head(s) \in Elements(s) /\ Head(s) \in S
                        /\ Tail(s) \in Seq(S) /\ Len(Tail(s)) = Len(s) - 1
                        /\ Elements(Tail(s)) \subseteq Elements(s)
<1>1. \A i \in 1..Len(s) : s[i] \in S
  BY ElementOfSeq
<1>2. Elements(s) \subseteq S
  BY <1>1 DEF Elements
<1>3. ASSUME s # <<>>
      PROVE  /\ Head(s) \in Elements(s) /\ Head(s) \in S
             /\ Tail(s) \in Seq(S) /\ Len(Tail(s)) = Len(s) - 1
             /\ Elements(Tail(s)) \subseteq Elements(s)
  <2>1. Len(s) \in Nat /\ Len(s) # 0 /\ Head(s) = s[1]
    BY <1>3, EmptySeq, LenProperties, HeadTailProperties
  <2>2. 1 \in 1..Len(s)
    BY <2>1
  <2>3. Head(s) \in Elements(s) /\ Head(s) \in S
    BY <1>1, <2>1, <2>2 DEF Elements
  <2>4. /\ Tail(s) \in Seq(S) /\ Len(Tail(s)) = Len(s) - 1
        /\ \A i \in 1..Len(Tail(s)) : Tail(s)[i] = s[i + 1]
    BY <1>3, HeadTailProperties
  <2>5. \A i \in 1..Len(Tail(s)) : i + 1 \in 1..Len(s)
    BY <2>1, <2>4
  <2>6. Elements(Tail(s)) \subseteq Elements(s)
    BY <2>4, <2>5 DEF Elements
  <2>7. QED
    BY <2>3, <2>4, <2>6
<1>4. QED
  BY <1>2, <1>3

(* What appending, joining and putting in front add to the elements.       *)
LEMMA ElementsGrow ==
  ASSUME NEW S, NEW s \in Seq(S), NEW t \in Seq(S), NEW e \in S
  PROVE  /\ Append(s, e) \in Seq(S) /\ Elements(Append(s, e)) \subseteq Elements(s) \cup {e}
         /\ s \o t \in Seq(S) /\ Elements(s \o t) \subseteq Elements(s) \cup Elements(t)
         /\ <<e>> \o s \in Seq(S) /\ Elements(<<e>> \o s) \subseteq Elements(s) \cup {e}
         /\ <<>> \in Seq(S) /\ Elements(<<>>) = {}
         /\ <<e>> \in Seq(S) /\ Elements(<<e>>) = {e}
<1>1. /\ Append(s, e) \in Seq(S) /\ Len(Append(s, e)) = Len(s) + 1
      /\ \A i \in 1..Len(s) : Append(s, e)[i] = s[i]
      /\ Append(s, e)[Len(s) + 1] = e
  BY AppendProperties
<1>2. Len(s) \in Nat /\ Len(t) \in Nat
  BY LenProperties
<1>3. Elements(Append(s, e)) \subseteq Elements(s) \cup {e}
  <2> SUFFICES ASSUME NEW i \in 1..Len(s) + 1
               PROVE  Append(s, e)[i] \in Elements(s) \cup {e}
    BY <1>1 DEF Elements
  <2>1. i \in 1..Len(s) \/ i = Len(s) + 1
    BY <1>2
  <2>2. QED
    BY <1>1, <2>1 DEF Elements
<1>4. ASSUME NEW u \in Seq(S), NEW v \in Seq(S)
      PROVE  u \o v \in Seq(S) /\ Elements(u \o v) \subseteq Elements(u) \cup Elements(v)
  <2>1. /\ u \o v \in Seq(S) /\ Len(u \o v) = Len(u) + Len(v)
        /\ \A i \in 1..Len(u) + Len(v) :
             (u \o v)[i] = IF i <= Len(u) THEN u[i] ELSE v[i - Len(u)]
    BY ConcatProperties
  <2>2. Len(u) \in Nat /\ Len(v) \in Nat
    BY LenProperties
  <2>3. ASSUME NEW i \in 1..Len(u) + Len(v)
        PROVE  (u \o v)[i] \in Elements(u) \cup Elements(v)
    <3>1. CASE i <= Len(u)
      BY <2>1, <2>2, <3>1 DEF Elements
    <3>2. CASE i > Len(u)
      <4>1. i - Len(u) \in 1..Len(v)
        BY <2>2, <3>2
      <4>2. QED
        BY <2>1, <2>2, <3>2, <4>1 DEF Elements
    <3>3. QED
      BY <2>2, <3>1, <3>2
  <2>4. QED
    BY <2>1, <2>3 DEF Elements
<1>5. <<e>> \in Seq(S) /\ Len(<<e>>) = 1 /\ <<e>>[1] = e
  OBVIOUS
<1>6. Elements(<<e>>) = {e}
  <2>1. 1..1 = {1}
    OBVIOUS
  <2>2. QED
    BY <1>5, <2>1 DEF Elements
<1>7. <<>> \in Seq(S) /\ Len(<<>>) = 0
  OBVIOUS
<1>8. Elements(<<>>) = {}
  BY <1>7 DEF Elements
<1>9. QED
  BY <1>1, <1>3, <1>4, <1>5, <1>6, <1>7, <1>8

(* A sequence of one message.                                              *)
LEMMA ElementsOfOne ==
  ASSUME NEW S, NEW single \in S
  PROVE  <<single>> \in Seq(S) /\ Elements(<<single>>) = {single}
<1>1. <<single>> \in Seq(S)
  OBVIOUS
<1>2. QED
  BY <1>1, ElementsGrow

(* A sequence of none.                                                     *)
LEMMA ElementsOfNone == Elements(<<>>) = {}
BY DEF Elements

-----------------------------------------------------------------------------
(* The moves the actions are made of.                                      *)

(* What an item of the conversation asks, tells or waits for.              *)
LEMMA ItemFacts ==
  ASSUME NEW i \in Items
  PROVE  /\ i.do \in {"ask", "tell", "ready"} /\ i.kind \in Kinds /\ i.fresh \in BOOLEAN
         /\ i.do = "tell" <=> i.kind \in {"initialized", "didOpen", "exit"}
         /\ i.do = "ready" <=> i.kind = "status"
         /\ i.kind = "exit" => i.fresh
         /\ i.kind \notin {"refusal", "none"}
<1>1. PICK do, kind, fresh :
        /\ i = [do |-> do, kind |-> kind, fresh |-> fresh]
        /\ \/ do = "ask" /\ kind \in {"initialize", "shutdown"} /\ fresh = TRUE
           \/ do = "ask" /\ kind = "query" /\ fresh \in BOOLEAN
           \/ do = "tell" /\ kind = "initialized" /\ fresh = FALSE
           \/ do = "ready" /\ kind = "status" /\ fresh = FALSE
           \/ do = "tell" /\ kind \in {"didOpen", "exit"} /\ fresh = TRUE
  BY Zenon DEF Items, Item, Document
<1>2. i.do = do /\ i.kind = kind /\ i.fresh = fresh
  BY <1>1
<1>3. QED
  BY <1>1, <1>2 DEF Kinds

(* The farewell is a conversation of its own.                              *)
LEMMA GoodbyeFacts ==
  /\ Goodbye \in Seq(Items) /\ Len(Goodbye) = 2 /\ Goodbye # <<>>
  /\ Goodbye[1].kind = "shutdown" /\ Goodbye[2].kind = "exit"
  /\ Head(Goodbye).do = "ask" /\ Head(Goodbye).kind = "shutdown"
BY DEF Goodbye, Items, Item

(* Short sequences.                                                        *)
LEMMA Triples ==
  ASSUME NEW S, NEW x \in S, NEW y \in S, NEW z \in S
  PROVE  /\ \E s \in Seq(S) : s = <<x, y, z>> /\ Len(s) = 3 /\ s[1] = x /\ s[3] = z
         /\ \E s \in Seq(S) : s = <<x, y>> /\ Len(s) = 2 /\ s[2] = y
         /\ \E s \in Seq(S) : s = <<x>> /\ Len(s) = 1 /\ s[1] = x
<1>1. /\ <<x, y, z>> \in Seq(S) /\ Len(<<x, y, z>>) = 3
      /\ <<x, y, z>>[1] = x /\ <<x, y, z>>[3] = z
  OBVIOUS
<1>2. /\ <<x, y>> \in Seq(S) /\ Len(<<x, y>>) = 2 /\ <<x, y>>[2] = y
      /\ <<x>> \in Seq(S) /\ Len(<<x>>) = 1 /\ <<x>>[1] = x
  OBVIOUS
<1>3. QED
  BY <1>1, <1>2, Zenon

(* The conversations a session opens with.                                 *)
LEMMA OpeningFacts ==
  ASSUME NEW asked \in Asked
  PROVE  /\ Opening \o Question(asked) \in Seq(Items)
         /\ Opening \o Question(asked) # <<>>
         /\ (Opening \o Question(asked))[Len(Opening \o Question(asked))].kind = "query"
         /\ Head(Opening \o Question(asked)).kind = "initialize"
<1> DEFINE a == Item("ask", "initialize", TRUE)
           b == Item("tell", "initialized", FALSE)
           c == Item("ready", "status", FALSE)
           q == Item("ask", "query", TRUE)
           r == Item("ask", "query", FALSE)
<1>1. Opening = <<a, b, c>> /\ asked \in {"workspace", "document", "references"}
  BY AnalyzerAssumption DEF Opening
<1>2. /\ asked = "workspace" => Question(asked) = <<q>>
      /\ asked = "document" => Question(asked) = <<Document, q>>
      /\ asked = "references" => Question(asked) = <<Document, r, r>>
  BY DEF Question
<1>3. /\ q \in Items /\ r \in Items /\ Document \in Items
      /\ q.kind = "query" /\ r.kind = "query"
      /\ a \in Items /\ b \in Items /\ c \in Items /\ a.kind = "initialize"
  BY DEF Items, Item
<1> HIDE DEF a, b, c, q, r
<1>4. PICK o \in Seq(Items) : Opening = o /\ Len(o) = 3 /\ o[1].kind = "initialize"
  <2>1. PICK o \in Seq(Items) : o = <<a, b, c>> /\ Len(o) = 3 /\ o[1] = a
    <3>1. a \in Items /\ b \in Items /\ c \in Items
      BY <1>3
    <3>2. \E o \in Seq(Items) : o = <<a, b, c>> /\ Len(o) = 3 /\ o[1] = a /\ o[3] = c
      BY <3>1, Triples
    <3>3. QED
      BY <3>2, Zenon
  <2>2. o[1].kind = "initialize"
    BY <1>3, <2>1
  <2>3. QED
    BY <1>1, <2>1, <2>2, Zenon
<1>5. \E t \in Seq(Items) : /\ Question(asked) = t /\ Len(t) \in 1..3
                            /\ t[Len(t)].kind = "query"
  <2>1. CASE asked = "workspace"
    <3>1. PICK t \in Seq(Items) : t = <<q>> /\ Len(t) = 1 /\ t[1] = q
      BY <1>3, Triples
    <3>2. Len(t) \in 1..3 /\ t[Len(t)].kind = "query"
      BY <1>3, <3>1
    <3>3. QED
      BY <1>2, <2>1, <3>1, <3>2, Zenon
  <2>2. CASE asked = "document"
    <3>1. PICK t \in Seq(Items) : t = <<Document, q>> /\ Len(t) = 2 /\ t[2] = q
      BY <1>3, Triples
    <3>2. Len(t) \in 1..3 /\ t[Len(t)].kind = "query"
      BY <1>3, <3>1
    <3>3. QED
      BY <1>2, <2>2, <3>1, <3>2, Zenon
  <2>3. CASE asked = "references"
    <3>1. PICK t \in Seq(Items) : t = <<Document, r, r>> /\ Len(t) = 3 /\ t[3] = r
      BY <1>3, Triples
    <3>2. Len(t) \in 1..3 /\ t[Len(t)].kind = "query"
      BY <1>3, <3>1
    <3>3. QED
      BY <1>2, <2>3, <3>1, <3>2, Zenon
  <2>4. QED
    BY <1>1, <2>1, <2>2, <2>3
<1>6. PICK t \in Seq(Items) : Question(asked) = t /\ Len(t) \in 1..3 /\ t[Len(t)].kind = "query"
  BY <1>5
<1>7. /\ o \o t \in Seq(Items) /\ Len(o \o t) = Len(o) + Len(t)
      /\ \A i \in 1..Len(o) + Len(t) :
           (o \o t)[i] = IF i <= Len(o) THEN o[i] ELSE t[i - Len(o)]
  BY <1>4, <1>6, ConcatProperties
<1>8. (o \o t)[3 + Len(t)] = t[Len(t)] /\ (o \o t)[1] = o[1] /\ o \o t # <<>>
  <2>1. /\ Len(o) + Len(t) \in 1..Len(o) + Len(t) /\ 1 \in 1..Len(o) + Len(t)
        /\ ~(Len(o) + Len(t) <= Len(o)) /\ 1 <= Len(o)
        /\ Len(o) + Len(t) - Len(o) = Len(t) /\ Len(o) + Len(t) = 3 + Len(t)
    BY <1>4, <1>6
  <2>2. (o \o t)[3 + Len(t)] = t[Len(t)] /\ (o \o t)[1] = o[1]
    BY <1>7, <2>1
  <2>3. ASSUME o \o t = <<>> PROVE FALSE
    BY <1>6, <1>7, <2>1, <2>3
  <2>4. QED
    BY <2>2, <2>3
<1>9. Head(o \o t) = (o \o t)[1]
  BY <1>7, <1>8, HeadTailProperties
<1>10. Len(o \o t) = 3 + Len(t)
  BY <1>4, <1>7
<1>11. QED
  BY <1>4, <1>6, <1>7, <1>8, <1>9, <1>10

(* While it talks, the conversation has a next item.                       *)
LEMMA ThisFacts ==
  ASSUME TypeOK, Conversation, pc \in Talking
  PROVE  /\ This \in Items /\ Tail(todo) \in Seq(Items) /\ Len(todo) \in Nat \ {0}
         /\ Len(Tail(todo)) = Len(todo) - 1
         /\ Len(todo) > 1 => /\ Tail(todo) # <<>>
                             /\ Tail(todo)[Len(Tail(todo))].kind \in {"query", "exit"}
         /\ This.kind \notin {"query", "exit"} => Len(todo) > 1
<1>1. todo \in Seq(Items) /\ todo # <<>> /\ todo[Len(todo)].kind \in {"query", "exit"}
  BY DEF TypeOK, Conversation
<1>2. /\ This \in Items /\ Tail(todo) \in Seq(Items) /\ Len(Tail(todo)) = Len(todo) - 1
  BY <1>1, ElementsIn DEF This
<1>3. Len(todo) \in Nat \ {0} /\ This = todo[1]
  BY <1>1, EmptySeq, LenProperties, HeadTailProperties DEF This
<1>4. ASSUME Len(todo) > 1
      PROVE  /\ Tail(todo) # <<>>
             /\ Tail(todo)[Len(Tail(todo))].kind \in {"query", "exit"}
  <2>1. \A i \in 1..Len(Tail(todo)) : Tail(todo)[i] = todo[i + 1]
    BY <1>1, HeadTailProperties
  <2>2. Len(Tail(todo)) \in 1..Len(Tail(todo)) /\ Len(Tail(todo)) + 1 = Len(todo)
    BY <1>2, <1>3, <1>4
  <2>3. Tail(todo)[Len(Tail(todo))] = todo[Len(todo)]
    BY <2>1, <2>2
  <2>4. Tail(todo) # <<>>
    <3>1. Len(Tail(todo)) # 0
      BY <1>2, <1>3, <1>4
    <3>2. Len(<<>>) = 0
      OBVIOUS
    <3>3. QED
      BY <3>1, <3>2, Zenon
  <2>5. QED
    BY <1>1, <2>3, <2>4
<1>5. QED
  BY <1>1, <1>2, <1>3, <1>4

(* Messages are what the two sides make of them.                           *)
LEMMA MessageFacts ==
  /\ \A kind \in Kinds : Plain(kind) \in Message /\ Plain(kind).kind = kind
                         /\ Plain(kind).id = 0 /\ Plain(kind).says = "ok"
  /\ \A kind \in Kinds, id \in Nat :
       /\ [Plain(kind) EXCEPT !.id = id] \in Message
       /\ [Plain(kind) EXCEPT !.id = id].kind = kind
       /\ [Plain(kind) EXCEPT !.id = id].id = id
  /\ \A kind \in Kinds, says \in {"ok", "error", "busy"} :
       /\ [Plain(kind) EXCEPT !.says = says] \in Message
       /\ [Plain(kind) EXCEPT !.says = says].kind = kind
  /\ \A id \in Nat, says \in {"ok", "error", "busy"} :
       /\ Reply(id, says) \in Message /\ Reply(id, says).kind = "response"
       /\ Reply(id, says).id = id /\ Reply(id, says).says = says
BY DEF Plain, Reply, Message, Kinds

(* The silence between two frames.                                         *)
LEMMA SilenceFacts ==
  /\ Silence \in [frame : Message, left : Nat]
  /\ Silence.frame.kind = "none" /\ Silence.frame.id = 0 /\ Silence.left = 0
<1>1. "none" \in Kinds
  BY DEF Kinds
<1>2. QED
  BY <1>1, MessageFacts DEF Silence

(* What the kill leaves: unless there was a fault, a process that ended.   *)
LEMMA KillFacts ==
  ASSUME TypeOK, NEW sent \in BOOLEAN, NEW waited \in BOOLEAN, NEW fault \in BOOLEAN,
         Kill(sent, waited, fault)
  PROVE  /\ peer' \in PeerType /\ peer'.mute = peer.mute /\ peer'.deaf = peer.deaf
         /\ peer'.todo = peer.todo /\ (peer'.up => peer.up /\ ~sent)
         /\ ~peer.up => peer'.code = peer.code
         /\ faults' \in Nat /\ (faults' = 0 => faults = 0)
<1>1. /\ peer \in PeerType
      /\ \/ ~sent /\ peer' = peer
         \/ sent /\ peer' = [peer EXCEPT !.up = FALSE, !.code = IF peer.up THEN "killed" ELSE @]
  BY DEF Kill, TypeOK
<1>2. faults' \in Nat /\ (faults' = 0 => faults = 0)
  BY DEF Kill, TypeOK
<1>3. QED
  BY <1>1, <1>2 DEF PeerType

(* A failure ends the conversation with a killed server.                   *)
LEMMA FailFacts ==
  ASSUME TypeOK, NEW reason \in Reasons, Fail(reason)
  PROVE  /\ pc' \in {"leave", "held"} /\ todo' = <<>>
         /\ outcome' \in {"open", "answered", "failed"}
         /\ child' \in ChildType /\ child'.fatal = reason /\ (child'.reaped => ~peer'.up)
         /\ peer' \in PeerType
         /\ peer'.mute = peer.mute /\ peer'.deaf = peer.deaf /\ peer'.todo = peer.todo
         /\ faults' \in Nat /\ (faults' = 0 => faults = 0)
         /\ UNCHANGED <<out, inbox, ids, stop, toPeer, fromPeer, log, said>>
<1>1. PICK sent \in BOOLEAN, waited \in BOOLEAN :
        /\ Kill(sent, waited, FALSE)
        /\ child' = [child EXCEPT !.fatal = reason, !.stdin = FALSE,
                                 !.reaped = sent /\ waited]
        /\ pc' = IF waited /\ ~sent THEN "held" ELSE "leave"
  BY DEF Fail
<1>2. child' \in ChildType /\ child'.fatal = reason /\ (child'.reaped => sent)
  <2>1. child \in ChildType /\ (sent /\ waited) \in BOOLEAN
    BY DEF TypeOK
  <2>2. QED
    BY <1>1, <2>1 DEF ChildType
<1>3. QED
  BY <1>1, <1>2, KillFacts DEF Fail, TypeOK, pipes

(* A failure keeps the invariant, unless it blames the peer for an end of  *)
(* file that was no fault, or a token or a deadline nobody saw.            *)
LEMMA FailKeeps ==
  ASSUME IInv, NEW reason \in Reasons, Fail(reason), pc \in Talking,
         hurried \subseteq hurried', hurried' \subseteq {"cancelled", "timeout"},
         reason \in {"cancelled", "timeout"} => reason \in hurried',
         faults = 0 => reason # "eof"
  PROVE  IInv'
<1>1. TypeOK /\ Conversation /\ Verdict /\ Calm
  BY DEF IInv
<1>2. pc' \notin Talking /\ pc' \in {"leave"} \cup Blocked /\ stop = "none" /\ stop' = "none"
  BY <1>1, FailFacts DEF Talking, Blocked, Verdict
<1>3. TypeOK'
  <2>1. todo' \in Seq(Items)
    <3>1. <<>> \in Seq(Items)
      OBVIOUS
    <3>2. QED
      BY <1>1, <3>1, FailFacts
  <2>2. QED
    BY <1>1, <1>2, <2>1, FailFacts DEF TypeOK
<1>4. Conversation'
  BY <1>1, <1>2, FailFacts DEF Conversation, Talking
<1>5. Verdict'
  <2>1. reason # "none"
    BY DEF Reasons
  <2>2. QED
    BY <1>1, <1>2, <2>1, FailFacts DEF Verdict
<1>6. Calm'
  <2> SUFFICES ASSUME faults' = 0 PROVE Calm'
    BY DEF Calm
  <2>1. Answers' = Answers
    BY <1>1, FailFacts DEF Answers, Elements
  <2>2. QED
    BY <1>1, <1>2, <2>1, FailFacts DEF Calm, Elements, Reasons
<1>7. QED
  BY <1>3, <1>4, <1>5, <1>6 DEF IInv

(* The rest of the state is well typed and has nothing new in it.          *)
Quiet ==
  /\ inbox' \in Seq(Message) /\ Elements(inbox') \subseteq Elements(inbox)
  /\ ids' \in [last : Nat, outstanding : SUBSET Nat, responded : SUBSET Nat]
  /\ ids'.last = ids.last
  /\ hurried \subseteq hurried' /\ hurried' \subseteq {"cancelled", "timeout"}
  /\ UNCHANGED <<toPeer, fromPeer, log, peer, said, faults>>

(* Leaving the conversation for the wait.                                  *)
LEMMA LeaveKeeps ==
  ASSUME IInv, Quiet, NEW handshake \in {"none", "refused", "complete"}, Leave(handshake),
         pc \in Talking, handshake = "none" => child.eof,
         UNCHANGED stop, outcome' \in {"open", "answered", "failed"},
         out' \in [frame : Message, left : Nat],
         faults = 0 => handshake = "complete" /\ out'.frame.id <= ids.last,
         ids'.outstanding \subseteq {ids.last}
  PROVE  IInv'
<1>1. TypeOK /\ Conversation /\ Verdict /\ Calm
  BY DEF IInv
<1>2. /\ pc' = "leave" /\ todo' = <<>>
      /\ child' = [child EXCEPT !.stdin = FALSE, !.handshake = handshake]
  BY DEF Leave
<1>3. /\ child' \in ChildType
      /\ child'.fatal = child.fatal /\ child'.handshake = handshake
      /\ child'.eof = child.eof /\ child'.reaped = child.reaped
  BY <1>1, <1>2 DEF TypeOK, ChildType
<1>4. todo' \in Seq(Items)
  <2>1. <<>> \in Seq(Items)
    OBVIOUS
  <2>2. QED
    BY <1>2, <2>1
<1>5. TypeOK'
  BY <1>1, <1>2, <1>3, <1>4 DEF TypeOK, Quiet
<1>6. Conversation'
  BY <1>1, <1>2 DEF Conversation, Talking, Quiet
<1>7. Verdict'
  BY <1>1, <1>2, <1>3 DEF Verdict, Talking, Quiet
<1>8. Calm'
  <2>1. Answers' \subseteq Answers
    BY DEF Answers, Quiet, Elements
  <2>2. Elements(toPeer)' = Elements(toPeer)
    BY DEF Quiet, Elements
  <2>3. QED
    BY <1>1, <1>2, <1>3, <2>1, <2>2 DEF Calm, Talking, Quiet
<1>9. QED
  BY <1>5, <1>6, <1>7, <1>8 DEF IInv

(* The client goes on to `at` with nothing sent or said meanwhile.         *)
LEMMA StayKeeps ==
  ASSUME IInv, Quiet, pc \in Talking, ~Parting, pc' \in Talking,
         UNCHANGED <<child, stop>>, outcome' \in {"open", "answered", "failed"},
         todo' \in Seq(Items), out' \in [frame : Message, left : Nat],
         faults = 0 => out'.frame.id <= ids.last,
         pc' # "begin" /\ This'.kind = "shutdown" => pc # "begin" /\ This.kind = "shutdown",
         Conversation'
  PROVE  IInv'
<1>1. TypeOK /\ Conversation /\ Verdict /\ Calm
  BY DEF IInv
<1>2. TypeOK'
  BY <1>1 DEF TypeOK, Quiet
<1>3. Verdict'
  BY <1>1 DEF Verdict, Talking, Quiet
<1>4. Calm'
  <2> SUFFICES ASSUME faults' = 0 PROVE Calm'
    BY DEF Calm
  <2>1. Answers' \subseteq Answers
    BY DEF Answers, Quiet, Elements
  <2>2. Elements(toPeer)' = Elements(toPeer)
    BY DEF Quiet, Elements
  <2>3. UNCHANGED <<peer, toPeer>> /\ faults = 0 /\ ids'.last = ids.last
    BY DEF Quiet
  <2>4. /\ ~peer.mute /\ ~peer.deaf /\ peer.up /\ ~peer.leaving /\ ~child.eof /\ child.stdin
        /\ \A p \in Elements(toPeer) : p.last => p.message.kind # "exit"
        /\ child.fatal # "eof" /\ stop # "eof"
        /\ \A m \in Answers : m.kind = "response" => m.id <= ids.last
        /\ \A p \in Elements(toPeer) : p.message.id <= ids.last
    BY <1>1, <2>3 DEF Calm
  <2>5. ASSUME pc' # "begin", This'.kind = "shutdown"
        PROVE  /\ \A m \in Answers : m.kind = "response" /\ m.id = ids.last => m.says = "ok"
               /\ \A p \in Elements(toPeer) :
                    p.message.id = ids.last => p.message.kind \notin {"initialize", "query"}
    BY <1>1, <2>3, <2>5 DEF Calm
  <2>6. This' = Head(todo') /\ Answers' \subseteq Answers
    BY <2>1 DEF This
  <2>7. QED
    BY <2>1, <2>2, <2>3, <2>4, <2>5 DEF Calm
<1>5. QED
  BY <1>2, <1>3, <1>4 DEF IInv

(* The next item of the conversation.                                      *)
LEMMA NextKeeps ==
  ASSUME IInv, Quiet, pc \in Talking, ~Parting, NextItem, Len(todo) > 1,
         out' \in [frame : Message, left : Nat], out'.frame.kind = "none",
         faults = 0 => out'.frame.id <= ids.last, ids'.outstanding = {}
  PROVE  IInv'
<1>1. TypeOK /\ Conversation
  BY DEF IInv
<1>2. todo' = Tail(todo) /\ pc' = "begin" /\ UNCHANGED <<child, outcome, stop>>
  BY DEF NextItem, verdict
<1>3. /\ todo' \in Seq(Items) /\ todo' # <<>>
      /\ todo'[Len(todo')].kind \in {"query", "exit"}
  BY <1>1, <1>2, ThisFacts
<1>4. Conversation'
  BY <1>2, <1>3 DEF Conversation, Talking, Sending
<1>5. outcome \in {"open", "answered", "failed"} /\ pc' \in Talking
  BY <1>1, <1>2 DEF TypeOK, Talking
<1>6. QED
  BY <1>2, <1>3, <1>4, <1>5, StayKeeps

(* The farewell, or none to a peer that left.                              *)
LEMMA CloseKeeps ==
  ASSUME IInv, Quiet, pc \in Talking, ~Sending, NEW result \in {"answered", "failed"},
         Close(result), UNCHANGED out, ids'.outstanding = {}
  PROVE  IInv'
<1>1. TypeOK /\ Conversation /\ Calm
  BY DEF IInv
<1>2. UNCHANGED stop /\ outcome' = result
  BY DEF Close
<1>3. out \in [frame : Message, left : Nat] /\ ~Parting
  BY <1>1 DEF TypeOK, Sending, Parting
<1>4. faults = 0 => ~child.eof /\ out.frame.id <= ids.last
  BY <1>1, <1>3 DEF Calm
<1>5. CASE child.eof
  <2>1. Leave("none")
    BY <1>5 DEF Close
  <2>2. QED
    BY <1>2, <1>3, <1>4, <1>5, <2>1, LeaveKeeps
<1>6. CASE ~child.eof
  <2>1. pc' = "begin" /\ todo' = Goodbye /\ UNCHANGED child
    BY <1>6 DEF Close
  <2>2. /\ todo' \in Seq(Items) /\ todo' # <<>>
        /\ todo'[Len(todo')].kind \in {"query", "exit"}
    BY <2>1, GoodbyeFacts
  <2>3. Conversation'
    BY <2>1, <2>2 DEF Conversation, Talking, Sending
  <2>4. pc' \in Talking
    BY <2>1 DEF Talking
  <2>5. QED
    BY <1>2, <1>3, <1>4, <2>1, <2>2, <2>3, <2>4, StayKeeps
<1>7. QED
  BY <1>5, <1>6

-----------------------------------------------------------------------------
(* The actions of the client.                                              *)

(* A calm server is there as long as the farewell is not written.          *)
LEMMA CalmFacts ==
  ASSUME IInv, pc \in Talking, ~Parting, faults = 0
  PROVE  peer.up /\ ~peer.mute /\ ~peer.deaf /\ ~child.eof /\ ~Shut
BY DEF IInv, Calm, Shut

(* Beginning an item: a new request has a number no answer has yet.        *)
LEMMA BeginKeeps == IInv /\ Begin => IInv'
<1> SUFFICES ASSUME IInv, Begin PROVE IInv'
  OBVIOUS
<1> USE DEF clientVars, pipes, verdict, world
<1>1. TypeOK /\ Conversation /\ Verdict /\ Calm
  BY DEF IInv
<1>2. /\ pc = "begin" /\ pc \in Talking /\ ~Sending /\ ids.outstanding = {}
      /\ This \in Items /\ ~Parting
  <2>1. pc = "begin" /\ pc \in Talking
    BY DEF Begin, Talking
  <2>2. ~Sending /\ ids.outstanding = {}
    BY <1>1, <2>1 DEF Conversation
  <2>3. QED
    BY <1>1, <2>1, <2>2, ThisFacts DEF Sending, Parting
<1>3. /\ UNCHANGED <<todo, child, outcome, stop, inbox, toPeer, fromPeer, log, peer,
                     said, faults, hurried>>
  BY DEF Begin, Stay
<1>4. CASE This.do = "ready"
  <2>1. pc' = "pop" /\ UNCHANGED <<out, ids>>
    BY <1>4 DEF Begin, Stay
  <2>2. Conversation'
    BY <1>1, <1>2, <1>3, <1>4, <2>1 DEF Conversation, Sending, This, Talking
  <2>3. Quiet
    BY <1>1, <1>3, <2>1 DEF Quiet, TypeOK
  <2>4. This'.kind = "status"
    BY <1>2, <1>3, <1>4, ItemFacts DEF This
  <2>5. /\ pc' \in Talking /\ out' \in [frame : Message, left : Nat] /\ todo' \in Seq(Items)
        /\ outcome' \in {"open", "answered", "failed"}
        /\ faults = 0 => out'.frame.id <= ids.last
    BY <1>1, <1>3, <2>1 DEF TypeOK, Talking, Calm
  <2>6. QED
    BY <1>2, <1>3, <2>2, <2>3, <2>4, <2>5, StayKeeps
<1>5. CASE This.do # "ready"
  <2>1. /\ pc' = "guard"
        /\ ids' = IF This.do = "ask" THEN [ids EXCEPT !.last = @ + 1] ELSE ids
        /\ out' = [frame |-> [Plain(This.kind) EXCEPT !.id = ids'.last],
                   left |-> Parts(This.kind)]
    BY <1>5 DEF Begin, Stay
  <2>2. /\ ids' \in [last : Nat, outstanding : SUBSET Nat, responded : SUBSET Nat]
        /\ ids'.outstanding = {}
        /\ ids'.last = ids.last + 1 \/ (This.do # "ask" /\ ids'.last = ids.last)
        /\ ids.last \in Nat
    <3>1. ids \in [last : Nat, outstanding : SUBSET Nat, responded : SUBSET Nat]
      BY <1>1 DEF TypeOK
    <3>2. CASE This.do = "ask"
      <4>1. ids' = [ids EXCEPT !.last = @ + 1]
        BY <2>1, <3>2
      <4>2. QED
        BY <1>2, <3>1, <4>1
    <3>3. CASE This.do # "ask"
      BY <1>2, <2>1, <3>1, <3>3
    <3>4. QED
      BY <3>2, <3>3
  <2>3. Parts(This.kind) \in Nat \ {0}
    BY AnalyzerAssumption DEF Parts
  <2>4. /\ out'.frame \in Message /\ out'.frame.kind = This.kind /\ out'.frame.id = ids'.last
        /\ out'.left \in Nat \ {0} /\ out' \in [frame : Message, left : Nat]
    <3>1. This.kind \in Kinds /\ ids'.last \in Nat
      BY <1>2, <2>2, ItemFacts
    <3>2. [Plain(This.kind) EXCEPT !.id = ids'.last]
            = [kind |-> This.kind, id |-> ids'.last, says |-> "ok"]
      BY DEF Plain
    <3>3. out' = [frame |-> [kind |-> This.kind, id |-> ids'.last, says |-> "ok"],
                  left |-> Parts(This.kind)]
      BY <2>1, <3>2
    <3>4. QED
      BY <2>3, <3>1, <3>3 DEF Message
  <2>5. TypeOK'
    <3>1. pc' \in Talking
      BY <2>1 DEF Talking
    <3>2. QED
      BY <1>1, <1>3, <2>2, <2>4, <3>1 DEF TypeOK
  <2>6. Conversation'
    BY <1>1, <1>2, <1>3, <2>1, <2>2, <2>4 DEF Conversation, Sending, This, Talking
  <2>7. Verdict'
    BY <1>1, <1>2, <1>3, <2>1 DEF Verdict, Talking
  <2>8. Calm'
    <3> SUFFICES ASSUME faults' = 0 PROVE Calm'
      BY DEF Calm
    <3>1. Answers' = Answers /\ Elements(toPeer)' = Elements(toPeer) /\ faults = 0
      BY <1>3 DEF Answers, Elements
    <3>2. /\ ~peer.mute /\ ~peer.deaf /\ peer.up /\ ~peer.leaving /\ ~child.eof /\ child.stdin
          /\ \A p \in Elements(toPeer) : p.last => p.message.kind # "exit"
          /\ child.fatal # "eof" /\ stop # "eof"
          /\ \A m \in Answers : m.kind = "response" => m.id <= ids.last
          /\ \A p \in Elements(toPeer) : p.message.id <= ids.last
      BY <1>1, <1>2, <3>1 DEF Calm
    <3>3. /\ \A m \in Answers : m \in Message
          /\ \A p \in Elements(toPeer) : p \in Part
      BY <1>1, ElementsIn DEF TypeOK, PeerType, Answers
    <3>4. /\ \A m \in Answers : m.kind = "response" => m.id <= ids'.last
          /\ \A p \in Elements(toPeer) : p.message.id <= ids'.last
      BY <2>2, <3>2, <3>3 DEF Message, Part
    <3>5. ASSUME This'.kind = "shutdown"
          PROVE  /\ \A m \in Answers : m.kind = "response" => m.id # ids'.last
                 /\ \A p \in Elements(toPeer) : p.message.id # ids'.last
      <4>1. This.kind = "shutdown"
        BY <1>3, <3>5 DEF This
      <4>2. This.do = "ask"
        BY <1>2, <4>1, ItemFacts
      <4>3. ids'.last = ids.last + 1
        BY <2>2, <4>2
      <4>4. QED
        BY <2>2, <3>2, <3>3, <4>3 DEF Message, Part
    <3>6. pc' \in Talking
      BY <2>1 DEF Talking
    <3>7. out'.frame.id <= ids'.last
      BY <2>2, <2>4
    <3>8. QED
      BY <1>3, <3>1, <3>2, <3>4, <3>5, <3>6, <3>7 DEF Calm
  <2>9. QED
    BY <2>5, <2>6, <2>7, <2>8 DEF IInv
<1>6. QED
  BY <1>4, <1>5

(* A write that fails.                                                     *)
LEMMA WriteDiedKeeps == IInv /\ WriteDied => IInv'
<1> SUFFICES ASSUME IInv, WriteDied PROVE IInv'
  OBVIOUS
<1>1. pc = "guard" /\ WriteDies /\ UNCHANGED hurried
  BY DEF WriteDied, Guarded
<1>2. pc \in Talking /\ ~Parting /\ hurried \subseteq {"cancelled", "timeout"}
  BY <1>1 DEF Talking, IInv, Conversation, WriteDies, Parting, TypeOK
<1>3. faults # 0
  BY <1>1, <1>2, CalmFacts DEF WriteDies
<1>4. \E reason \in Reasons : Fail(reason) /\ reason \notin {"cancelled", "timeout"}
  BY DEF WriteDied, Reasons
<1>5. QED
  BY <1>1, <1>2, <1>3, <1>4, FailKeeps

(* The end of the stream.                                                  *)
LEMMA EofKeeps == IInv /\ Eof => IInv'
<1> SUFFICES ASSUME IInv, Eof PROVE IInv'
  OBVIOUS
<1> USE DEF pipes, world
<1>1. pc = "guard" /\ EndOfStream /\ UNCHANGED hurried /\ pc \in Talking
  BY DEF Eof, Guarded, Talking
<1>2. ~Sending /\ child.eof /\ ~Parting /\ hurried \subseteq {"cancelled", "timeout"}
  BY <1>1 DEF EndOfStream, Sending, Parting, IInv, TypeOK
<1>3. faults # 0
  BY <1>1, <1>2, CalmFacts
<1>4. CASE Fail("eof")
  BY <1>1, <1>2, <1>3, <1>4, FailKeeps DEF Reasons
<1>5. CASE This.do = "ready" /\ Close("failed") /\ UNCHANGED <<out, inbox, ids, pipes, world>>
  <2>1. Quiet
    BY <1>1, <1>2, <1>5 DEF Quiet, IInv, TypeOK
  <2>2. ids'.outstanding = {}
    BY <1>1, <1>5 DEF IInv, Conversation
  <2>3. QED
    BY <1>1, <1>2, <1>5, <2>1, <2>2, CloseKeeps
<1>6. QED
  BY <1>4, <1>5 DEF Eof

(* A part of a frame goes into the pipe: the last part of the farewell is  *)
(* the only one that tells the server to leave.                            *)
LEMMA WriteKeeps == IInv /\ Write => IInv'
<1> SUFFICES ASSUME IInv, Write PROVE IInv'
  OBVIOUS
<1> USE DEF pipes, verdict, world
<1>1. TypeOK /\ Conversation /\ Verdict /\ Calm
  BY DEF IInv
<1>2. /\ pc = "guard" /\ pc \in Talking /\ pc' = "read"
      /\ UNCHANGED <<todo, child, outcome, stop, inbox, ids, fromPeer, log, peer,
                     said, faults, hurried>>
  BY DEF Write, Guarded, Stay, Talking
<1>3. ~Parting
  BY <1>1, <1>2 DEF Conversation, Sending, Parting
<1> DEFINE part == [message |-> out.frame, last |-> out.left = 1]
<1>4. CASE UNCHANGED <<out, toPeer>>
  <2>1. Conversation'
    BY <1>1, <1>2, <1>4 DEF Conversation, Sending, This, Talking
  <2>2. Quiet
    BY <1>1, <1>2, <1>4 DEF Quiet, TypeOK
  <2>3. This' = This /\ pc' \in Talking
    BY <1>2 DEF This, Talking
  <2>4. /\ out' \in [frame : Message, left : Nat] /\ todo' \in Seq(Items)
        /\ outcome' \in {"open", "answered", "failed"}
        /\ faults = 0 => out'.frame.id <= ids.last
    BY <1>1, <1>2, <1>4 DEF TypeOK, Calm
  <2>5. QED
    BY <1>2, <1>3, <2>1, <2>2, <2>3, <2>4, StayKeeps
<1>5. CASE /\ out.left > 0 /\ out' = [out EXCEPT !.left = @ - 1]
           /\ toPeer' = Append(toPeer, part)
  <2>1. /\ out' \in [frame : Message, left : Nat] /\ out'.frame = out.frame
        /\ out.left = 1 => out'.left = 0
        /\ out.frame \in Message
    <3>1. out \in [frame : Message, left : Nat]
      BY <1>1 DEF TypeOK
    <3>2. out.left - 1 \in Nat /\ out' = [out EXCEPT !.left = out.left - 1]
      BY <1>5, <3>1
    <3>3. out' = [frame |-> out.frame, left |-> out.left - 1]
      BY <3>1, <3>2
    <3>4. QED
      BY <3>1, <3>2, <3>3
  <2>2. part \in Part /\ part.message = out.frame /\ (part.last => out.left = 1)
    BY <2>1 DEF Part
  <2> HIDE DEF part
  <2>3. toPeer' \in Seq(Part) /\ Elements(toPeer)' \subseteq Elements(toPeer) \cup {part}
    BY <1>1, <1>5, <2>2, ElementsGrow DEF TypeOK, Elements
  <2>4. TypeOK'
    BY <1>1, <1>2, <2>1, <2>3 DEF TypeOK, Talking
  <2>5. Conversation'
    BY <1>1, <1>2, <2>1 DEF Conversation, Sending, This, Talking
  <2>6. Verdict'
    BY <1>1, <1>2 DEF Verdict, Talking
  <2>7. Calm'
    <3> SUFFICES ASSUME faults' = 0 PROVE Calm'
      BY DEF Calm
    <3>1. Answers' = Answers /\ faults = 0 /\ This' = This
      BY <1>2 DEF Answers, Elements, This
    <3>2. /\ ~peer.mute /\ ~peer.deaf /\ peer.up /\ ~peer.leaving /\ ~child.eof /\ child.stdin
          /\ \A p \in Elements(toPeer) : p.last => p.message.kind # "exit"
          /\ child.fatal # "eof" /\ stop # "eof"
          /\ \A m \in Answers : m.kind = "response" => m.id <= ids.last
          /\ \A p \in Elements(toPeer) : p.message.id <= ids.last
          /\ out.frame.id <= ids.last
          /\ This.kind = "shutdown" =>
             /\ \A m \in Answers : m.kind = "response" /\ m.id = ids.last => m.says = "ok"
             /\ \A p \in Elements(toPeer) :
                  p.message.id = ids.last => p.message.kind \notin {"initialize", "query"}
      BY <1>1, <1>2, <1>3, <3>1 DEF Calm
    <3>3. \A p \in Elements(toPeer)' : p.message.id <= ids'.last
      BY <1>2, <2>2, <2>3, <3>2
    <3>4. ~Parting' => \A p \in Elements(toPeer)' : p.last => p.message.kind # "exit"
      BY <2>1, <2>2, <2>3, <3>2 DEF Parting
    <3>5. This'.kind = "shutdown" =>
            \A p \in Elements(toPeer)' :
              p.message.id = ids'.last => p.message.kind \notin {"initialize", "query"}
      <4>1. This.kind = "shutdown" => out.frame.kind \notin {"initialize", "query"}
        BY <1>1, <1>2 DEF Conversation
      <4>2. QED
        BY <1>2, <2>2, <2>3, <3>1, <3>2, <4>1
    <3>6. pc' \in Talking
      BY <1>2 DEF Talking
    <3>7. QED
      BY <1>2, <2>1, <3>1, <3>2, <3>3, <3>4, <3>5, <3>6 DEF Calm
  <2>8. QED
    BY <2>4, <2>5, <2>6, <2>7 DEF IInv
<1>6. QED
  BY <1>4, <1>5 DEF Write

(* Reading what is there: a calm server closes its end only after the      *)
(* farewell.                                                               *)
LEMMA ReadKeeps == IInv /\ Read => IInv'
<1> SUFFICES ASSUME IInv, Read PROVE IInv'
  OBVIOUS
<1> USE DEF verdict, world
<1>1. TypeOK /\ Conversation /\ Verdict /\ Calm
  BY DEF IInv
<1>2. pc = "read" /\ UNCHANGED hurried /\ pc \in Talking
      /\ hurried \subseteq {"cancelled", "timeout"}
  BY <1>1 DEF Read, Talking, TypeOK
<1>3. CASE Fail("codec")
  BY <1>2, <1>3, FailKeeps DEF Reasons
<1>4. CASE ~Broken
  <2>1. /\ inbox' = inbox \o fromPeer /\ fromPeer' = <<>> /\ log' = 0
        /\ child' = [child EXCEPT !.eof = @ \/ Shut] /\ pc' = "clock"
        /\ UNCHANGED <<todo, out, ids, outcome, stop, toPeer, peer, said, faults>>
    BY <1>4 DEF Read
  <2>2. /\ inbox' \in Seq(Message) /\ fromPeer' \in Seq(Message)
        /\ Elements(inbox') \subseteq Elements(inbox) \cup Elements(fromPeer)
        /\ Elements(fromPeer') = {}
    <3>1. \E e \in Message : TRUE
      BY MessageFacts DEF Kinds
    <3>2. QED
      BY <1>1, <2>1, <3>1, ElementsGrow DEF TypeOK
  <2>3. /\ child' \in ChildType
        /\ child'.eof = (child.eof \/ Shut) /\ child'.stdin = child.stdin
        /\ child'.fatal = child.fatal /\ child'.handshake = child.handshake
        /\ child'.reaped = child.reaped
    BY <1>1, <2>1 DEF TypeOK, ChildType, Shut
  <2>4. TypeOK'
    BY <1>1, <1>2, <2>1, <2>2, <2>3 DEF TypeOK, Talking
  <2>5. Conversation'
    BY <1>1, <1>2, <2>1 DEF Conversation, Sending, This, Talking
  <2>6. Verdict'
    BY <1>1, <1>2, <2>1, <2>3 DEF Verdict, Talking
  <2>7. Calm'
    <3> SUFFICES ASSUME faults' = 0 PROVE Calm'
      BY DEF Calm
    <3>1. /\ Answers' \subseteq Answers /\ faults = 0 /\ This' = This
          /\ Elements(toPeer)' = Elements(toPeer) /\ Parting' = Parting /\ pc' \in Talking
      BY <2>1, <2>2 DEF Answers, Elements, This, Parting, Talking
    <3>2. ~Parting => /\ peer.up /\ ~peer.leaving /\ ~child'.eof /\ child'.stdin
                      /\ \A p \in Elements(toPeer) : p.last => p.message.kind # "exit"
      BY <1>1, <1>2, <2>3, <3>1, CalmFacts DEF Calm
    <3>3. /\ ~peer.mute /\ ~peer.deaf /\ child'.fatal # "eof" /\ stop # "eof"
          /\ \A m \in Answers : m.kind = "response" => m.id <= ids.last
          /\ \A p \in Elements(toPeer) : p.message.id <= ids.last
          /\ out.frame.id <= ids.last
          /\ This.kind = "shutdown" =>
             /\ \A m \in Answers : m.kind = "response" /\ m.id = ids.last => m.says = "ok"
             /\ \A p \in Elements(toPeer) :
                  p.message.id = ids.last => p.message.kind \notin {"initialize", "query"}
      BY <1>1, <1>2, <2>3, <3>1 DEF Calm
    <3>4. QED
      BY <2>1, <3>1, <3>2, <3>3 DEF Calm
  <2>8. QED
    BY <2>4, <2>5, <2>6, <2>7 DEF IInv
<1>5. QED
  BY <1>3, <1>4 DEF Read

(* The end of a pass.                                                      *)
LEMMA AgainKeeps == IInv /\ Again => IInv'
<1> SUFFICES ASSUME IInv, Again PROVE IInv'
  OBVIOUS
<1> USE DEF pipes, verdict, world
<1>1. TypeOK /\ Conversation /\ Verdict /\ Calm
  BY DEF IInv
<1>2. /\ pc = "clock" /\ pc \in Talking
      /\ UNCHANGED <<inbox, toPeer, fromPeer, log, peer, said, faults, hurried>>
      /\ This \in Items
  BY <1>1, ThisFacts DEF Again, Talking
<1>3. /\ out \in [frame : Message, left : Nat] /\ ids.last \in Nat
      /\ outcome \in {"open", "answered", "failed"} /\ stop = "none"
      /\ faults = 0 => out.frame.id <= ids.last
  BY <1>1, <1>2 DEF TypeOK, Calm, Verdict
<1>4. CASE ~Sent
  <2>1. /\ pc' = IF Sending THEN "guard" ELSE "pop"
        /\ UNCHANGED <<out, ids, todo, child, outcome, stop>>
    BY <1>4 DEF Again, Stay
  <2>2. Conversation'
    BY <1>1, <1>2, <1>3, <1>4, <2>1, ItemFacts DEF Conversation, Sending, Sent, This, Talking
  <2>3. Quiet
    BY <1>1, <1>2, <2>1 DEF Quiet, TypeOK
  <2>4. This' = This /\ pc' \in Talking /\ ~Parting
    BY <1>3, <1>4, <2>1 DEF This, Talking, Parting, Sent, Sending
  <2>5. todo' \in Seq(Items)
    BY <1>1, <2>1 DEF TypeOK
  <2>6. QED
    BY <1>2, <1>3, <2>1, <2>2, <2>3, <2>4, <2>5, StayKeeps
<1>5. CASE Sent
  <2>1. /\ out' = Silence
        /\ ids' = IF This.do = "ask" /\ out.frame.kind = This.kind
                  THEN [ids EXCEPT !.outstanding = @ \cup {ids.last}] ELSE ids
    BY <1>5 DEF Again
  <2>2. /\ ids' \in [last : Nat, outstanding : SUBSET Nat, responded : SUBSET Nat]
        /\ ids'.last = ids.last /\ ids'.outstanding \subseteq {ids.last}
        /\ This.do # "ask" => ids'.outstanding = {}
    <3>1. /\ ids \in [last : Nat, outstanding : SUBSET Nat, responded : SUBSET Nat]
          /\ ids.outstanding \subseteq {ids.last}
          /\ This.do # "ask" => ids.outstanding = {}
      BY <1>1, <1>2 DEF TypeOK, Conversation
    <3>2. CASE This.do = "ask" /\ out.frame.kind = This.kind
      <4>1. ids' = [ids EXCEPT !.outstanding = ids.outstanding \cup {ids.last}]
        BY <2>1, <3>2
      <4>2. QED
        BY <1>3, <3>1, <3>2, <4>1
    <3>3. CASE ~(This.do = "ask" /\ out.frame.kind = This.kind)
      BY <2>1, <3>1, <3>3
    <3>4. QED
      BY <3>2, <3>3
  <2>3. Quiet
    BY <1>1, <1>2, <2>2 DEF Quiet, TypeOK
  <2>4. /\ out' \in [frame : Message, left : Nat] /\ out'.frame.kind = "none"
        /\ out'.frame.id <= ids.last
    BY <1>3, <2>1, SilenceFacts
  <2>5. CASE This.do # "tell"
    <3>1. pc' = "pop" /\ UNCHANGED <<todo, child, outcome, stop>>
      BY <1>5, <2>5 DEF Again, Stay
    <3>2. Conversation'
      BY <1>1, <1>2, <2>2, <2>4, <2>5, <3>1 DEF Conversation, Sending, This, Talking
    <3>3. ~Parting
      <4>1. out.frame.kind \in {This.kind, "refusal", "none"} /\ This.kind # "exit"
        BY <1>1, <1>2, <2>5, ItemFacts DEF Conversation
      <4>2. QED
        BY <4>1 DEF Parting
    <3>4. This' = This /\ pc' \in Talking /\ todo' \in Seq(Items)
      BY <1>1, <3>1 DEF This, Talking, TypeOK
    <3>5. QED
      BY <1>2, <1>3, <2>3, <2>4, <3>1, <3>2, <3>3, <3>4, StayKeeps
  <2>6. CASE This.do = "tell" /\ This.kind = "exit"
    <3>1. Leave("complete") /\ UNCHANGED <<outcome, stop>>
      BY <1>5, <2>6 DEF Again
    <3>2. QED
      BY <1>2, <1>3, <2>2, <2>3, <2>4, <3>1, LeaveKeeps
  <2>7. CASE This.do = "tell" /\ This.kind # "exit"
    <3>1. NextItem
      BY <1>5, <2>7 DEF Again
    <3>2. out.frame.kind = This.kind /\ This.kind # "query" /\ ~Parting
      BY <1>1, <1>2, <2>7, ItemFacts DEF Conversation, Parting
    <3>3. Len(todo) > 1
      BY <1>1, <1>2, <2>7, <3>2, ThisFacts
    <3>4. ids'.outstanding = {}
      BY <2>2, <2>7
    <3>5. QED
      BY <1>2, <2>3, <2>4, <3>1, <3>2, <3>3, <3>4, NextKeeps
  <2>8. QED
    BY <2>5, <2>6, <2>7
<1>6. QED
  BY <1>4, <1>5

(* Looking at a message.                                                   *)
LEMMA TookFacts ==
  ASSUME IInv, NEW m, Took(m)
  PROVE  /\ pc \in Talking /\ pc # "begin" /\ pc # "done" /\ ~Sending /\ ~Parting
         /\ m \in Message /\ m \in Answers /\ This.do # "tell" /\ This \in Items
         /\ Tail(inbox) \in Seq(Message) /\ Elements(Tail(inbox)) \subseteq Elements(inbox)
         /\ hurried' = hurried /\ hurried \subseteq {"cancelled", "timeout"}
         /\ out \in [frame : Message, left : Nat]
         /\ outcome \in {"open", "answered", "failed"}
         /\ todo \in Seq(Items) /\ (faults = 0 => out.frame.id <= ids.last)
<1>1. TypeOK /\ Conversation /\ Calm
  BY DEF IInv
<1>2. pc = "pop" /\ inbox # <<>> /\ m = Head(inbox) /\ UNCHANGED hurried /\ pc \in Talking
  BY DEF Took, Talking
<1>3. /\ m \in Message /\ m \in Elements(inbox)
      /\ Tail(inbox) \in Seq(Message) /\ Elements(Tail(inbox)) \subseteq Elements(inbox)
  BY <1>1, <1>2, ElementsIn DEF TypeOK
<1>4. ~Sending /\ This.do # "tell" /\ This \in Items
  BY <1>1, <1>2, ThisFacts DEF Conversation
<1>5. QED
  BY <1>1, <1>2, <1>3, <1>4 DEF Answers, Parting, Sending, TypeOK, Calm

(* An answer: a second one is dropped, one to nothing asked kills, and the *)
(* one awaited moves the conversation on.                                  *)
LEMMA ResponseKeeps ==
  ASSUME IInv, NEW m, TakeResponse(m)
  PROVE  IInv'
<1> USE DEF pipes, verdict, world
<1>1. TypeOK /\ Conversation /\ Verdict /\ Calm
  BY DEF IInv
<1>2. Took(m) /\ m.kind = "response" /\ pc = "pop" /\ UNCHANGED hurried
  BY DEF TakeResponse, Took
<1>3. CASE Stay("pop") /\ UNCHANGED <<out, ids>> /\ Quietly
  <2>1. pc' = "pop" /\ UNCHANGED <<todo, child, outcome, stop, out, ids>>
    BY <1>3 DEF Stay
  <2>2. Quiet
    BY <1>1, <1>2, <1>3, <2>1, TookFacts DEF Quiet, Quietly, TypeOK
  <2>3. Conversation'
    BY <1>1, <1>2, <2>1 DEF Conversation, Sending, This, Talking
  <2>4. This' = This /\ pc' \in Talking
    BY <2>1 DEF This, Talking
  <2>5. QED
    BY <1>2, <2>1, <2>2, <2>3, <2>4, TookFacts, StayKeeps
<1>4. CASE Fail("codec")
  BY <1>2, <1>4, TookFacts, FailKeeps DEF Reasons
<1>5. CASE m.id \in ids.outstanding /\ Match(m.id) /\ Answered(m.says) /\ UNCHANGED out /\ Quietly
  <2>1. /\ ids' \in [last : Nat, outstanding : SUBSET Nat, responded : SUBSET Nat]
        /\ ids'.last = ids.last /\ ids'.outstanding = {} /\ m.id = ids.last
    <3>1. /\ ids \in [last : Nat, outstanding : SUBSET Nat, responded : SUBSET Nat]
          /\ ids.outstanding \subseteq {ids.last}
      BY <1>1 DEF TypeOK, Conversation
    <3>2. ids' = [ids EXCEPT !.outstanding = ids.outstanding \ {m.id},
                             !.responded = ids.responded \cup {m.id}]
      BY <1>5 DEF Match
    <3>3. QED
      BY <1>5, <3>1, <3>2
  <2>2. Quiet
    BY <1>1, <1>2, <1>5, <2>1, TookFacts DEF Quiet, Quietly, TypeOK
  <2>3. Len(todo) \in Nat /\ (This.kind = "shutdown" => Len(todo) > 1)
    BY <1>1, <1>2, TookFacts, ThisFacts
  <2>4. CASE NextItem /\ Len(todo) > 1
    BY <1>2, <1>5, <2>1, <2>2, <2>4, TookFacts, NextKeeps DEF Sending
  <2>5. CASE \E result \in {"answered", "failed"} : Close(result)
    BY <1>2, <1>5, <2>1, <2>2, <2>5, TookFacts, CloseKeeps
  <2>6. CASE This.kind = "shutdown" /\ m.says # "ok" /\ Leave("refused") /\ UNCHANGED <<outcome, stop>>
    <3>1. faults # 0
      BY <1>1, <1>2, <2>1, <2>6, TookFacts DEF Calm
    <3>2. QED
      BY <1>2, <1>5, <2>1, <2>2, <2>6, <3>1, TookFacts, LeaveKeeps
  <2>7. QED
    BY <1>5, <2>3, <2>4, <2>5, <2>6 DEF Answered
<1>6. QED
  BY <1>3, <1>4, <1>5 DEF TakeResponse

(* A request of the server is refused, a status may end the wait for it,   *)
(* anything else is dropped.                                               *)
LEMMA OtherKeeps ==
  ASSUME IInv, NEW m, TakeOther(m)
  PROVE  IInv'
<1> USE DEF pipes, verdict, world
<1>1. TypeOK /\ Conversation /\ Verdict /\ Calm
  BY DEF IInv
<1>2. /\ Took(m) /\ pc = "pop" /\ UNCHANGED hurried /\ UNCHANGED ids /\ Quietly
  BY DEF TakeOther, Took
<1>3. Quiet
  BY <1>1, <1>2, TookFacts DEF Quiet, Quietly, TypeOK
<1>4. This.do # "ask" => ids'.outstanding = {}
  BY <1>1, <1>2, TookFacts DEF Conversation
<1>5. ASSUME NEW at \in {"pop", "guard", "begin"}, Stay(at),
             out'.frame.kind \in {"none", "refusal"}, out' \in [frame : Message, left : Nat],
             out'.frame.id = 0 \/ out' = out, Sending' => at = "guard" /\ out'.left > 0,
             at = "begin" => This.do = "ready"
      PROVE  IInv'
  <2>1. pc' = at /\ UNCHANGED <<todo, child, outcome, stop>>
    BY <1>5 DEF Stay
  <2>2. Conversation'
    BY <1>1, <1>2, <1>4, <1>5, <2>1, TookFacts DEF Conversation, This, Talking, Sending
  <2>3. This' = This /\ pc' \in Talking
    BY <1>5, <2>1 DEF This, Talking
  <2>4. faults = 0 => out'.frame.id <= ids.last
    BY <1>1, <1>2, <1>5, TookFacts DEF TypeOK
  <2>5. pc # "begin"
    BY <1>2
  <2>6. QED
    BY <1>2, <1>3, <1>5, <2>1, <2>2, <2>3, <2>4, <2>5, TookFacts, StayKeeps
<1>6. out.frame.kind = "none" /\ ~Sending
  BY <1>2, TookFacts DEF Sending
<1>7. CASE m.kind = "request"
  <2>1. Stay("guard") /\ out' = [frame |-> Plain("refusal"), left |-> 1]
    BY <1>7 DEF TakeOther
  <2>2. Plain("refusal") \in Message /\ Plain("refusal").kind = "refusal" /\ Plain("refusal").id = 0
    BY MessageFacts DEF Kinds
  <2>3. QED
    BY <1>5, <2>1, <2>2
<1>8. CASE UNCHANGED out /\ Stay("pop")
  BY <1>2, <1>5, <1>6, <1>8, TookFacts DEF Sending
<1>9. CASE UNCHANGED out /\ Status(m.says) /\ This.do = "ready"
  <2>1. CASE Close("failed")
    BY <1>2, <1>3, <1>4, <1>9, <2>1, TookFacts, CloseKeeps
  <2>2. CASE Stay("begin")
    BY <1>2, <1>5, <1>6, <1>9, <2>2, TookFacts DEF Sending
  <2>3. CASE NextItem
    <3>1. This.kind = "status" /\ Len(todo) > 1
      BY <1>1, <1>2, <1>9, TookFacts, ItemFacts, ThisFacts
    <3>2. QED
      BY <1>2, <1>3, <1>4, <1>6, <1>9, <2>3, <3>1, TookFacts, NextKeeps
  <2>4. QED
    BY <1>9, <2>1, <2>2, <2>3 DEF Status
<1>10. QED
  BY <1>7, <1>8, <1>9 DEF TakeOther, Status

(* Nothing to look at.                                                     *)
LEMMA NoneKeeps == IInv /\ TakeNone => IInv'
<1> SUFFICES ASSUME IInv, TakeNone PROVE IInv'
  OBVIOUS
<1> USE DEF pipes, verdict, world
<1>1. TypeOK /\ Conversation /\ Verdict /\ Calm
  BY DEF IInv
<1>2. /\ pc = "pop" /\ pc' = "guard"
      /\ UNCHANGED <<todo, child, outcome, stop, out, inbox, ids, toPeer, fromPeer, log,
                     peer, said, faults, hurried>>
  BY DEF TakeNone, Stay
<1>3. Conversation'
  BY <1>1, <1>2 DEF Conversation, This, Talking, Sending
<1>4. Quiet
  BY <1>1, <1>2 DEF Quiet, TypeOK
<1>5. /\ pc \in Talking /\ pc' \in Talking /\ ~Parting /\ This' = This
      /\ out' \in [frame : Message, left : Nat] /\ todo' \in Seq(Items)
      /\ outcome' \in {"open", "answered", "failed"}
      /\ faults = 0 => out'.frame.id <= ids.last
  BY <1>1, <1>2 DEF Conversation, Sending, Parting, Talking, This, TypeOK, Calm
<1>6. QED
  BY <1>2, <1>3, <1>4, <1>5, StayKeeps

(* Outside the conversation: nothing is sent, decoded or asked any more.   *)
LEMMA OverKeeps ==
  ASSUME IInv, TypeOK', Verdict', pc \notin Talking, pc' \notin Talking,
         child'.fatal = child.fatal, child'.handshake = child.handshake,
         peer'.mute = peer.mute, peer'.deaf = peer.deaf, peer'.todo = peer.todo,
         faults' = 0 => faults = 0 /\ stop' # "eof",
         Elements(fromPeer)' \subseteq Elements(fromPeer),
         UNCHANGED <<todo, out, inbox, ids, toPeer>>
  PROVE  IInv'
<1>1. Conversation /\ Calm
  BY DEF IInv
<1>2. Conversation'
  BY <1>1 DEF Conversation, Talking
<1>3. Calm'
  <2>1. Answers' \subseteq Answers /\ Elements(toPeer)' = Elements(toPeer)
    BY DEF Answers, Elements
  <2>2. QED
    BY <1>1, <2>1 DEF Calm
<1>4. QED
  BY <1>2, <1>3 DEF IInv

(* What classify_stop makes of the end: ended only of a process that was   *)
(* reaped, exited of none that was killed, eof of no calm server.          *)
LEMMA FinishKeeps ==
  ASSUME IInv, NEW code \in {"none", "exit", "signal", "killed"}, NEW reaped \in BOOLEAN,
         pc \in {"leave", "drain", "kept"}, Finish(code, reaped),
         hurried \subseteq hurried', hurried' \subseteq {"cancelled", "timeout"},
         peer' \in PeerType, reaped => ~peer'.up,
         peer'.mute = peer.mute, peer'.deaf = peer.deaf, peer'.todo = peer.todo,
         faults' \in Nat, faults' = 0 => faults = 0,
         code = "exit" => peer'.code = "exit"
  PROVE  IInv'
<1> USE DEF pipes
<1>1. TypeOK /\ Verdict /\ Calm
  BY DEF IInv
<1>2. /\ pc' = (IF reaped THEN "done" ELSE "drop") /\ stop' = Stop(code, reaped)
      /\ child' = [child EXCEPT !.reaped = reaped]
      /\ UNCHANGED <<todo, out, inbox, ids, outcome, toPeer, fromPeer, log, said>>
  BY DEF Finish
<1>3. /\ child' \in ChildType /\ child'.fatal = child.fatal
      /\ child'.handshake = child.handshake /\ child'.reaped = reaped
      /\ child'.eof = child.eof
      /\ child.fatal \in Reasons \cup {"none"}
      /\ child.handshake \in {"none", "refused", "complete"}
  BY <1>1, <1>2 DEF TypeOK, ChildType
<1>4. pc \notin Talking /\ pc' \notin Talking
  BY <1>2 DEF Talking
<1>5. child.fatal = "none" /\ child.handshake = "none" => child.eof
  BY <1>1, <1>4 DEF Verdict
<1>6. /\ stop' \in {"none", "exited", "killed", "kill_uncertain", "cancelled", "timeout", "eof"}
      /\ stop' # "kill_uncertain" => reaped
      /\ stop' = "exited" => /\ code = "exit" /\ child.fatal = "none"
                             /\ child.handshake # "none"
      /\ stop' \in {"cancelled", "timeout"} => child.fatal = stop'
      /\ stop' = "eof" => \/ child.fatal = "eof"
                          \/ child.fatal = "none" /\ child.handshake # "complete"
  BY <1>2, <1>3, <1>5 DEF Stop
<1>7. TypeOK'
  BY <1>1, <1>2, <1>3, <1>6 DEF TypeOK
<1>8. Verdict'
  BY <1>1, <1>2, <1>3, <1>5, <1>6 DEF Verdict
<1>9. faults' = 0 => stop' # "eof"
  BY <1>1, <1>4, <1>6 DEF Calm
<1>10. QED
  BY <1>2, <1>3, <1>4, <1>7, <1>8, <1>9, OverKeeps DEF Elements

(* A step after the conversation that gives no verdict: a look at the      *)
(* process, a drain, a kill that waits, a wait that is over.               *)
LEMMA AwayKeeps ==
  ASSUME IInv, pc \notin Talking, pc' \in {"leave", "drain", "lost", "done"} \cup Blocked,
         pc' \notin {"lost", "done"} => stop = "none",
         child' \in ChildType, child'.fatal = child.fatal,
         child'.handshake = child.handshake, child.eof => child'.eof,
         child'.reaped => ~peer'.up,
         hurried \subseteq hurried', hurried' \subseteq {"cancelled", "timeout"},
         peer' \in PeerType, peer'.mute = peer.mute, peer'.deaf = peer.deaf,
         peer'.todo = peer.todo, peer'.up => peer.up, ~peer.up => peer'.code = peer.code,
         faults' \in Nat, faults' = 0 => faults = 0,
         fromPeer' \in Seq(Message), Elements(fromPeer)' \subseteq Elements(fromPeer),
         log' \in Nat,
         UNCHANGED <<todo, out, inbox, ids, outcome, stop, toPeer, said>>
  PROVE  IInv'
<1>1. TypeOK /\ Verdict /\ Calm
  BY DEF IInv
<1>2. TypeOK'
  <2>1. pc' \in Talking \cup {"leave", "drain", "drop", "done"} \cup Blocked
    BY DEF Blocked
  <2>2. QED
    BY <1>1, <2>1 DEF TypeOK
<1>3. pc' \notin Talking /\ (pc' = "lost" \/ pc' = "done" \/ stop = "none")
  BY DEF Talking, Blocked
<1>4. Verdict'
  <2>1. /\ stop \notin {"none", "kill_uncertain"} => ~peer.up /\ ~peer'.up
        /\ stop = "exited" => peer'.code = "exit"
    BY <1>1 DEF Verdict, TypeOK, PeerType
  <2>2. QED
    BY <1>1, <1>3, <2>1 DEF Verdict
<1>5. faults' = 0 => faults = 0 /\ stop' # "eof"
  BY <1>1 DEF Calm
<1>6. QED
  BY <1>2, <1>3, <1>4, <1>5, OverKeeps

(* The kill the wait for the exit ends with.                               *)
LEMMA LastKillKeeps ==
  ASSUME IInv, NEW fault \in BOOLEAN, LastKill(fault), pc \in {"leave", "drain"},
         hurried \subseteq hurried', hurried' \subseteq {"cancelled", "timeout"}
  PROVE  IInv'
<1>1. PICK sent \in BOOLEAN, waited \in BOOLEAN :
        /\ Kill(sent, waited, fault)
        /\ IF waited /\ ~sent
           THEN Stay("kept") /\ UNCHANGED <<out, inbox, ids, pipes, said>>
           ELSE Finish("none", sent /\ waited)
  BY DEF LastKill
<1>2. TypeOK /\ Verdict /\ pc \notin Talking /\ stop = "none"
  BY DEF IInv, Verdict, Talking
<1>3. CASE waited /\ ~sent
  <2>1. /\ pc' = "kept" /\ UNCHANGED <<todo, child, outcome, stop>>
        /\ UNCHANGED <<out, inbox, ids, toPeer, fromPeer, log, said>>
    BY <1>1, <1>3 DEF Stay, verdict, pipes
  <2>2. child'.reaped => ~peer'.up
    BY <1>1, <1>2, <2>1, KillFacts DEF Verdict
  <2>3. /\ child' \in ChildType /\ fromPeer' \in Seq(Message) /\ log' \in Nat
        /\ pc' \in Blocked /\ Elements(fromPeer)' \subseteq Elements(fromPeer)
    BY <1>2, <2>1 DEF TypeOK, Blocked, Elements
  <2>4. QED
    BY <1>1, <1>2, <2>1, <2>2, <2>3, KillFacts, AwayKeeps
<1>4. CASE ~(waited /\ ~sent)
  <2>1. Finish("none", sent /\ waited) /\ (sent /\ waited) \in BOOLEAN
    BY <1>1, <1>4
  <2>2. sent /\ waited => ~peer'.up
    BY <1>1, <1>2, KillFacts
  <2>3. QED
    BY <1>1, <1>2, <2>1, <2>2, KillFacts, FinishKeeps
<1>5. QED
  BY <1>3, <1>4

(* The wait for the exit.                                                  *)
LEMMA WaitKeeps == IInv /\ Wait => IInv'
<1> SUFFICES ASSUME IInv, Wait PROVE IInv'
  OBVIOUS
<1> USE DEF pipes, verdict, world
<1>1. /\ TypeOK /\ Verdict /\ pc = "leave" /\ UNCHANGED hurried
      /\ hurried' \subseteq {"cancelled", "timeout"} /\ stop = "none" /\ pc \notin Talking
  BY DEF IInv, Wait, TypeOK, Verdict, Talking
<1>2. CASE ~peer.up /\ Finish(peer.code, TRUE) /\ UNCHANGED <<peer, faults>>
  <2>1. /\ peer' \in PeerType /\ ~peer'.up /\ faults' \in Nat
        /\ peer.code \in {"none", "exit", "signal", "killed"}
    BY <1>1, <1>2 DEF TypeOK, PeerType
  <2>2. QED
    BY <1>1, <1>2, <2>1, FinishKeeps
<1>3. CASE LastKill(TRUE)
  BY <1>1, <1>3, LastKillKeeps
<1>4. CASE peer.up /\ Stay("drain") /\ UNCHANGED <<out, inbox, ids, pipes, world>>
  <2>1. /\ pc' = "drain" /\ UNCHANGED <<todo, child, outcome, stop, peer, faults>>
        /\ child' \in ChildType /\ peer' \in PeerType /\ fromPeer' \in Seq(Message)
        /\ log' \in Nat /\ faults' \in Nat /\ (child'.reaped => ~peer'.up)
    BY <1>1, <1>4 DEF Stay, TypeOK, Verdict
  <2>2. QED
    BY <1>1, <1>4, <2>1, AwayKeeps DEF Elements
<1>5. QED
  BY <1>2, <1>3, <1>4 DEF Wait

(* The guard of the process kills once more.                               *)
LEMMA DropKeeps == IInv /\ Drop => IInv'
<1> SUFFICES ASSUME IInv, Drop PROVE IInv'
  OBVIOUS
<1>1. /\ TypeOK /\ Verdict /\ pc \notin Talking
      /\ UNCHANGED <<out, inbox, ids, toPeer, fromPeer, log, said, hurried>>
      /\ hurried' \subseteq {"cancelled", "timeout"}
  BY DEF IInv, Drop, TypeOK, Talking, pipes
<1>2. PICK sent \in BOOLEAN, waited \in BOOLEAN :
        /\ Kill(sent, waited, FALSE)
        /\ Stay(IF waited /\ ~sent THEN "lost" ELSE "done")
  BY DEF Drop
<1>3. /\ pc' \in {"lost", "done"} /\ UNCHANGED <<todo, child, outcome, stop>>
  BY <1>2 DEF Stay, verdict
<1>4. child'.reaped => ~peer'.up
  BY <1>1, <1>2, <1>3, KillFacts DEF Verdict
<1>5. child' \in ChildType /\ fromPeer' \in Seq(Message) /\ log' \in Nat
  BY <1>1, <1>3 DEF TypeOK
<1>6. QED
  BY <1>1, <1>2, <1>3, <1>4, <1>5, KillFacts, AwayKeeps DEF Elements

(* The wait for a process that no signal reached is over.                  *)
LEMMA ReapKeeps == IInv /\ Reap => IInv'
<1> SUFFICES ASSUME IInv, Reap PROVE IInv'
  OBVIOUS
<1> USE DEF pipes, verdict
<1>1. /\ TypeOK /\ Verdict /\ pc \in Blocked /\ ~peer.up /\ pc \notin Talking
      /\ UNCHANGED <<peer, faults, hurried>> /\ peer' \in PeerType /\ ~peer'.up
      /\ faults' \in Nat /\ hurried' \subseteq {"cancelled", "timeout"}
  BY DEF IInv, Reap, TypeOK, Talking, Blocked
<1>2. CASE pc = "kept"
  <2>1. Finish("none", TRUE)
    BY <1>2 DEF Reap
  <2>2. QED
    BY <1>1, <1>2, <2>1, FinishKeeps
<1>3. CASE pc # "kept"
  <2>1. /\ pc' = (IF pc = "held" THEN "leave" ELSE "done")
        /\ child' = [child EXCEPT !.reaped = TRUE]
        /\ UNCHANGED <<todo, out, inbox, ids, outcome, stop, toPeer, fromPeer, log, said>>
    BY <1>3 DEF Reap
  <2>2. /\ child' \in ChildType /\ child'.fatal = child.fatal
        /\ child'.handshake = child.handshake /\ child'.eof = child.eof
        /\ fromPeer' \in Seq(Message) /\ log' \in Nat
    BY <1>1, <2>1 DEF TypeOK, ChildType
  <2>3. pc' # "done" => stop = "none"
    BY <1>1, <2>1 DEF Verdict, Blocked
  <2>4. QED
    BY <1>1, <2>1, <2>2, <2>3, AwayKeeps DEF Elements
<1>4. QED
  BY <1>2, <1>3

(* The drain between two looks at the process.                             *)
LEMMA DrainKeeps == IInv /\ Drain => IInv'
<1> SUFFICES ASSUME IInv, Drain PROVE IInv'
  OBVIOUS
<1>1. /\ TypeOK /\ Verdict /\ pc = "drain" /\ pc' = "leave" /\ fromPeer' = <<>> /\ log' = 0
      /\ child' = [child EXCEPT !.eof = @ \/ Shut] /\ pc \notin Talking
      /\ UNCHANGED <<todo, out, inbox, ids, outcome, stop, toPeer, peer, said, faults, hurried>>
  BY DEF IInv, Drain, Talking, verdict, world
<1>2. /\ child' \in ChildType /\ child'.reaped = child.reaped
      /\ child'.fatal = child.fatal /\ child'.handshake = child.handshake
      /\ (child.eof => child'.eof)
  BY <1>1 DEF TypeOK, ChildType, Shut
<1>3. fromPeer' \in Seq(Message) /\ Elements(fromPeer)' \subseteq Elements(fromPeer)
  <2>1. <<>> \in Seq(Message) /\ Elements(<<>>) = {}
    <3>1. \E e \in Message : TRUE
      BY MessageFacts DEF Kinds
    <3>2. QED
      BY <1>1, <3>1, ElementsGrow DEF TypeOK
  <2>2. QED
    BY <1>1, <2>1 DEF Elements
<1>4. /\ peer' \in PeerType /\ faults' \in Nat /\ log' \in Nat /\ stop = "none"
      /\ hurried' \subseteq {"cancelled", "timeout"} /\ (child'.reaped => ~peer'.up)
  BY <1>1, <1>2 DEF TypeOK, Verdict
<1>5. QED
  BY <1>1, <1>2, <1>3, <1>4, AwayKeeps

(* The token and the deadlines.                                            *)
LEMMA CancelKeeps == IInv /\ (Cancel \/ Cancelled) => IInv'
<1> SUFFICES ASSUME IInv, Cancel \/ Cancelled PROVE IInv'
  OBVIOUS
<1>1. pc = "guard" /\ pc \in Talking /\ hurried \subseteq {"cancelled", "timeout"}
  BY DEF Cancel, Cancelled, Talking, IInv, TypeOK
<1>2. CASE Cancelled
  BY <1>1, <1>2, FailKeeps DEF Cancelled, Reasons
<1>3. CASE Cancel
  <2>1. /\ hurried \subseteq hurried' /\ hurried' \subseteq {"cancelled", "timeout"}
        /\ UNCHANGED <<todo, pc, out, inbox, ids, child, outcome, stop, toPeer, fromPeer,
                       log, peer, said, faults>>
    BY <1>1, <1>3 DEF Cancel, verdict, pipes, world
  <2>2. QED
    BY <2>1 DEF IInv, TypeOK, Conversation, Verdict, Calm, Sending, This, Answers,
       Parting, Elements
<1>4. QED
  BY <1>2, <1>3

LEMMA RunOutKeeps == IInv /\ RunOut => IInv'
<1> SUFFICES ASSUME IInv, RunOut PROVE IInv'
  OBVIOUS
<1> USE DEF pipes, world
<1>1. /\ hurried' = hurried \cup {"timeout"} /\ TypeOK /\ Conversation
      /\ hurried \subseteq hurried' /\ hurried' \subseteq {"cancelled", "timeout"}
  BY DEF RunOut, IInv, TypeOK
<1>2. CASE pc \in {"guard", "clock"} /\ Fail("timeout")
  <2>1. pc \in Talking /\ "timeout" \in Reasons
    BY <1>2 DEF Talking, Reasons
  <2>2. QED
    BY <1>1, <1>2, <2>1, FailKeeps
<1>3. CASE pc = "begin" /\ Close("failed") /\ UNCHANGED <<out, inbox, ids, pipes, world>>
  <2>1. pc \in Talking /\ ~Sending /\ ids'.outstanding = {}
    BY <1>1, <1>3 DEF Conversation, Talking
  <2>2. Quiet
    BY <1>1, <1>3 DEF Quiet, TypeOK
  <2>3. QED
    BY <1>3, <2>1, <2>2, CloseKeeps
<1>4. CASE pc = "drain" /\ LastKill(FALSE)
  BY <1>1, <1>4, LastKillKeeps
<1>5. QED
  BY <1>2, <1>3, <1>4 DEF RunOut, Guarded

-----------------------------------------------------------------------------
(* The actions of the server.                                              *)

(* A step of the server that runs, keeps the protocol and says nothing to  *)
(* what was not asked.                                                     *)
LEMMA ServerKeeps ==
  ASSUME IInv, Idle, peer.up, peer' \in PeerType, log' \in Nat, said' \in Nat,
         UNCHANGED faults, peer'.mute = peer.mute, peer'.deaf = peer.deaf,
         toPeer' \in Seq(Part), Elements(toPeer)' \subseteq Elements(toPeer),
         fromPeer' \in Seq(Message),
         \A m \in Answers' : m \in Answers \/ m.kind # "response" \/
           /\ m.id <= ids.last
           /\ pc \in Talking \ {"begin"} /\ This.kind = "shutdown" /\ m.id = ids.last
                => m.says = "ok",
         pc \in Talking /\ ~Parting /\ faults = 0 => peer'.up /\ ~peer'.leaving
  PROVE  IInv'
<1> USE DEF clientVars, verdict
<1>1. TypeOK /\ Conversation /\ Verdict /\ Calm
  BY DEF IInv
<1>2. UNCHANGED <<todo, pc, out, inbox, ids, child, hurried, outcome, stop>>
  BY DEF Idle
<1>3. TypeOK'
  BY <1>1, <1>2 DEF TypeOK, PeerType
<1>4. Conversation'
  BY <1>1, <1>2 DEF Conversation, Sending, This
<1>5. Verdict'
  BY <1>1, <1>2 DEF Verdict
<1>6. Calm'
  <2> SUFFICES ASSUME faults' = 0 PROVE Calm'
    BY DEF Calm
  <2>1. This' = This /\ Parting' = Parting /\ faults = 0
    BY <1>2 DEF This, Parting
  <2>2. /\ \A m \in Answers' : m.kind = "response" => m.id <= ids.last
        /\ pc \in Talking \ {"begin"} /\ This.kind = "shutdown" =>
             \A m \in Answers' : m.kind = "response" /\ m.id = ids.last => m.says = "ok"
    BY <1>1, <2>1 DEF Calm
  <2>3. QED
    BY <1>1, <1>2, <2>1, <2>2 DEF Calm
<1>7. QED
  BY <1>3, <1>4, <1>5, <1>6 DEF IInv

(* What the server answers to a message it has read.                       *)
LEMMA ReplyFacts ==
  ASSUME NEW m \in Message, NEW reply \in Replies(m)
  PROVE  /\ reply \in Seq(Message)
         /\ \A r \in Elements(reply) : r.kind = "response" =>
              r.id = m.id /\ (m.kind \notin {"initialize", "query"} => r.says = "ok")
<1>1. m.id \in Nat
  BY DEF Message
<1>2. \/ reply = <<>>
      \/ \E s \in {"ok", "error"} : reply = <<[Plain("status") EXCEPT !.says = s]>>
      \/ \E says \in {"ok", "error"} :
           /\ reply = <<Reply(m.id, says)>>
           /\ m.kind \notin {"initialize", "query"} => says = "ok"
  BY DEF Replies
<1>3. CASE reply = <<>>
  <2>1. <<>> \in Seq(Message)
    OBVIOUS
  <2>2. QED
    BY <1>3, <2>1, ElementsOfNone
<1>4. ASSUME NEW s \in {"ok", "error"}, reply = <<[Plain("status") EXCEPT !.says = s]>>
      PROVE  /\ reply \in Seq(Message)
             /\ \A r \in Elements(reply) : r.kind = "response" =>
                  r.id = m.id /\ (m.kind \notin {"initialize", "query"} => r.says = "ok")
  <2> DEFINE e == [Plain("status") EXCEPT !.says = s]
  <2>1. e \in Message /\ e.kind = "status"
    BY <1>4 DEF Plain, Message, Kinds
  <2> HIDE DEF e
  <2>2. <<e>> \in Seq(Message) /\ Elements(<<e>>) = {e}
    BY <2>1, ElementsOfOne
  <2>3. reply = <<e>>
    BY <1>4 DEF e
  <2>4. QED
    BY <2>1, <2>2, <2>3
<1>5. ASSUME NEW says \in {"ok", "error"}, reply = <<Reply(m.id, says)>>,
             m.kind \notin {"initialize", "query"} => says = "ok"
      PROVE  /\ reply \in Seq(Message)
             /\ \A r \in Elements(reply) : r.kind = "response" =>
                  r.id = m.id /\ (m.kind \notin {"initialize", "query"} => r.says = "ok")
  <2> DEFINE e == Reply(m.id, says)
  <2>1. e \in Message /\ e.id = m.id /\ e.says = says
    BY <1>1, MessageFacts
  <2> HIDE DEF e
  <2>2. <<e>> \in Seq(Message) /\ Elements(<<e>>) = {e}
    BY <2>1, ElementsOfOne
  <2>3. reply = <<e>>
    BY <1>5 DEF e
  <2>4. QED
    BY <1>5, <2>1, <2>2, <2>3
<1>6. QED
  BY <1>2, <1>3, <1>4, <1>5

(* Reading a part: only the last part of the farewell makes it leave, and  *)
(* a request to shut down is not refused.                                  *)
LEMMA PeerReadKeeps == IInv /\ PeerRead => IInv'
<1> SUFFICES ASSUME IInv, PeerRead PROVE IInv'
  OBVIOUS
<1> DEFINE part == Head(toPeer)
<1>1. TypeOK /\ Calm /\ peer.up /\ toPeer # <<>> /\ Idle
      /\ toPeer' = Tail(toPeer) /\ UNCHANGED <<fromPeer, log, said, faults>>
  BY DEF IInv, PeerRead, Running
<1>2. /\ part \in Part /\ part \in Elements(toPeer)
      /\ toPeer' \in Seq(Part) /\ Elements(Tail(toPeer)) \subseteq Elements(toPeer)
  BY <1>1, ElementsIn DEF TypeOK
<1> HIDE DEF part
<1>3. Elements(toPeer)' \subseteq Elements(toPeer)
  BY <1>1, <1>2 DEF Elements
<1>4. /\ part.message \in Message /\ part.last \in BOOLEAN /\ peer \in PeerType
      /\ log' \in Nat /\ said' \in Nat /\ fromPeer' \in Seq(Message)
  BY <1>1, <1>2 DEF Part, TypeOK, PeerType
<1>5. faults = 0 =>
        /\ part.message.id <= ids.last
        /\ pc \in Talking /\ ~Parting => ~peer.leaving /\ (part.last => part.message.kind # "exit")
        /\ pc \in Talking \ {"begin"} /\ This.kind = "shutdown" /\ part.message.id = ids.last
             => part.message.kind \notin {"initialize", "query"}
  BY <1>1, <1>2 DEF Calm
<1>6. inbox' = inbox /\ fromPeer' = fromPeer
  BY <1>1 DEF Idle, clientVars
<1>7. CASE UNCHANGED peer
  <2>1. Answers' = Answers
    BY <1>6, <1>7 DEF Answers, Elements
  <2>2. QED
    BY <1>1, <1>2, <1>3, <1>4, <1>5, <1>7, <2>1, ServerKeeps
<1>9. ASSUME NEW reply \in Replies(part.message), part.last,
             peer' = [peer EXCEPT
               !.todo = reply, !.leaving = @ \/ part.message.kind = "exit",
               !.unwilling = @ \/ (reply # <<>> /\ reply[1].says = "error")]
      PROVE  IInv'
  <2>1. /\ reply \in Seq(Message)
        /\ \A r \in Elements(reply) : r.kind = "response" =>
             /\ r.id = part.message.id
             /\ part.message.kind \notin {"initialize", "query"} => r.says = "ok"
    BY <1>4, ReplyFacts
  <2>2. /\ peer' \in PeerType /\ peer'.up = peer.up /\ peer'.mute = peer.mute
        /\ peer'.deaf = peer.deaf /\ peer'.todo = reply
        /\ peer'.leaving = (peer.leaving \/ part.message.kind = "exit")
    BY <1>4, <1>9, <2>1 DEF PeerType
  <2>3. Answers' \subseteq Answers \cup Elements(reply)
    BY <1>6, <2>2 DEF Answers, Elements
  <2>4. CASE faults = 0
    <3>1. \A m \in Answers' : m \in Answers \/ m.kind # "response" \/
            /\ m.id <= ids.last
            /\ pc \in Talking \ {"begin"} /\ This.kind = "shutdown" /\ m.id = ids.last
                 => m.says = "ok"
      BY <1>5, <2>1, <2>3, <2>4
    <3>2. pc \in Talking /\ ~Parting => peer'.up /\ ~peer'.leaving
      BY <1>1, <1>5, <1>9, <2>2, <2>4
    <3>3. QED
      BY <1>1, <1>2, <1>3, <1>4, <2>2, <3>1, <3>2, ServerKeeps
  <2>5. CASE faults # 0
    BY <1>1, <1>2, <1>4, <2>2, <2>5 DEF IInv, Calm, TypeOK, Conversation, Verdict, Idle,
       clientVars, verdict, PeerType, Sending, This
  <2>6. QED
    BY <2>4, <2>5
<1>10. QED
  BY <1>7, <1>9 DEF PeerRead, part

(* What it writes was an answer before.                                    *)
LEMMA PeerWriteKeeps == IInv /\ PeerWrite => IInv'
<1> SUFFICES ASSUME IInv, PeerWrite PROVE IInv'
  OBVIOUS
<1> DEFINE m == Head(peer.todo)
<1>1. TypeOK /\ Calm /\ peer.up /\ peer.todo # <<>> /\ Idle /\ peer \in PeerType
      /\ peer' = [peer EXCEPT !.todo = Tail(@)] /\ UNCHANGED <<toPeer, said, faults>>
  BY DEF IInv, PeerWrite, Running, TypeOK, PeerType
<1>2. peer.todo \in Seq(Message) /\ fromPeer \in Seq(Message)
  BY <1>1 DEF TypeOK, PeerType
<1>3. /\ m \in Message /\ m \in Elements(peer.todo)
      /\ Tail(peer.todo) \in Seq(Message)
      /\ Elements(Tail(peer.todo)) \subseteq Elements(peer.todo)
  BY <1>1, <1>2, ElementsIn
<1>4. /\ log' \in Nat
      /\ fromPeer' = fromPeer \/ fromPeer' = Append(fromPeer, m)
  BY <1>1 DEF PeerWrite, TypeOK
<1> HIDE DEF m
<1>5. fromPeer' \in Seq(Message) /\ Elements(fromPeer') \subseteq Elements(fromPeer) \cup {m}
  <2>1. /\ Append(fromPeer, m) \in Seq(Message)
        /\ Elements(Append(fromPeer, m)) \subseteq Elements(fromPeer) \cup {m}
    BY <1>2, <1>3, ElementsGrow
  <2>2. CASE fromPeer' = fromPeer
    BY <1>2, <2>2 DEF Elements
  <2>3. CASE fromPeer' = Append(fromPeer, m)
    BY <2>1, <2>3
  <2>4. QED
    BY <1>4, <2>2, <2>3
<1>6. /\ peer' \in PeerType /\ peer'.up = peer.up /\ peer'.mute = peer.mute
      /\ peer'.deaf = peer.deaf /\ peer'.todo = Tail(peer.todo)
      /\ peer'.leaving = peer.leaving
  BY <1>1, <1>3 DEF PeerType
<1>7. inbox' = inbox
  BY <1>1 DEF Idle, clientVars
<1>8. Answers' \subseteq Answers
  BY <1>3, <1>5, <1>6, <1>7 DEF Answers, Elements
<1>9. pc \in Talking /\ ~Parting /\ faults = 0 => ~peer.leaving
  BY <1>1 DEF Calm
<1>10. toPeer' \in Seq(Part) /\ Elements(toPeer)' \subseteq Elements(toPeer) /\ said' \in Nat
  BY <1>1 DEF TypeOK, Elements
<1>11. QED
  BY <1>1, <1>4, <1>5, <1>6, <1>8, <1>9, <1>10, ServerKeeps

(* A calm server leaves after the farewell, or after its stdin was closed. *)
LEMMA PeerLeaveKeeps == IInv /\ PeerLeave => IInv'
<1> SUFFICES ASSUME IInv, PeerLeave PROVE IInv'
  OBVIOUS
<1> USE DEF pipes
<1>1. TypeOK /\ Calm /\ peer.up /\ Idle /\ peer \in PeerType
      /\ UNCHANGED <<toPeer, fromPeer, log, said, faults>>
  BY DEF IInv, PeerLeave, Running, TypeOK, PeerType
<1>2. \/ peer.leaving /\ peer' = [peer EXCEPT !.up = FALSE, !.code = "exit"]
      \/ ~child.stdin /\ peer' = [peer EXCEPT !.leaving = TRUE]
  BY DEF PeerLeave
<1>3. /\ peer' \in PeerType /\ peer'.mute = peer.mute
      /\ peer'.deaf = peer.deaf /\ peer'.todo = peer.todo
  BY <1>1, <1>2 DEF PeerType
<1>4. ~(pc \in Talking /\ ~Parting /\ faults = 0)
  BY <1>1, <1>2 DEF Calm
<1>5. Answers' = Answers
  BY <1>1, <1>3 DEF Answers, Elements, Idle, clientVars
<1>6. /\ toPeer' \in Seq(Part) /\ Elements(toPeer)' \subseteq Elements(toPeer) /\ said' \in Nat
      /\ log' \in Nat /\ fromPeer' \in Seq(Message)
  BY <1>1 DEF TypeOK, Elements
<1>7. QED
  BY <1>1, <1>3, <1>4, <1>5, <1>6, ServerKeeps

(* A message put in front of what the server has to say.                   *)
LEMMA SayFacts ==
  ASSUME TypeOK, NEW m \in Message, Say(m)
  PROVE  /\ peer' \in PeerType /\ peer'.up = peer.up /\ peer'.mute = peer.mute
         /\ peer'.deaf = peer.deaf /\ peer'.leaving = peer.leaving
         /\ Elements(peer'.todo) \subseteq Elements(peer.todo) \cup {m}
<1>1. peer \in PeerType /\ peer.todo \in Seq(Message)
  BY DEF TypeOK, PeerType
<1>2. <<m>> \o peer.todo \in Seq(Message)
      /\ Elements(<<m>> \o peer.todo) \subseteq Elements(peer.todo) \cup {m}
  BY <1>1, ElementsGrow
<1>3. peer' = [peer EXCEPT !.todo = <<m>> \o peer.todo]
  BY DEF Say
<1> DEFINE t == <<m>> \o peer.todo
<1> HIDE DEF t
<1>4. peer' = [peer EXCEPT !.todo = t] /\ t \in Seq(Message)
      /\ Elements(t) \subseteq Elements(peer.todo) \cup {m}
  BY <1>2, <1>3 DEF t
<1>5. QED
  BY <1>1, <1>4 DEF PeerType

(* What it says unasked answers nothing.                                   *)
LEMMA ChatKeeps == IInv /\ Chat => IInv'
<1> SUFFICES ASSUME IInv, Chat PROVE IInv'
  OBVIOUS
<1> USE DEF pipes
<1>1. TypeOK /\ Calm /\ peer.up /\ Idle /\ said' = said + 1
      /\ UNCHANGED <<toPeer, fromPeer, log, faults>>
  BY DEF IInv, Chat, Running
<1>2. PICK m \in Message : m.kind # "response" /\ Say(m)
  <2>1. PICK kind \in {"note", "request", "log", "status"} :
          Say([Plain(kind) EXCEPT !.says = IF kind = "status" THEN "busy" ELSE "ok"])
    BY AnalyzerAssumption DEF Chat
  <2> DEFINE s == IF kind = "status" THEN "busy" ELSE "ok"
             e == [Plain(kind) EXCEPT !.says = s]
  <2>2. s \in {"ok", "error", "busy"} /\ kind \in Kinds
    BY <2>1 DEF Kinds
  <2> HIDE DEF s
  <2>3. e \in Message /\ e.kind = kind
    BY <2>2, MessageFacts
  <2>4. Say(e)
    BY <2>1 DEF s
  <2> HIDE DEF e
  <2>5. QED
    BY <2>1, <2>3, <2>4
<1>3. \A n \in Answers' : n \in Answers \/ n.kind # "response"
  BY <1>1, <1>2, SayFacts DEF Answers, Elements, Idle, clientVars
<1>4. /\ toPeer' \in Seq(Part) /\ Elements(toPeer)' \subseteq Elements(toPeer) /\ said' \in Nat
      /\ log' \in Nat /\ fromPeer' \in Seq(Message)
  BY <1>1 DEF TypeOK, Elements
<1>5. pc \in Talking /\ ~Parting /\ faults = 0 => ~peer.leaving
  BY <1>1 DEF Calm
<1>6. QED
  BY <1>1, <1>2, <1>3, <1>4, <1>5, SayFacts, ServerKeeps

(* After a fault nothing is promised of the server but its process.        *)
LEMMA MisbehaveKeeps == IInv /\ Misbehave => IInv'
<1> SUFFICES ASSUME IInv, Misbehave PROVE IInv'
  OBVIOUS
<1> USE DEF pipes, clientVars, verdict
<1>1. TypeOK /\ Conversation /\ Verdict /\ peer.up /\ faults' = faults + 1
      /\ UNCHANGED <<todo, pc, out, inbox, ids, child, hurried, outcome, stop, toPeer,
                     fromPeer, log, said>>
  BY DEF IInv, Misbehave, Idle
<1>2. peer \in PeerType /\ ids.last \in Nat /\ faults \in Nat
  BY <1>1 DEF TypeOK, PeerType
<1>3. peer' \in PeerType
  <2>1. CASE Say(Plain("broken"))
    <3>1. Plain("broken") \in Message
      BY MessageFacts DEF Kinds
    <3>2. QED
      BY <1>1, <2>1, <3>1, SayFacts
  <2>2. ASSUME NEW id \in 0..ids.last + 1, NEW says \in {"ok", "error"}, Say(Reply(id, says))
        PROVE  peer' \in PeerType
    <3>1. Reply(id, says) \in Message
      BY <1>2, MessageFacts
    <3>2. QED
      BY <1>1, <2>2, <3>1, SayFacts
  <2>3. QED
    BY <1>2, <2>1, <2>2 DEF Misbehave, PeerType
<1>4. faults' \in Nat /\ faults' # 0
  BY <1>1, <1>2
<1>5. TypeOK'
  BY <1>1, <1>3, <1>4 DEF TypeOK, PeerType
<1>6. Conversation' /\ Verdict' /\ Calm'
  BY <1>1, <1>4 DEF Conversation, Verdict, Calm, Sending, This
<1>7. QED
  BY <1>5, <1>6 DEF IInv

-----------------------------------------------------------------------------
(* The theorems.                                                           *)

(* A session that has just begun.                                          *)
LEMMA InitInv == Init => IInv
<1> SUFFICES ASSUME Init PROVE IInv
  OBVIOUS
<1>1. PICK asked \in Asked : todo = Opening \o Question(asked)
  BY DEF Init
<1>2. /\ todo \in Seq(Items) /\ todo # <<>> /\ todo[Len(todo)].kind \in {"query", "exit"}
  BY <1>1, OpeningFacts
<1>3. /\ <<>> \in Seq(Message) /\ Elements(<<>>) = {} /\ <<>> \in Seq(Part)
  <2>1. \E e \in Message : TRUE
    BY MessageFacts DEF Kinds
  <2>2. <<>> \in Seq(Message) /\ <<>> \in Seq(Part)
    OBVIOUS
  <2>3. QED
    BY <2>1, <2>2, ElementsGrow
<1>4. TypeOK
  BY <1>2, <1>3, SilenceFacts DEF Init, TypeOK, Talking, ChildType, PeerType
<1>5. Conversation
  BY <1>2, SilenceFacts DEF Init, Conversation, Sending
<1>6. Verdict
  BY DEF Init, Verdict, Talking
<1>7. Calm
  <2>1. Answers = {} /\ Elements(toPeer) = {}
    BY <1>3 DEF Init, Answers
  <2>2. QED
    BY <2>1, SilenceFacts DEF Init, Calm, Talking
<1>8. QED
  BY <1>4, <1>5, <1>6, <1>7 DEF IInv

(* Every step keeps the invariant.                                         *)
LEMMA NextInv == IInv /\ [Next]_vars => IInv'
<1> SUFFICES ASSUME IInv, [Next]_vars PROVE IInv'
  OBVIOUS
<1>1. CASE UNCHANGED vars
  BY <1>1 DEF IInv, TypeOK, Conversation, Verdict, Calm, Sending, This, Answers, Parting,
     Elements, vars, clientVars, verdict, pipes, world
<1>2. CASE Work
  BY <1>2, BeginKeeps, WriteDiedKeeps, EofKeeps, WriteKeeps, ReadKeeps, AgainKeeps,
     ResponseKeeps, OtherKeeps, NoneKeeps, WaitKeeps, DrainKeeps,
     DropKeeps, ReapKeeps, CancelKeeps DEF Work, Take
<1>3. CASE Server \/ Chat \/ Misbehave
  BY <1>3, PeerReadKeeps, PeerWriteKeeps, PeerLeaveKeeps, ChatKeeps, MisbehaveKeeps DEF Server
<1>4. QED
  BY <1>1, <1>2, <1>3, CancelKeeps, RunOutKeeps DEF Next, Ended

(* The invariant of the conversation: one request at a time under a fresh  *)
(* number, and a calm server that stays until the farewell is written.     *)
THEOREM SessionInvariant == Spec => []IInv
BY InitInv, NextInv, PTL DEF Spec

(* What the session says of its end is true of the process, for pipes of   *)
(* any size, servers that say as much as they like and any number of       *)
(* misdeeds and of kills and waits that fail (classify_stop).              *)
THEOREM StopsAreTrue == Spec => []StopIsTrue
<1>1. IInv => StopIsTrue
  BY DEF IInv, TypeOK, ChildType, Verdict, Calm, StopIsTrue
<1>2. QED
  BY <1>1, SessionInvariant, PTL
=============================================================================
