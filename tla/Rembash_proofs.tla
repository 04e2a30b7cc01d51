---------------------------- MODULE Rembash_proofs ----------------------------
(***************************************************************************)
(* Proofs about Rembash: what holds of every pair of a server and a client *)
(* program, whatever the user types and whichever calls fail.              *)
(***************************************************************************)
EXTENDS Rembash, SequenceTheorems, TLAPS

------------------------------------------------------------------------------
(* What one step may do *)

\* What may be on its way or in a buffer: when the client has the wrong secret,
\* neither the secret nor anything a shell prints.
Harmless == IF Sent = Expected THEN Messages
            ELSE Messages \ ({Expected} \cup Printed)

CargoOK == chan \in [Channels -> Seq(Harmless)] /\ buf \in [Procs -> Seq(Harmless)]

\* Everything but the labels is well typed.
Typed == DOMAIN pc = Procs /\ SystemOK /\ CargoOK

\* The same of the next state; prog stays as it is, so Harmless does.
TypedNext ==
    /\ DOMAIN pc' = Procs /\ SystemOK'
    /\ chan' \in [Channels -> Seq(Harmless)] /\ buf' \in [Procs -> Seq(Harmless)]
    /\ UNCHANGED fixed

\* p moves; processes of V may be killed; no child ends.
Step(p, V) ==
    /\ \A q \in Procs \ {p} : \/ pc'[q] = pc[q]
                              \/ q \in V /\ Alive(q) /\ pc'[q] = "dying"
    /\ log'.killed \subseteq log.killed \cup V
    /\ log'.seen \subseteq log.seen \cup Harmless
    /\ log'.interrupted = log.interrupted
    /\ \A q \in Procs : ended'[q] \in {ended[q], "none"}
    /\ TypedNext

\* The same, when nobody is killed and the terminal stays in its mode.
Plain(p) == Step(p, {}) /\ tty' = tty

\* p starts a child.
Forks(p, child) ==
    /\ \A q \in Procs \ {p, child} : pc'[q] = pc[q]
    /\ TypedNext /\ UNCHANGED <<tty, log, ended>>

\* What is harmless is a message.
LEMMA HarmlessMessages == Harmless \subseteq Messages
  BY DEF Harmless

\* Each of the calls is a step of the process that makes it, ...
LEMMA PlainCalls ==
  ASSUME Typed
  PROVE  /\ \A p \in Procs : \A l : Jump(p, l) => Plain(p) /\ pc'[p] = l
         /\ \A p \in Procs : \A l : ForkFails(p, l) => Plain(p) /\ pc'[p] = l
         /\ \A p \in Procs : \A l : SetupFails(p, l) => Plain(p) /\ pc'[p] = l
         /\ \A p \in Procs : \A child, l : Wait(p, child, l) => Plain(p) /\ pc'[p] = l
         /\ \A p \in Procs : \A l : Catch(p, l) => Plain(p) /\ pc'[p] = l
         /\ \A p \in Procs : \A l : CatchAndIgnorePipe(p, l) => Plain(p) /\ pc'[p] = l
         /\ \A p \in Procs : \A l : IgnoreChildren(p, l) => Plain(p) /\ pc'[p] = l
         /\ \A p \in Procs : \A l : RunHandler(p, l) => Plain(p) /\ pc'[p] = l /\ ended[p] # "none"
<1> USE DEF Typed, TypedNext, SystemOK, CargoOK, Step, Plain, signals, bytes, tail, fixed
<1>1. \A p \in Procs : \A l : Jump(p, l) => Plain(p) /\ pc'[p] = l
  BY DEF Jump, Move
<1>2. \A p \in Procs : \A l : Catch(p, l) => Plain(p) /\ pc'[p] = l
  BY DEF Catch, Move
<1>3. \A p \in Procs : \A l : CatchAndIgnorePipe(p, l) => Plain(p) /\ pc'[p] = l
  BY DEF CatchAndIgnorePipe, Move
<1>4. \A p \in Procs : \A l : IgnoreChildren(p, l) => Plain(p) /\ pc'[p] = l
  BY DEF IgnoreChildren, Move
<1>5. \A p \in Procs : \A l : RunHandler(p, l) => Plain(p) /\ pc'[p] = l /\ ended[p] # "none"
  BY DEF RunHandler, Move
<1> QED
  BY <1>1, <1>2, <1>3, <1>4, <1>5, SMTT(20) DEF ForkFails, SetupFails, Wait

\* ... a close too, and the end of a process, which closes what it still holds:
\* the only step that tells a parent that a child has ended.
LEMMA ClosingCalls ==
  ASSUME Typed
  PROVE  /\ \A p \in Procs : \A D, l : Close(p, D, l) => Plain(p) /\ pc'[p] = l
         /\ \A p \in Procs : Gone(p) =>
              /\ TypedNext /\ UNCHANGED <<tty, log>>
              /\ pc[p] = "dying" /\ pc' = [pc EXCEPT ![p] = "gone"]
              /\ \A q \in Procs :
                   ended'[q] # ended[q] => p \in DOMAIN Parent /\ q = Parent[p]
<1> USE DEF Typed, TypedNext, CargoOK
<1>1. ASSUME NEW p \in Procs, NEW D, CloseD(p, D)
      PROVE  /\ holds' \in [Procs -> SUBSET {"stdin", "sock", "listen", "master", "slave"}]
             /\ chan' \in [Channels -> Seq(Harmless)]
             /\ fault' \in [{"client", "server"} -> {"none", "reset", "broken"}]
  <2>1. holds' \in [Procs -> SUBSET {"stdin", "sock", "listen", "master", "slave"}]
    BY <1>1 DEF CloseD, SystemOK
  <2>2. <<>> \in Seq(Harmless)
    BY EmptySeq
  <2>3. chan' \in [Channels -> Seq(Harmless)]
    BY <1>1, <2>2 DEF CloseD
  <2>4. fault' \in [{"client", "server"} -> {"none", "reset", "broken"}]
    BY <1>1 DEF CloseD, SystemOK
  <2> QED
    BY <2>1, <2>3, <2>4
<1>2. ASSUME NEW p \in Procs, NEW D, NEW l, Close(p, D, l)
      PROVE  Plain(p) /\ pc'[p] = l
  BY <1>2, <1>1 DEF Close, Move, Step, Plain, SystemOK, signals, tail, fixed
<1>3. ASSUME NEW p \in Procs, Gone(p)
      PROVE  /\ TypedNext /\ UNCHANGED <<tty, log>>
             /\ pc[p] = "dying" /\ pc' = [pc EXCEPT ![p] = "gone"]
             /\ \A q \in Procs :
                  ended'[q] # ended[q] => p \in DOMAIN Parent /\ q = Parent[p]
  <2>1. CloseD(p, holds[p])
    BY <1>3 DEF Gone
  <2>2. ended' \in [Procs -> Procs \cup {"none"}]
    BY <1>3 DEF Gone, SystemOK
  <2>3. buf' \in [Procs -> Seq(Harmless)]
    BY <1>3, EmptySeq DEF Gone
  <2>4. \A q \in Procs :
          ended'[q] # ended[q] => p \in DOMAIN Parent /\ q = Parent[p]
    BY <1>3 DEF Gone
  <2> QED
    BY <1>3, <1>1, <2>1, <2>2, <2>3, <2>4 DEF Gone, Move, SystemOK, tail, fixed
<1> QED
  BY <1>2, <1>3

\* fork gives the child its first label; it may be anybody who did not run.
LEMMA ForkCall ==
  ASSUME Typed
  PROVE  \A p, child \in Procs : \A pl, cl : Fork(p, child, pl, cl) /\ p # child =>
           Forks(p, child) /\ pc'[p] = pl /\ pc'[child] = cl
<1> SUFFICES ASSUME NEW p \in Procs, NEW child \in Procs, p # child, NEW pl, NEW cl,
                    Fork(p, child, pl, cl)
             PROVE  Forks(p, child) /\ pc'[p] = pl /\ pc'[child] = cl
  OBVIOUS
<1> USE DEF Fork, Forks, Typed, TypedNext, CargoOK, SystemOK, signals, bytes, tail, fixed
<1>1. /\ DOMAIN pc' = Procs /\ pc'[p] = pl /\ pc'[child] = cl
      /\ \A q \in Procs \ {p, child} : pc'[q] = pc[q]
  OBVIOUS
<1>2. holds' \in [Procs -> SUBSET {"stdin", "sock", "listen", "master", "slave"}]
  OBVIOUS
<1> QED
  BY <1>1, <1>2

\* Naming more processes that may be killed only weakens Step.
LEMMA StepGrows == \A p, V, W : Step(p, V) /\ V \subseteq W => Step(p, W)
  BY DEF Step

\* kill(SIGTERM) stops at most the processes it is addressed to: a child, the
\* parent, or (with the pid -1 that a fork left behind) the whole server side.
LEMMA SignalCalls ==
  ASSUME Typed
  PROVE  /\ \A child \in {"bash", "relay"} : \A l : Terminate("handler", {child}, l) =>
              Step("handler", {child}) /\ tty' = tty /\ pc'["handler"] = l
         /\ \A l : Terminate("relay", {}, l) => Plain("relay") /\ pc'["relay"] = l
         /\ \A l : Terminate("reader", {"writer"}, l) =>
                     Step("reader", {"writer"}) /\ tty' = tty /\ pc'["reader"] = l
         /\ \A l : Terminate("reader", Ppid("reader"), l) =>
                     Step("reader", {"login"}) /\ tty' = tty /\ pc'["reader"] = l
         /\ \A l : Terminate("writer", Ppid("writer"), l) =>
                     Step("writer", {"reader"}) /\ tty' = tty /\ pc'["writer"] = l
         /\ \A l : Terminate("bash", Ppid("bash"), l) =>
                     Step("bash", {"handler"}) /\ tty' = tty /\ pc'["bash"] = l
         /\ \A child \in {"bash", "relay"} : \A l :
              Terminate("handler", Addressed(child), l) =>
                Step("handler", ServerSide) /\ tty' = tty /\ pc'["handler"] = l
<1> USE DEF Typed, TypedNext, CargoOK
<1>1. ASSUME NEW p \in Procs, NEW V \in SUBSET Procs, NEW l, Terminate(p, V, l)
      PROVE  Step(p, V) /\ tty' = tty /\ pc'[p] = l
  <2>1. /\ DOMAIN pc' = Procs /\ pc'[p] = l
        /\ \A q \in Procs \ {p} : \/ pc'[q] = pc[q]
                                  \/ q \in V /\ Alive(q) /\ pc'[q] = "dying"
    BY <1>1 DEF Terminate
  <2>2. /\ log' \in [typed : 0 .. 3, ended : BOOLEAN, interrupted : BOOLEAN,
                     printed : 0 .. Len(Outputs), seen : SUBSET Messages,
                     killed : SUBSET Procs]
        /\ log'.killed \subseteq log.killed \cup V
        /\ log'.seen = log.seen /\ log'.typed = log.typed
        /\ log'.interrupted = log.interrupted
    <3>1. PICK K : /\ log' = [log EXCEPT !.killed = log.killed \cup K]
                   /\ K \subseteq V /\ K \subseteq Procs
      <4> DEFINE K == {q \in V \ {p} : Alive(q) /\ ~IsShell(q)}
      <4>1. K \subseteq V /\ K \subseteq Procs
        OBVIOUS
      <4>2. log' = [log EXCEPT !.killed = log.killed \cup K]
        BY <1>1 DEF Terminate
      <4> QED
        BY <4>1, <4>2
    <3> QED
      BY <3>1 DEF SystemOK
  <2>3. SystemOK'
    BY <1>1, <2>2 DEF Terminate, SystemOK, signals, bytes, fixed
  <2> QED
    BY <1>1, <2>1, <2>2, <2>3 DEF Terminate, Step, Plain, signals, bytes, fixed
<1>2. ASSUME NEW p \in {"reader", "writer", "bash"}, NEW l, Terminate(p, Ppid(p), l)
      PROVE  Step(p, {Parent[p]}) /\ tty' = tty /\ pc'[p] = l
  <2>1. p \in Procs /\ Ppid(p) \subseteq {Parent[p]} /\ Parent[p] \in Procs
    BY DEF Ppid, Parent, Procs, ClientSide, ServerSide
  <2> QED
    BY <1>1, <1>2, <2>1, StepGrows
<1>3. ASSUME NEW child \in {"bash", "relay"}, NEW l,
             Terminate("handler", Addressed(child), l)
      PROVE  Step("handler", ServerSide) /\ tty' = tty /\ pc'["handler"] = l
  <2>1. /\ "handler" \in Procs /\ ServerSide \subseteq Procs
        /\ Addressed(child) \subseteq ServerSide
    BY DEF Addressed, SystemOK, Procs, ServerSide
  <2> QED
    BY <1>1, <1>3, <2>1, StepGrows
<1>4. /\ Parent["reader"] = "login" /\ Parent["writer"] = "reader"
      /\ Parent["bash"] = "handler"
  BY DEF Parent
<1>5. /\ \A child \in {"bash", "relay"} : \A l : Terminate("handler", {child}, l) =>
           Step("handler", {child}) /\ tty' = tty /\ pc'["handler"] = l
      /\ \A l : Terminate("relay", {}, l) => Plain("relay") /\ pc'["relay"] = l
      /\ \A l : Terminate("reader", {"writer"}, l) =>
           Step("reader", {"writer"}) /\ tty' = tty /\ pc'["reader"] = l
  BY <1>1 DEF Plain, Procs, ClientSide, ServerSide
<1> QED
  BY <1>1, <1>2, <1>3, <1>4, <1>5

\* Storing a pid that fork returned disturbs nobody else.
LEMMA StoreCall ==
  ASSUME Typed
  PROVE  \A child \in {"bash", "relay"}, value \in {"zero", "pid", "minus_one"} : \A l :
           Store(child, value, l) => Plain("handler") /\ pc'["handler"] = l
  BY DEF Store, Move, Step, Plain, Typed, TypedNext, CargoOK, SystemOK, signals, bytes,
     tail, fixed, Procs, ServerSide

\* connect, accept, the two opens of the terminal and tcsetattr, which alone
\* changes the mode, and only of a real terminal.
LEMMA OpeningCalls ==
  ASSUME Typed
  PROVE  /\ \A p \in Procs : \A l, err : Connect(p, l, err) => Plain(p) /\ pc'[p] \in {l, err}
         /\ \A p \in Procs : \A l : Accept(p, l) => Plain(p) /\ pc'[p] = l
         /\ \A p \in Procs : \A l : OpenMaster(p, l) => Plain(p) /\ pc'[p] = l
         /\ \A p \in Procs : \A l, err : OpenSlave(p, l, err) => Plain(p) /\ pc'[p] \in {l, err}
         /\ \A p \in Procs, mode \in {"raw", "canonical"} : \A l, err : SetTty(p, mode, l, err) =>
              /\ Step(p, {})
              /\ \/ pc'[p] = l /\ tty' = mode /\ stdin = "terminal"
                 \/ pc'[p] = err /\ UNCHANGED tty /\ stdin = "file"
<1> USE DEF Typed, TypedNext, CargoOK, SystemOK, Step, Plain, signals, bytes, tail, fixed,
    Move, Jump
<1>1. ASSUME NEW p \in Procs, NEW l, NEW err, Connect(p, l, err)
      PROVE  Plain(p) /\ pc'[p] \in {l, err}
  <2>1. CASE ~ Alive("server")
    BY <1>1, <2>1 DEF Connect
  <2>2. CASE Alive("server")
    <3>1. /\ conn' = "queued"
          /\ holds' = [holds EXCEPT ![p] = @ \cup {"sock"}]
          /\ pc' = [pc EXCEPT ![p] = l]
          /\ UNCHANGED <<signals, bytes, slave, tty, log, fixed>>
      BY <1>1, <2>2 DEF Connect
    <3>2. holds' \in [Procs -> SUBSET {"stdin", "sock", "listen", "master", "slave"}]
      BY <3>1
    <3> QED
      BY <3>1, <3>2
  <2> QED
    BY <2>1, <2>2
<1>2. \A p \in Procs : \A l : Accept(p, l) => Plain(p) /\ pc'[p] = l
  BY DEF Accept
<1>3. \A p \in Procs : \A l : OpenMaster(p, l) => Plain(p) /\ pc'[p] = l
  BY DEF OpenMaster
<1>4. ASSUME NEW p \in Procs, NEW l, NEW err, OpenSlave(p, l, err)
      PROVE  Plain(p) /\ pc'[p] \in {l, err}
  <2>1. CASE Holders("master") = {}
    BY <1>1, <1>4, <2>1 DEF OpenSlave
  <2>2. CASE Holders("master") # {}
    <3>1. /\ holds' = [holds EXCEPT ![p] = @ \cup {"slave"}]
          /\ slave' = "opened"
          /\ pc' = [pc EXCEPT ![p] = l]
          /\ UNCHANGED <<signals, bytes, conn, tty, log, fixed>>
      BY <1>4, <2>2 DEF OpenSlave
    <3>2. holds' \in [Procs -> SUBSET {"stdin", "sock", "listen", "master", "slave"}]
      BY <3>1
    <3> QED
      BY <3>1, <3>2
  <2> QED
    BY <2>1, <2>2
<1>5. ASSUME NEW p \in Procs, NEW mode \in {"raw", "canonical"}, NEW l, NEW err,
             SetTty(p, mode, l, err)
      PROVE  /\ Step(p, {})
             /\ \/ pc'[p] = l /\ tty' = mode /\ stdin = "terminal"
                \/ pc'[p] = err /\ UNCHANGED tty /\ stdin = "file"
  <2>1. CASE stdin = "file"
    BY <1>5, <2>1 DEF SetTty
  <2>2. CASE stdin # "file"
    <3>1. chan' \in [Channels -> Seq(Harmless)]
      <4>1. <<>> \in Seq(Harmless) /\ chan' = [chan EXCEPT !["keyboard"] = <<>>]
        BY <1>5, <2>2, EmptySeq DEF SetTty
      <4> QED
        BY <4>1
    <3> QED
      BY <1>5, <2>2, <3>1 DEF SetTty
  <2> QED
    BY <2>1, <2>2
<1> QED
  BY <1>1, <1>2, <1>3, <1>4, <1>5

\* One byte or all of a channel is a non-empty sequence of what was in it.
LEMMA PartOfSequence ==
  ASSUME NEW S, NEW c \in Seq(S), c # <<>>, NEW data \in {<<Head(c)>>, c}
  PROVE  data \in Seq(S) /\ Len(data) \in 1 .. Len(c)
<1>1. Len(c) \in Nat /\ Len(c) > 0 /\ Head(c) \in S
  BY EmptySeq, LenProperties, HeadTailProperties
<1>2. <<Head(c)>> \in Seq(S) /\ Len(<<Head(c)>>) = 1
  BY <1>1
<1>3. CASE data = c
  BY <1>1, <1>3
<1>4. CASE data = <<Head(c)>>
  BY <1>1, <1>2, <1>4
<1> QED
  BY <1>3, <1>4

\* A read moves harmless cargo from a channel to the reader's buffer, and leaves
\* it at the label for data, for end of file or for an error.
LEMMA ReadingCalls ==
  ASSUME Typed
  PROVE  /\ \A p \in Procs, d \in {"stdin", "sock", "master"}, exact \in BOOLEAN : \A got, eof, err :
              ReadUpTo(p, d, exact, got, eof, err) =>
                Plain(p) /\ pc'[p] \in {got, eof, err}
         /\ \A p \in Procs, d \in {"stdin", "sock", "master"} : \A got, eof, err :
              Read(p, d, got, eof, err) =>
                Plain(p) /\ pc'[p] \in {got, eof, err}
<1>1. ASSUME NEW p \in Procs, NEW d \in {"stdin", "sock", "master"},
             NEW exact \in BOOLEAN, NEW got, NEW eof, NEW err,
             ReadUpTo(p, d, exact, got, eof, err)
      PROVE  Plain(p) /\ pc'[p] \in {got, eof, err}
  <2> DEFINE c == chan[In(p, d)]
             data == Taken(p, d, exact)
  <2>0. In(p, d) \in Channels /\ c \in Seq(Harmless)
    BY DEF In, Channels, Typed, CargoOK
  <2>1. CASE c # <<>> /\ chan' = [chan EXCEPT ![In(p, d)] =
                                    SubSeq(@, Len(data) + 1, Len(@))]
             /\ UNCHANGED <<holds, signals, fault, tail>>
             /\ \/ Move(p, eof) /\ UNCHANGED buf
                \/ Move(p, got) /\ buf' = [buf EXCEPT ![p] = data]
    <3>1. data \in Seq(Harmless) /\ Len(data) \in 1 .. Len(c)
      <4>1. data \in {<<Head(c)>>, c}
        BY DEF Taken
      <4> HIDE DEF data, c
      <4> QED
        BY <2>0, <2>1, <4>1, PartOfSequence
    <3>2. SubSeq(c, Len(data) + 1, Len(c)) \in Seq(Harmless)
      BY <2>0, <3>1, SubSeqProperties, LenProperties
    <3>3. chan' \in [Channels -> Seq(Harmless)]
      BY <2>0, <2>1, <3>2 DEF Typed, CargoOK
    <3>4. buf' \in [Procs -> Seq(Harmless)]
      BY <2>1, <3>1 DEF Typed, CargoOK
    <3> HIDE DEF data
    <3> QED
      BY <2>1, <3>3, <3>4 DEF Typed, TypedNext, SystemOK, Step, Plain, Move, signals, tail,
         fixed
  <2>2. CASE Jump(p, eof)
    BY <2>2, PlainCalls DEF Step, Plain
  <2>3. CASE /\ fault' \in {fault, [fault EXCEPT ![Side(p)] = "broken"]}
             /\ Move(p, err) /\ UNCHANGED <<holds, signals, buf, chan, tail>>
    BY <2>3 DEF Typed, TypedNext, CargoOK, SystemOK, Step, Plain, Move, signals, tail,
       fixed, Side
  <2> QED
    BY <1>1, <2>1, <2>2, <2>3 DEF ReadUpTo
<1> QED
  BY <1>1 DEF Read

\* A write of harmless cargo keeps the channels harmless; it may end in the
\* writer's death by SIGPIPE.
LEMMA WritingCalls ==
  ASSUME Typed
  PROVE  /\ \A p \in Procs, d \in {"sock", "master"}, data \in Seq(Harmless) : \A next, err :
              Write(p, d, data, next, err) =>
                Plain(p) /\ pc'[p] \in {next, err, "dying"}
         /\ \A p \in Procs, message \in Harmless : \A next, err :
              Say(p, message, next, err) =>
                Plain(p) /\ pc'[p] \in {next, err, "dying"}
         /\ \A p \in Procs, d \in {"sock", "master"} : \A next, err :
              PassOn(p, d, next, err) =>
                Plain(p) /\ pc'[p] \in {next, err, "dying"}
         /\ \A p \in Procs : \A l : Discard(p, l) => Plain(p) /\ pc'[p] = l
         /\ \A p \in Procs : \A l : Show(p, l) => Plain(p) /\ pc'[p] = l
<1>1. ASSUME NEW p \in Procs, NEW d \in {"sock", "master"}, NEW data \in Seq(Harmless),
             NEW next, NEW err, Write(p, d, data, next, err)
      PROVE  Plain(p) /\ pc'[p] \in {next, err, "dying"}
  <2>1. /\ \E l \in {next, err, "dying"} : pc' = [pc EXCEPT ![p] = l]
        /\ buf' = [buf EXCEPT ![p] = <<>>]
        /\ fault' \in {fault, [fault EXCEPT ![Side(p)] = "broken"]}
        /\ chan' \in {chan, [chan EXCEPT ![Out(p, d)] = @ \o data]}
        /\ UNCHANGED <<holds, signals, tail>>
    BY <1>1 DEF Write, Move
  <2>2. Out(p, d) \in Channels
    BY DEF Out, Channels
  <2>3. chan[Out(p, d)] \o data \in Seq(Harmless)
    BY <2>2, ConcatProperties DEF Typed, CargoOK
  <2>4. chan' \in [Channels -> Seq(Harmless)]
    BY <2>1, <2>2, <2>3 DEF Typed, CargoOK
  <2>5. buf' \in [Procs -> Seq(Harmless)]
    BY <2>1, EmptySeq DEF Typed, CargoOK
  <2>6. fault' \in [{"client", "server"} -> {"none", "reset", "broken"}]
    BY <2>1 DEF Typed, SystemOK, Side
  <2> QED
    BY <2>1, <2>4, <2>5, <2>6 DEF Typed, TypedNext, SystemOK, Step, Plain, signals, tail,
       fixed
<1>2. ASSUME NEW p \in Procs, NEW message \in Harmless, NEW next, NEW err,
             Say(p, message, next, err)
      PROVE  Plain(p) /\ pc'[p] \in {next, err, "dying"}
  <2>1. <<message>> \in Seq(Harmless) /\ Write(p, "sock", <<message>>, next, err)
    BY <1>2 DEF Say
  <2> QED
    BY <1>1, <2>1
<1>3. ASSUME NEW p \in Procs, NEW d \in {"sock", "master"}, NEW next, NEW err,
             PassOn(p, d, next, err)
      PROVE  Plain(p) /\ pc'[p] \in {next, err, "dying"}
  <2>1. buf[p] \in Seq(Harmless) /\ Write(p, d, buf[p], next, err)
    BY <1>3 DEF PassOn, Typed, CargoOK
  <2> QED
    BY <1>1, <2>1
<1>4. ASSUME NEW p \in Procs, NEW l, Discard(p, l)
      PROVE  Plain(p) /\ pc'[p] = l
  <2>1. buf' \in [Procs -> Seq(Harmless)]
    BY <1>4, EmptySeq DEF Discard, Typed, CargoOK
  <2> QED
    BY <1>4, <2>1 DEF Discard, Move, Typed, TypedNext, CargoOK, SystemOK, Step, Plain,
       signals, tail, fixed
<1>5. ASSUME NEW p \in Procs, NEW l, Show(p, l)
      PROVE  Plain(p) /\ pc'[p] = l
  <2>1. buf' \in [Procs -> Seq(Harmless)]
    BY <1>5, EmptySeq DEF Show, Typed, CargoOK
  <2>2. PICK B : log' = [log EXCEPT !.seen = @ \cup B] /\ B \subseteq Harmless
    <3> DEFINE B == {buf[p][i] : i \in 1 .. Len(buf[p])}
    <3>1. B \subseteq Harmless
      BY ElementOfSeq DEF Typed, CargoOK
    <3> QED
      BY <1>5, <3>1 DEF Show
  <2>3. /\ log' \in [typed : 0 .. 3, ended : BOOLEAN, interrupted : BOOLEAN,
                     printed : 0 .. Len(Outputs), seen : SUBSET Messages,
                     killed : SUBSET Procs]
        /\ log'.killed = log.killed /\ log'.typed = log.typed
        /\ log'.seen \subseteq log.seen \cup Harmless
        /\ log'.interrupted = log.interrupted
    BY <2>2, HarmlessMessages DEF Typed, SystemOK
  <2> QED
    BY <1>5, <2>1, <2>3 DEF Show, Move, Typed, TypedNext, CargoOK, SystemOK, Step, Plain,
       signals, fixed
<1> QED
  BY <1>1, <1>2, <1>3, <1>4, <1>5

------------------------------------------------------------------------------
(* What the programs do *)

Denied == Sent # Expected
Early == {"none", "start", "greet", "greet_failed", "secret", "no_secret", "check",
          "refuse", "dying", "gone"}

\* The accepting process goes on at a label of L, or starts a handler.
ServerGoes(L) ==
    \/ Plain("server") /\ pc'["server"] \in L
    \/ /\ Forks("server", "handler")
       /\ pc'["server"] = "close" /\ pc'["handler"] \in {"start", "greet"}

\* The handler goes on, starts a child, or terminates some of V; a client that
\* is denied the shell keeps it at its beginning.
HandlerGoes(V) ==
    /\ \/ Plain("handler") /\ pc'["handler"] \in HandlerPC
       \/ Step("handler", V) /\ tty' = tty /\ pc'["handler"] \in {"kill_relay", "dying"}
       \/ /\ Forks("handler", "bash")
          /\ pc'["handler"] \in HandlerPC /\ pc'["bash"] = "start"
       \/ /\ Forks("handler", "relay")
          /\ pc'["handler"] \in HandlerPC /\ pc'["relay"] = "read"
    /\ Denied /\ pc["handler"] \in Early /\ ended["handler"] = "none"
       => Plain("handler") /\ pc'["handler"] \in Early

BashGoes ==
    /\ pc["bash"] # "none"
    /\ \/ Plain("bash") /\ pc'["bash"] \in BashPC
       \/ Step("bash", {"handler"}) /\ tty' = tty /\ pc'["bash"] = "dying"

RelayGoes == pc["relay"] # "none" /\ Plain("relay") /\ pc'["relay"] \in RelayPC

\* The reader is started before the writer; in After it may have one.
After == {"read", "write", "leave", "kill", "exit", "restore", "wait", "dying", "gone"}

ReaderGoes ==
    /\ \/ Plain("reader") /\ pc'["reader"] \in ReaderPC
       \/ /\ Step("reader", {"writer"}) /\ tty' = tty
          /\ pc'["reader"] \in {"exit", "restore", "dying"}
       \/ /\ Step("reader", {"login"}) /\ tty' = tty
          /\ pc["reader"] \notin After /\ pc'["reader"] \in {"exit", "dying"}
       \/ Step("reader", {}) /\ stdin = "terminal" /\ pc'["reader"] \in ReaderPC
       \/ /\ Forks("reader", "writer") /\ pc["reader"] = "fork"
          /\ pc'["reader"] = "read" /\ pc'["writer"] = "read"
    /\ pc["reader"] \in After => pc'["reader"] \in After

WriterGoes(V) ==
    /\ pc["writer"] # "none"
    /\ \/ Plain("writer") /\ pc'["writer"] \in WriterPC
       \/ /\ Step("writer", V) /\ tty' = tty
          /\ pc'["writer"] \in {"exit", "dying"}


\* Every program sees the same calls.
LEMMA L1SCalls ==
  /\ \A p, l : L1S!At(p, l) <=> At(p, l)
  /\ \A p, l : L1S!Jump(p, l) <=> Jump(p, l)
  /\ \A p, D, l : L1S!Close(p, D, l) <=> Close(p, D, l)
  /\ \A p, child, pl, cl : L1S!Fork(p, child, pl, cl) <=> Fork(p, child, pl, cl)
  /\ \A p, l : L1S!ForkFails(p, l) <=> ForkFails(p, l)
  /\ \A p, d, got, eof, err : L1S!Read(p, d, got, eof, err) <=> Read(p, d, got, eof, err)
  /\ \A p, message, next, err : L1S!Say(p, message, next, err) <=> Say(p, message, next, err)
  /\ \A p, l : L1S!Accept(p, l) <=> Accept(p, l)
  /\ \A p, l : L1S!SetupFails(p, l) <=> SetupFails(p, l)
  BY DEF
     Accept, At, AtEof, CannotRead, ClientSide, Close, CloseD, EndOpen, Fork,
     ForkFails, Holders, In, Jump, Move, Other, Out, Procs, Read, ReadUpTo, Say,
     ServerSide, SetupFails, Side, Taken, Write, bytes, fixed, signals, tail,
     L1S!Accept, L1S!At, L1S!AtEof, L1S!CannotRead, L1S!ClientSide, L1S!Close,
     L1S!CloseD, L1S!EndOpen, L1S!Fork, L1S!ForkFails, L1S!Holders, L1S!In,
     L1S!Jump, L1S!Move, L1S!Other, L1S!Out, L1S!Procs, L1S!Read, L1S!ReadUpTo,
     L1S!Say, L1S!ServerSide, L1S!SetupFails, L1S!Side, L1S!Taken, L1S!Write,
     L1S!bytes, L1S!fixed, L1S!signals, L1S!tail

\* The same for the server of lab 2.
LEMMA L2SCalls ==
  /\ \A p, l : L2S!At(p, l) <=> At(p, l)
  /\ \A p, l : L2S!Jump(p, l) <=> Jump(p, l)
  /\ \A p, D, l : L2S!Close(p, D, l) <=> Close(p, D, l)
  /\ \A p, child, pl, cl : L2S!Fork(p, child, pl, cl) <=> Fork(p, child, pl, cl)
  /\ \A p, l : L2S!ForkFails(p, l) <=> ForkFails(p, l)
  /\ \A p, victims, l : L2S!Terminate(p, victims, l) <=> Terminate(p, victims, l)
  /\ \A p : L2S!Ppid(p) = Ppid(p)
  /\ \A p, d, got, eof, err : L2S!Read(p, d, got, eof, err) <=> Read(p, d, got, eof, err)
  /\ \A p, message, next, err : L2S!Say(p, message, next, err) <=> Say(p, message, next, err)
  /\ \A p, d, next, err : L2S!PassOn(p, d, next, err) <=> PassOn(p, d, next, err)
  /\ \A p, l : L2S!Accept(p, l) <=> Accept(p, l)
  /\ \A p, l : L2S!OpenMaster(p, l) <=> OpenMaster(p, l)
  /\ \A p, l, err : L2S!OpenSlave(p, l, err) <=> OpenSlave(p, l, err)
  /\ \A p, l : L2S!SetupFails(p, l) <=> SetupFails(p, l)
  BY DEF
     Accept, Alive, At, AtEof, CannotRead, ClientSide, Close, CloseD, EndOpen,
     Exists, Fork, ForkFails, Holders, In, IsShell, Jump, Move, OpenMaster,
     OpenSlave, Other, Out, Parent, PassOn, Ppid, Procs, Read, ReadUpTo, Say,
     ServerSide, SetupFails, Side, Taken, Terminate, Write, bytes, fixed,
     signals, tail, L2S!Accept, L2S!Alive, L2S!At, L2S!AtEof, L2S!CannotRead,
     L2S!ClientSide, L2S!Close, L2S!CloseD, L2S!EndOpen, L2S!Exists, L2S!Fork,
     L2S!ForkFails, L2S!Holders, L2S!In, L2S!IsShell, L2S!Jump, L2S!Move,
     L2S!OpenMaster, L2S!OpenSlave, L2S!Other, L2S!Out, L2S!Parent, L2S!PassOn,
     L2S!Ppid, L2S!Procs, L2S!Read, L2S!ReadUpTo, L2S!Say, L2S!ServerSide,
     L2S!SetupFails, L2S!Side, L2S!Taken, L2S!Terminate, L2S!Write, L2S!bytes,
     L2S!fixed, L2S!signals, L2S!tail

\* The same for the revised server of lab 2.
LEMMA RFSCalls ==
  /\ \A p, l : RFS!At(p, l) <=> At(p, l)
  /\ \A p, l : RFS!Jump(p, l) <=> Jump(p, l)
  /\ \A p, D, l : RFS!Close(p, D, l) <=> Close(p, D, l)
  /\ \A p, child, pl, cl : RFS!Fork(p, child, pl, cl) <=> Fork(p, child, pl, cl)
  /\ \A p, l : RFS!ForkFails(p, l) <=> ForkFails(p, l)
  /\ \A p, victims, l : RFS!Terminate(p, victims, l) <=> Terminate(p, victims, l)
  /\ \A child, value, l : RFS!Store(child, value, l) <=> Store(child, value, l)
  /\ \A child : RFS!Addressed(child) = Addressed(child)
  /\ \A p, l : RFS!CatchAndIgnorePipe(p, l) <=> CatchAndIgnorePipe(p, l)
  /\ \A p, l : RFS!RunHandler(p, l) <=> RunHandler(p, l)
  /\ \A p, d, got, eof, err : RFS!Read(p, d, got, eof, err) <=> Read(p, d, got, eof, err)
  /\ \A p, message, next, err : RFS!Say(p, message, next, err) <=> Say(p, message, next, err)
  /\ \A p, d, next, err : RFS!PassOn(p, d, next, err) <=> PassOn(p, d, next, err)
  /\ \A p, l : RFS!Accept(p, l) <=> Accept(p, l)
  /\ \A p, l : RFS!OpenMaster(p, l) <=> OpenMaster(p, l)
  /\ \A p, l, err : RFS!OpenSlave(p, l, err) <=> OpenSlave(p, l, err)
  /\ \A p, l : RFS!SetupFails(p, l) <=> SetupFails(p, l)
  BY DEF
     Accept, Addressed, Alive, At, AtEof, CannotRead, CatchAndIgnorePipe,
     ClientSide, Close, CloseD, EndOpen, Fork, ForkFails, Holders, In, IsShell,
     Jump, Move, OpenMaster, OpenSlave, Other, Out, PassOn, Procs, Read,
     ReadUpTo, RunHandler, Say, ServerSide, SetupFails, Side, Store, Taken,
     Terminate, Write, bytes, fixed, signals, tail, RFS!Accept, RFS!Addressed,
     RFS!Alive, RFS!At, RFS!AtEof, RFS!CannotRead, RFS!CatchAndIgnorePipe,
     RFS!ClientSide, RFS!Close, RFS!CloseD, RFS!EndOpen, RFS!Fork, RFS!ForkFails,
     RFS!Holders, RFS!In, RFS!IsShell, RFS!Jump, RFS!Move, RFS!OpenMaster,
     RFS!OpenSlave, RFS!Other, RFS!Out, RFS!PassOn, RFS!Procs, RFS!Read,
     RFS!ReadUpTo, RFS!RunHandler, RFS!Say, RFS!ServerSide, RFS!SetupFails,
     RFS!Side, RFS!Store, RFS!Taken, RFS!Terminate, RFS!Write, RFS!bytes,
     RFS!fixed, RFS!signals, RFS!tail

\* The same for the course's server of lab 2.
LEMMA CVSCalls ==
  /\ \A p, l : CVS!At(p, l) <=> At(p, l)
  /\ \A p, l : CVS!Jump(p, l) <=> Jump(p, l)
  /\ \A p, D, l : CVS!Close(p, D, l) <=> Close(p, D, l)
  /\ \A p, child, pl, cl : CVS!Fork(p, child, pl, cl) <=> Fork(p, child, pl, cl)
  /\ \A p, l : CVS!ForkFails(p, l) <=> ForkFails(p, l)
  /\ \A p, victims, l : CVS!Terminate(p, victims, l) <=> Terminate(p, victims, l)
  /\ \A child, value, l : CVS!Store(child, value, l) <=> Store(child, value, l)
  /\ \A child : CVS!Addressed(child) = Addressed(child)
  /\ \A p, l : CVS!CatchAndIgnorePipe(p, l) <=> CatchAndIgnorePipe(p, l)
  /\ \A p, l : CVS!IgnoreChildren(p, l) <=> IgnoreChildren(p, l)
  /\ \A p, l : CVS!RunHandler(p, l) <=> RunHandler(p, l)
  /\ \A p, d, exact, got, eof, err : CVS!ReadUpTo(p, d, exact, got, eof, err) <=> ReadUpTo(p, d, exact, got, eof, err)
  /\ \A p, d, got, eof, err : CVS!Read(p, d, got, eof, err) <=> Read(p, d, got, eof, err)
  /\ \A p, message, next, err : CVS!Say(p, message, next, err) <=> Say(p, message, next, err)
  /\ \A p, d, next, err : CVS!PassOn(p, d, next, err) <=> PassOn(p, d, next, err)
  /\ \A p, l : CVS!Accept(p, l) <=> Accept(p, l)
  /\ \A p, l : CVS!OpenMaster(p, l) <=> OpenMaster(p, l)
  /\ \A p, l, err : CVS!OpenSlave(p, l, err) <=> OpenSlave(p, l, err)
  /\ \A p, l : CVS!SetupFails(p, l) <=> SetupFails(p, l)
  BY DEF
     Accept, Addressed, Alive, At, AtEof, CannotRead, CatchAndIgnorePipe,
     ClientSide, Close, CloseD, EndOpen, Fork, ForkFails, Holders,
     IgnoreChildren, In, IsShell, Jump, Move, OpenMaster, OpenSlave, Other, Out,
     PassOn, Procs, Read, ReadUpTo, RunHandler, Say, ServerSide, SetupFails,
     Side, Store, Taken, Terminate, Write, bytes, fixed, signals, tail,
     CVS!Accept, CVS!Addressed, CVS!Alive, CVS!At, CVS!AtEof, CVS!CannotRead,
     CVS!CatchAndIgnorePipe, CVS!ClientSide, CVS!Close, CVS!CloseD, CVS!EndOpen,
     CVS!Fork, CVS!ForkFails, CVS!Holders, CVS!IgnoreChildren, CVS!In,
     CVS!IsShell, CVS!Jump, CVS!Move, CVS!OpenMaster, CVS!OpenSlave, CVS!Other,
     CVS!Out, CVS!PassOn, CVS!Procs, CVS!Read, CVS!ReadUpTo, CVS!RunHandler,
     CVS!Say, CVS!ServerSide, CVS!SetupFails, CVS!Side, CVS!Store, CVS!Taken,
     CVS!Terminate, CVS!Write, CVS!bytes, CVS!fixed, CVS!signals, CVS!tail

\* The same for the client of lab 1.
LEMMA L1CCalls ==
  /\ \A p, l : L1C!At(p, l) <=> At(p, l)
  /\ \A p, child, pl, cl : L1C!Fork(p, child, pl, cl) <=> Fork(p, child, pl, cl)
  /\ \A p, l : L1C!ForkFails(p, l) <=> ForkFails(p, l)
  /\ \A p, d, got, eof, err : L1C!Read(p, d, got, eof, err) <=> Read(p, d, got, eof, err)
  /\ \A p, message, next, err : L1C!Say(p, message, next, err) <=> Say(p, message, next, err)
  /\ \A p, l : L1C!Discard(p, l) <=> Discard(p, l)
  /\ \A p, d, next, err : L1C!PassOn(p, d, next, err) <=> PassOn(p, d, next, err)
  /\ \A p, next : L1C!Show(p, next) <=> Show(p, next)
  /\ \A p, l, err : L1C!Connect(p, l, err) <=> Connect(p, l, err)
  BY DEF
     Alive, At, AtEof, CannotRead, ClientSide, Connect, Discard, EndOpen, Fork,
     ForkFails, Holders, In, Jump, Move, Other, Out, PassOn, Procs, Read,
     ReadUpTo, Say, ServerSide, Show, Side, Taken, Write, bytes, fixed, signals,
     tail, L1C!Alive, L1C!At, L1C!AtEof, L1C!CannotRead, L1C!ClientSide,
     L1C!Connect, L1C!Discard, L1C!EndOpen, L1C!Fork, L1C!ForkFails, L1C!Holders,
     L1C!In, L1C!Jump, L1C!Move, L1C!Other, L1C!Out, L1C!PassOn, L1C!Procs,
     L1C!Read, L1C!ReadUpTo, L1C!Say, L1C!ServerSide, L1C!Show, L1C!Side,
     L1C!Taken, L1C!Write, L1C!bytes, L1C!fixed, L1C!signals, L1C!tail

\* The same for the client of lab 2.
LEMMA L2CCalls ==
  /\ \A p, l : L2C!At(p, l) <=> At(p, l)
  /\ \A p, D, l : L2C!Close(p, D, l) <=> Close(p, D, l)
  /\ \A p, child, pl, cl : L2C!Fork(p, child, pl, cl) <=> Fork(p, child, pl, cl)
  /\ \A p, l : L2C!ForkFails(p, l) <=> ForkFails(p, l)
  /\ \A p, victims, l : L2C!Terminate(p, victims, l) <=> Terminate(p, victims, l)
  /\ \A p : L2C!Ppid(p) = Ppid(p)
  /\ \A p, d, got, eof, err : L2C!Read(p, d, got, eof, err) <=> Read(p, d, got, eof, err)
  /\ \A p, message, next, err : L2C!Say(p, message, next, err) <=> Say(p, message, next, err)
  /\ \A p, d, next, err : L2C!PassOn(p, d, next, err) <=> PassOn(p, d, next, err)
  /\ \A p, next : L2C!Show(p, next) <=> Show(p, next)
  /\ \A p, l, err : L2C!Connect(p, l, err) <=> Connect(p, l, err)
  /\ \A p, mode, l, err : L2C!SetTty(p, mode, l, err) <=> SetTty(p, mode, l, err)
  BY DEF
     Alive, At, AtEof, CannotRead, ClientSide, Close, CloseD, Connect, EndOpen,
     Exists, Fork, ForkFails, Holders, In, IsShell, Jump, Move, Other, Out,
     Parent, PassOn, Ppid, Procs, Read, ReadUpTo, Say, ServerSide, SetTty, Show,
     Side, Taken, Terminate, Write, bytes, fixed, signals, tail, L2C!Alive,
     L2C!At, L2C!AtEof, L2C!CannotRead, L2C!ClientSide, L2C!Close, L2C!CloseD,
     L2C!Connect, L2C!EndOpen, L2C!Exists, L2C!Fork, L2C!ForkFails, L2C!Holders,
     L2C!In, L2C!IsShell, L2C!Jump, L2C!Move, L2C!Other, L2C!Out, L2C!Parent,
     L2C!PassOn, L2C!Ppid, L2C!Procs, L2C!Read, L2C!ReadUpTo, L2C!Say,
     L2C!ServerSide, L2C!SetTty, L2C!Show, L2C!Side, L2C!Taken, L2C!Terminate,
     L2C!Write, L2C!bytes, L2C!fixed, L2C!signals, L2C!tail

\* The same for the revised client of lab 2.
LEMMA RFCCalls ==
  /\ \A p, l : RFC!At(p, l) <=> At(p, l)
  /\ \A p, l : RFC!Jump(p, l) <=> Jump(p, l)
  /\ \A p, D, l : RFC!Close(p, D, l) <=> Close(p, D, l)
  /\ \A p, child, pl, cl : RFC!Fork(p, child, pl, cl) <=> Fork(p, child, pl, cl)
  /\ \A p, l : RFC!ForkFails(p, l) <=> ForkFails(p, l)
  /\ \A p, victims, l : RFC!Terminate(p, victims, l) <=> Terminate(p, victims, l)
  /\ \A p : RFC!Ppid(p) = Ppid(p)
  /\ \A p, l : RFC!Catch(p, l) <=> Catch(p, l)
  /\ \A p, l : RFC!RunHandler(p, l) <=> RunHandler(p, l)
  /\ \A p, child, l : RFC!Wait(p, child, l) <=> Wait(p, child, l)
  /\ \A p, d, got, eof, err : RFC!Read(p, d, got, eof, err) <=> Read(p, d, got, eof, err)
  /\ \A p, message, next, err : RFC!Say(p, message, next, err) <=> Say(p, message, next, err)
  /\ \A p, d, next, err : RFC!PassOn(p, d, next, err) <=> PassOn(p, d, next, err)
  /\ \A p, next : RFC!Show(p, next) <=> Show(p, next)
  /\ \A p, l, err : RFC!Connect(p, l, err) <=> Connect(p, l, err)
  /\ \A p, mode, l, err : RFC!SetTty(p, mode, l, err) <=> SetTty(p, mode, l, err)
  BY DEF
     Alive, At, AtEof, CannotRead, Catch, ClientSide, Close, CloseD, Connect,
     EndOpen, Exists, Fork, ForkFails, Holders, In, IsShell, Jump, Move, Other,
     Out, Parent, PassOn, Ppid, Procs, Read, ReadUpTo, RunHandler, Say,
     ServerSide, SetTty, Show, Side, Taken, Terminate, Wait, Write, bytes, fixed,
     signals, tail, RFC!Alive, RFC!At, RFC!AtEof, RFC!CannotRead, RFC!Catch,
     RFC!ClientSide, RFC!Close, RFC!CloseD, RFC!Connect, RFC!EndOpen, RFC!Exists,
     RFC!Fork, RFC!ForkFails, RFC!Holders, RFC!In, RFC!IsShell, RFC!Jump,
     RFC!Move, RFC!Other, RFC!Out, RFC!Parent, RFC!PassOn, RFC!Ppid, RFC!Procs,
     RFC!Read, RFC!ReadUpTo, RFC!RunHandler, RFC!Say, RFC!ServerSide, RFC!SetTty,
     RFC!Show, RFC!Side, RFC!Taken, RFC!Terminate, RFC!Wait, RFC!Write,
     RFC!bytes, RFC!fixed, RFC!signals, RFC!tail

\* The same for the course's client of lab 2.
LEMMA CVCCalls ==
  /\ \A p, l : CVC!At(p, l) <=> At(p, l)
  /\ \A p, l : CVC!Jump(p, l) <=> Jump(p, l)
  /\ \A p, child, pl, cl : CVC!Fork(p, child, pl, cl) <=> Fork(p, child, pl, cl)
  /\ \A p, l : CVC!ForkFails(p, l) <=> ForkFails(p, l)
  /\ \A p, victims, l : CVC!Terminate(p, victims, l) <=> Terminate(p, victims, l)
  /\ \A p, l : CVC!CatchAndIgnorePipe(p, l) <=> CatchAndIgnorePipe(p, l)
  /\ \A p, l : CVC!IgnoreChildren(p, l) <=> IgnoreChildren(p, l)
  /\ \A p, l : CVC!RunHandler(p, l) <=> RunHandler(p, l)
  /\ \A p, child, l : CVC!Wait(p, child, l) <=> Wait(p, child, l)
  /\ \A p, d, exact, got, eof, err : CVC!ReadUpTo(p, d, exact, got, eof, err) <=> ReadUpTo(p, d, exact, got, eof, err)
  /\ \A p, d, got, eof, err : CVC!Read(p, d, got, eof, err) <=> Read(p, d, got, eof, err)
  /\ \A p, message, next, err : CVC!Say(p, message, next, err) <=> Say(p, message, next, err)
  /\ \A p, d, next, err : CVC!PassOn(p, d, next, err) <=> PassOn(p, d, next, err)
  /\ \A p, next : CVC!Show(p, next) <=> Show(p, next)
  /\ \A p, l, err : CVC!Connect(p, l, err) <=> Connect(p, l, err)
  /\ \A p, mode, l, err : CVC!SetTty(p, mode, l, err) <=> SetTty(p, mode, l, err)
  BY DEF
     Alive, At, AtEof, CannotRead, CatchAndIgnorePipe, ClientSide, Connect,
     EndOpen, Exists, Fork, ForkFails, Holders, IgnoreChildren, In, IsShell,
     Jump, Move, Other, Out, PassOn, Procs, Read, ReadUpTo, RunHandler, Say,
     ServerSide, SetTty, Show, Side, Taken, Terminate, Wait, Write, bytes, fixed,
     signals, tail, CVC!Alive, CVC!At, CVC!AtEof, CVC!CannotRead,
     CVC!CatchAndIgnorePipe, CVC!ClientSide, CVC!Connect, CVC!EndOpen,
     CVC!Exists, CVC!Fork, CVC!ForkFails, CVC!Holders, CVC!IgnoreChildren,
     CVC!In, CVC!IsShell, CVC!Jump, CVC!Move, CVC!Other, CVC!Out, CVC!PassOn,
     CVC!Procs, CVC!Read, CVC!ReadUpTo, CVC!RunHandler, CVC!Say, CVC!ServerSide,
     CVC!SetTty, CVC!Show, CVC!Side, CVC!Taken, CVC!Terminate, CVC!Wait,
     CVC!Write, CVC!bytes, CVC!fixed, CVC!signals, CVC!tail

\* The same for the final client.
LEMMA CLICalls ==
  /\ \A p, l : CLI!At(p, l) <=> At(p, l)
  /\ \A p, l : CLI!Jump(p, l) <=> Jump(p, l)
  /\ \A p, D, l : CLI!Close(p, D, l) <=> Close(p, D, l)
  /\ \A p, child, pl, cl : CLI!Fork(p, child, pl, cl) <=> Fork(p, child, pl, cl)
  /\ \A p, l : CLI!ForkFails(p, l) <=> ForkFails(p, l)
  /\ \A p, victims, l : CLI!Terminate(p, victims, l) <=> Terminate(p, victims, l)
  /\ \A p : CLI!Ppid(p) = Ppid(p)
  /\ \A p, l : CLI!Catch(p, l) <=> Catch(p, l)
  /\ \A p, l : CLI!RunHandler(p, l) <=> RunHandler(p, l)
  /\ \A p, child, l : CLI!Wait(p, child, l) <=> Wait(p, child, l)
  /\ \A p, d, got, eof, err : CLI!Read(p, d, got, eof, err) <=> Read(p, d, got, eof, err)
  /\ \A p, message, next, err : CLI!Say(p, message, next, err) <=> Say(p, message, next, err)
  /\ \A p, d, next, err : CLI!PassOn(p, d, next, err) <=> PassOn(p, d, next, err)
  /\ \A p, next : CLI!Show(p, next) <=> Show(p, next)
  /\ \A p, l, err : CLI!Connect(p, l, err) <=> Connect(p, l, err)
  /\ \A p, mode, l, err : CLI!SetTty(p, mode, l, err) <=> SetTty(p, mode, l, err)
  BY DEF
     Alive, At, AtEof, CannotRead, Catch, ClientSide, Close, CloseD, Connect,
     EndOpen, Exists, Fork, ForkFails, Holders, In, IsShell, Jump, Move, Other,
     Out, Parent, PassOn, Ppid, Procs, Read, ReadUpTo, RunHandler, Say,
     ServerSide, SetTty, Show, Side, Taken, Terminate, Wait, Write, bytes, fixed,
     signals, tail, CLI!Alive, CLI!At, CLI!AtEof, CLI!CannotRead, CLI!Catch,
     CLI!ClientSide, CLI!Close, CLI!CloseD, CLI!Connect, CLI!EndOpen, CLI!Exists,
     CLI!Fork, CLI!ForkFails, CLI!Holders, CLI!In, CLI!IsShell, CLI!Jump,
     CLI!Move, CLI!Other, CLI!Out, CLI!Parent, CLI!PassOn, CLI!Ppid, CLI!Procs,
     CLI!Read, CLI!ReadUpTo, CLI!RunHandler, CLI!Say, CLI!ServerSide, CLI!SetTty,
     CLI!Show, CLI!Side, CLI!Taken, CLI!Terminate, CLI!Wait, CLI!Write,
     CLI!bytes, CLI!fixed, CLI!signals, CLI!tail


\* Whatever programs meet, there are two secrets, with and without brackets.
LEMMA SecretsFit ==
  ASSUME Typed
  PROVE  /\ Sent \in {"cs407rembash", "<cs407rembash>"}
         /\ Expected \in {"cs407rembash", "<cs407rembash>"}
<1>1. prog.server \in ServerPrograms /\ prog.client \in ClientPrograms
  BY ProcessesAssumption DEF Typed, SystemOK
<1> QED
  BY <1>1 DEF Expected, Sent, Server, Client, ServerPrograms, ClientPrograms,
     L1S!SECRET, L2S!SECRET, RFS!SECRET, CVS!SECRET,
     L1C!SECRET, L2C!SECRET, RFC!SECRET, CVC!SECRET, CLI!SECRET

\* What is said, and what is not.
LEMMA HarmlessWords ==
  ASSUME Typed
  PROVE  /\ {"rembash", "ok", "error", "line", "exit", "eof", Sent} \subseteq Harmless
         /\ Denied => \A p \in Procs : buf[p] # <<Expected>>
<1>1. Printed = {"prompt", "out1", "out2", "out3"}
  <2>1. 1 .. Len(Outputs) = {1, 2, 3, 4}
    BY DEF Outputs
  <2> QED
    BY <2>1 DEF Printed, Outputs
<1>2. {"rembash", "ok", "error", "line", "exit", "eof", Sent} \subseteq Harmless
  BY <1>1, SecretsFit DEF Harmless, Messages
<1>3. ASSUME Denied, NEW p \in Procs, buf[p] = <<Expected>>
      PROVE  FALSE
  <2>1. buf[p] \in Seq(Harmless)
    BY DEF Typed, CargoOK
  <2>2. Expected \in Harmless
    BY <1>3, <2>1
  <2> QED
    BY <1>3, <2>2 DEF Harmless, Denied
<1> QED
  BY <1>2, <1>3

\* Lab 1: the acceptor never leaves its loop, and the handler, denied, stays early.
LEMMA Lab1ServerSteps ==
  ASSUME Typed, Server({"lab1"})
  PROVE  /\ L1S!Main => ServerGoes({"accept", "fork", "close"})
         /\ L1S!Handler => HandlerGoes({})
<1>1. L1S!Main => ServerGoes({"accept", "fork", "close"})
  BY L1SCalls, PlainCalls, ClosingCalls, ForkCall, OpeningCalls
     DEF L1S!Main, ServerGoes, At, Procs, ServerSide
<1>2. L1S!handle_protocol =>
        /\ Plain("handler")
        /\ \/ pc'["handler"] \in {"secret", "check", "refuse", "dying"}
           \/ pc["handler"] = "check" /\ pc'["handler"] = "ok" /\ ~Denied
           \/ pc["handler"] = "ok" /\ pc'["handler"] \in {"redirect", "dying"}
  BY L1SCalls, PlainCalls, ReadingCalls, WritingCalls, HarmlessWords
     DEF L1S!handle_protocol, L1S!SECRET, Expected, Server, At, Procs, ServerSide
<1>3. L1S!handle_client =>
        /\ Plain("handler") /\ pc["handler"] \in {"redirect", "exec"}
        /\ pc'["handler"] \in {"exec", "shell", "dying"}
  BY L1SCalls, PlainCalls, ClosingCalls DEF L1S!handle_client, At, Procs, ServerSide
<1>4. L1S!Handler => HandlerGoes({})
  BY <1>2, <1>3 DEF L1S!Handler, HandlerGoes, HandlerPC, Early
<1> QED
  BY <1>1, <1>4

\* Lab 2: the same, and the handler may end its shell and its relay.
LEMMA Lab2ServerSteps ==
  ASSUME Typed, Server({"lab2"})
  PROVE  /\ L2S!Main => ServerGoes({"accept", "fork", "close"})
         /\ L2S!Handler => HandlerGoes({"bash", "relay"})
         /\ L2S!Bash => BashGoes
         /\ L2S!Relay => RelayGoes
<1>1. L2S!Main => ServerGoes({"accept", "fork", "close"})
  BY L2SCalls, PlainCalls, ClosingCalls, ForkCall, OpeningCalls
     DEF L2S!Main, ServerGoes, At, Procs, ServerSide
<1>2. L2S!handle_protocol =>
        /\ Plain("handler")
        /\ \/ pc'["handler"] \in {"greet", "greet_failed", "secret", "no_secret",
                                  "check", "refuse", "dying"}
           \/ pc["handler"] = "check" /\ pc'["handler"] = "ok" /\ ~Denied
           \/ /\ pc["handler"] \in {"ok", "ok_failed"}
              /\ pc'["handler"] \in {"pty", "ok_failed", "dying"}
  BY L2SCalls, PlainCalls, ClosingCalls, ReadingCalls, WritingCalls, HarmlessWords
     DEF L2S!handle_protocol, L2S!SECRET, Expected, Server, At, Procs, ServerSide
<1>3. L2S!setup_pty =>
        /\ Plain("handler") /\ pc["handler"] = "pty" /\ pc'["handler"] = "fork_bash"
  BY L2SCalls, PlainCalls, OpeningCalls DEF L2S!setup_pty, At, Procs, ServerSide
<1>4. L2S!handle_client =>
        /\ pc["handler"] \in {"fork_bash", "kill_bash"}
        /\ \/ /\ Forks("handler", "bash")
              /\ pc'["handler"] = "fork_relay" /\ pc'["bash"] = "start"
           \/ Plain("handler") /\ pc'["handler"] = "dying"
           \/ /\ Step("handler", {"bash"}) /\ tty' = tty
              /\ pc'["handler"] = "dying"
  BY L2SCalls, PlainCalls, ForkCall, SignalCalls
     DEF L2S!handle_client, At, Procs, ServerSide
<1>5. L2S!handle_pty_master =>
        /\ pc["handler"] \in {"fork_relay", "leave", "kill_relay"}
        /\ \/ /\ Forks("handler", "relay")
              /\ pc'["handler"] = "read" /\ pc'["relay"] = "read"
           \/ Plain("handler") /\ pc'["handler"] \in {"kill_bash", "kill_relay"}
           \/ /\ Step("handler", {"relay"}) /\ tty' = tty
              /\ pc'["handler"] = "dying"
  BY L2SCalls, PlainCalls, ClosingCalls, ForkCall, SignalCalls
     DEF L2S!handle_pty_master, At, Procs, ServerSide
<1>6. L2S!from_pty_to_client =>
        /\ Plain("handler") /\ pc["handler"] \in {"read", "write"}
        /\ pc'["handler"] \in {"read", "write", "leave", "dying"}
  BY L2SCalls, ReadingCalls, WritingCalls
     DEF L2S!from_pty_to_client, At, Procs, ServerSide
<1>7. L2S!Handler => HandlerGoes({"bash", "relay"})
  <2>1. L2S!handle_protocol \/ L2S!setup_pty \/ L2S!from_pty_to_client
        => HandlerGoes({"bash", "relay"})
    BY <1>2, <1>3, <1>6 DEF HandlerGoes, HandlerPC, Early
  <2>2. L2S!handle_client \/ L2S!handle_pty_master => HandlerGoes({"bash", "relay"})
    BY <1>4, <1>5, StepGrows DEF HandlerGoes, HandlerPC, Early
  <2> QED
    BY <2>1, <2>2 DEF L2S!Handler
<1>8. L2S!setup_slave_pty =>
        /\ Plain("bash") /\ pc["bash"] \in {"setup", "exec"}
        /\ pc'["bash"] \in {"exec", "failed", "shell"}
  BY L2SCalls, PlainCalls, OpeningCalls DEF L2S!setup_slave_pty, At, Procs, ServerSide
<1>9. L2S!bash_child =>
        /\ pc["bash"] \in {"start", "failed"}
        /\ \/ Plain("bash") /\ pc'["bash"] = "setup"
           \/ Step("bash", {"handler"}) /\ tty' = tty /\ pc'["bash"] = "dying"
  BY L2SCalls, ClosingCalls, SignalCalls DEF L2S!bash_child, At, Procs, ServerSide
<1>10. L2S!Bash => BashGoes
  BY <1>8, <1>9 DEF L2S!Bash, BashGoes, BashPC
<1>11. L2S!from_client_to_pty =>
         /\ Plain("relay") /\ pc["relay"] \in {"read", "write"}
         /\ pc'["relay"] \in {"read", "write", "leave", "dying"}
  BY L2SCalls, ReadingCalls, WritingCalls
     DEF L2S!from_client_to_pty, At, Procs, ServerSide
<1>12. L2S!relay_child =>
         Plain("relay") /\ pc["relay"] = "leave" /\ pc'["relay"] = "dying"
  BY L2SCalls, SignalCalls DEF L2S!relay_child, Plain, At, Procs, ServerSide
<1>13. L2S!Relay => RelayGoes
  BY <1>11, <1>12 DEF L2S!Relay, RelayGoes, RelayPC
<1> QED
  BY <1>1, <1>7, <1>10, <1>13

\* Lab 2 revised: the handler's signal may go to the whole server side, because
\* the pid it stored may be that of a fork that failed.
LEMMA Lab2RefactorServerSteps ==
  ASSUME Typed, Server({"refactor"})
  PROVE  /\ RFS!Main => ServerGoes({"accept", "fork", "close"})
         /\ RFS!Handler => HandlerGoes(ServerSide)
         /\ RFS!setup_slave_pty => BashGoes
         /\ RFS!Relay => RelayGoes
<1>1. RFS!Main => ServerGoes({"accept", "fork", "close"})
  BY RFSCalls, PlainCalls, ClosingCalls, ForkCall, OpeningCalls
     DEF RFS!Main, ServerGoes, At, Procs, ServerSide
<1>2. RFS!handle_protocol =>
        /\ Plain("handler")
        /\ \/ pc'["handler"] \in {"greet", "greet_failed", "secret", "no_secret",
                                  "check", "refuse", "dying"}
           \/ pc["handler"] = "check" /\ pc'["handler"] = "ok" /\ ~Denied
           \/ /\ pc["handler"] \in {"ok", "ok_failed"}
              /\ pc'["handler"] \in {"pty", "ok_failed", "dying"}
  BY RFSCalls, PlainCalls, ClosingCalls, ReadingCalls, WritingCalls, HarmlessWords
     DEF RFS!handle_protocol, RFS!SECRET, Expected, Server, At, Procs, ServerSide
<1>3. RFS!setup_pty =>
        /\ Plain("handler") /\ pc["handler"] = "pty" /\ pc'["handler"] = "fork_bash"
  BY RFSCalls, PlainCalls, OpeningCalls DEF RFS!setup_pty, At, Procs, ServerSide
<1>4. RFS!handle_client =>
        /\ pc["handler"] \in {"fork_bash", "store_bash", "kill_bash"}
        /\ \/ /\ Forks("handler", "bash")
              /\ pc'["handler"] = "store_bash" /\ pc'["bash"] = "start"
           \/ Plain("handler") /\ pc'["handler"] \in {"catch", "dying"}
           \/ /\ Step("handler", {"bash"}) /\ tty' = tty
              /\ pc'["handler"] = "dying"
  BY RFSCalls, PlainCalls, ForkCall, SignalCalls, StoreCall
     DEF RFS!handle_client, At, Procs, ServerSide
<1>5. RFS!handle_pty_master =>
        /\ pc["handler"] \in {"catch", "fork_relay", "store_relay", "no_relay",
                              "leave", "kill_relay"}
        /\ \/ /\ Forks("handler", "relay")
              /\ pc'["handler"] = "store_relay" /\ pc'["relay"] = "read"
           \/ /\ Plain("handler")
              /\ pc'["handler"] \in {"fork_relay", "no_relay", "read",
                                     "kill_bash", "kill_relay"}
           \/ /\ Step("handler", {"relay"}) /\ tty' = tty
              /\ pc'["handler"] = "dying"
  BY RFSCalls, PlainCalls, ClosingCalls, ForkCall, SignalCalls, StoreCall
     DEF RFS!handle_pty_master, At, Procs, ServerSide
<1>6. RFS!from_pty_to_client =>
        /\ Plain("handler") /\ pc["handler"] \in {"read", "write"}
        /\ pc'["handler"] \in {"read", "write", "leave", "dying"}
  BY RFSCalls, ReadingCalls, WritingCalls
     DEF RFS!from_pty_to_client, At, Procs, ServerSide
<1>7. RFS!sigchld_handler =>
        \/ Plain("handler") /\ pc'["handler"] = "sigchld" /\ ended["handler"] # "none"
        \/ /\ Step("handler", ServerSide) /\ tty' = tty
           /\ pc["handler"] = "sigchld" /\ pc'["handler"] = "dying"
  BY RFSCalls, PlainCalls, SignalCalls DEF RFS!sigchld_handler, At, Procs, ServerSide
<1>8. RFS!Handler => HandlerGoes(ServerSide)
  <2>1. RFS!handle_protocol \/ RFS!setup_pty \/ RFS!from_pty_to_client
        => HandlerGoes(ServerSide)
    BY <1>2, <1>3, <1>6 DEF HandlerGoes, HandlerPC, Early
  <2>2. RFS!handle_client => HandlerGoes(ServerSide)
    BY <1>4, StepGrows DEF HandlerGoes, HandlerPC, Early, ServerSide
  <2>3. RFS!handle_pty_master => HandlerGoes(ServerSide)
    BY <1>5, StepGrows DEF HandlerGoes, HandlerPC, Early, ServerSide
  <2>4. RFS!sigchld_handler => HandlerGoes(ServerSide)
    BY <1>7 DEF HandlerGoes, HandlerPC, Early
  <2> QED
    BY <2>1, <2>2, <2>3, <2>4 DEF RFS!Handler
<1>9. RFS!setup_slave_pty => BashGoes
  <2>1. RFS!setup_slave_pty =>
          /\ Plain("bash") /\ pc["bash"] \in {"start", "setup", "exec"}
          /\ pc'["bash"] \in {"setup", "exec", "shell", "dying"}
    BY RFSCalls, PlainCalls, ClosingCalls, OpeningCalls
       DEF RFS!setup_slave_pty, At, Procs, ServerSide
  <2> QED
    BY <2>1 DEF BashGoes, BashPC
<1>10. RFS!from_client_to_pty =>
         /\ Plain("relay") /\ pc["relay"] \in {"read", "write"}
         /\ pc'["relay"] \in {"read", "write", "leave", "dying"}
  BY RFSCalls, ReadingCalls, WritingCalls
     DEF RFS!from_client_to_pty, At, Procs, ServerSide
<1>11. RFS!relay_child =>
         Plain("relay") /\ pc["relay"] = "leave" /\ pc'["relay"] = "dying"
  BY RFSCalls, SignalCalls DEF RFS!relay_child, Plain, At, Procs, ServerSide
<1>12. RFS!Relay => RelayGoes
  BY <1>10, <1>11 DEF RFS!Relay, RelayGoes, RelayPC
<1> QED
  BY <1>1, <1>8, <1>9, <1>12

\* The course's server: the same, and the acceptor may give up.
LEMMA CarverServerSteps ==
  ASSUME Typed, Server({"carver"})
  PROVE  /\ CVS!Main => ServerGoes({"accept", "fork", "close", "dying"})
         /\ CVS!Handler => HandlerGoes(ServerSide)
         /\ CVS!run_shell_via_pty => BashGoes
         /\ CVS!Relay => RelayGoes
<1>1. CVS!Main => ServerGoes({"accept", "fork", "close", "dying"})
  BY CVSCalls, PlainCalls, ClosingCalls, ForkCall, OpeningCalls
     DEF CVS!Main, ServerGoes, At, Procs, ServerSide
<1>2. CVS!validate_client_secret =>
        /\ Plain("handler")
        /\ \/ pc'["handler"] \in {"check", "refuse"}
           \/ pc["handler"] = "check" /\ pc'["handler"] = "pty" /\ ~Denied
  <2>1. At("handler", "secret") /\ ReadUpTo("handler", "sock", TRUE, "check", "refuse", "refuse")
        => Plain("handler") /\ pc'["handler"] \in {"check", "refuse"}
    BY ReadingCalls DEF Procs, ServerSide
  <2>2. CASE /\ At("handler", "check") /\ buf["handler"] = <<CVS!SECRET>>
             /\ Jump("handler", "pty")
    BY <2>2, PlainCalls, HarmlessWords DEF CVS!SECRET, Expected, Server, At, Procs,
       ServerSide
  <2>3. CASE At("handler", "check") /\ Jump("handler", "refuse")
    BY <2>3, PlainCalls DEF Procs, ServerSide
  <2>4. CVS!validate_client_secret =>
          \/ /\ At("handler", "secret")
             /\ ReadUpTo("handler", "sock", TRUE, "check", "refuse", "refuse")
          \/ /\ At("handler", "check") /\ buf["handler"] = <<CVS!SECRET>>
             /\ Jump("handler", "pty")
          \/ At("handler", "check") /\ Jump("handler", "refuse")
    BY CVSCalls DEF CVS!validate_client_secret
  <2> QED
    BY <2>1, <2>2, <2>3, <2>4
<1>3. CVS!create_new_pty_pair =>
        /\ Plain("handler") /\ pc["handler"] = "pty"
        /\ pc'["handler"] \in {"fork_bash", "dying"}
  BY CVSCalls, PlainCalls, OpeningCalls DEF CVS!create_new_pty_pair, At, Procs, ServerSide
<1>4. CVS!handle_client =>
        \/ Plain("handler") /\ pc'["handler"] \in {"greet", "secret", "dying"}
        \/ /\ Forks("handler", "bash") /\ pc["handler"] = "fork_bash"
           /\ pc'["handler"] = "store_bash" /\ pc'["bash"] = "start"
        \/ /\ Plain("handler") /\ pc["handler"] \in {"store_bash", "ok", "done"}
           /\ pc'["handler"] \in {"ok", "catch", "kill_bash"}
        \/ /\ Step("handler", ServerSide) /\ tty' = tty
           /\ pc["handler"] \in {"kill_bash", "kill_relay"}
           /\ pc'["handler"] \in {"kill_relay", "dying"}
  BY CVSCalls, PlainCalls, ClosingCalls, WritingCalls, HarmlessWords, ForkCall,
     SignalCalls, StoreCall DEF CVS!handle_client, At, Procs, ServerSide
<1>5. CVS!relay_data_between_socket_and_pty =>
        /\ pc["handler"] \in {"catch", "fork_relay", "store_relay", "no_relay"}
        /\ \/ /\ Forks("handler", "relay")
              /\ pc'["handler"] = "store_relay" /\ pc'["relay"] = "read"
           \/ /\ Plain("handler")
              /\ pc'["handler"] \in {"fork_relay", "no_relay", "read", "done"}
  BY CVSCalls, PlainCalls, ForkCall, StoreCall
     DEF CVS!relay_data_between_socket_and_pty, At, Procs, ServerSide
<1>6. CVS!transfer_data("handler", "master", "sock", "done") =>
        /\ Plain("handler") /\ pc["handler"] \in {"read", "write"}
        /\ pc'["handler"] \in {"read", "write", "done", "dying"}
  BY CVSCalls, ReadingCalls, WritingCalls DEF CVS!transfer_data, At, Procs, ServerSide
<1>7. CVS!sigchld_handler =>
        \/ Plain("handler") /\ pc'["handler"] = "sigchld" /\ ended["handler"] # "none"
        \/ /\ Step("handler", ServerSide) /\ tty' = tty
           /\ pc["handler"] = "sigchld" /\ pc'["handler"] = "dying"
  BY CVSCalls, PlainCalls, SignalCalls DEF CVS!sigchld_handler, At, Procs, ServerSide
<1>8. CVS!Handler => HandlerGoes(ServerSide)
  <2>1. CVS!validate_client_secret \/ CVS!create_new_pty_pair => HandlerGoes(ServerSide)
    BY <1>2, <1>3 DEF HandlerGoes, HandlerPC, Early
  <2>2. CVS!handle_client => HandlerGoes(ServerSide)
    BY <1>4 DEF HandlerGoes, HandlerPC, Early
  <2>3. \/ CVS!relay_data_between_socket_and_pty
        \/ CVS!transfer_data("handler", "master", "sock", "done")
        => HandlerGoes(ServerSide)
    BY <1>5, <1>6 DEF HandlerGoes, HandlerPC, Early
  <2>4. CVS!sigchld_handler => HandlerGoes(ServerSide)
    BY <1>7 DEF HandlerGoes, HandlerPC, Early
  <2> QED
    BY <2>1, <2>2, <2>3, <2>4 DEF CVS!Handler
<1>9. CVS!run_shell_via_pty => BashGoes
  <2>1. CVS!run_shell_via_pty =>
          /\ Plain("bash") /\ pc["bash"] \in {"start", "setup", "exec"}
          /\ pc'["bash"] \in {"setup", "exec", "shell", "dying"}
    BY CVSCalls, PlainCalls, ClosingCalls, OpeningCalls
       DEF CVS!run_shell_via_pty, At, Procs, ServerSide
  <2> QED
    BY <2>1 DEF BashGoes, BashPC
<1>10. CVS!Relay => RelayGoes
  <2>1. CVS!Relay =>
          /\ Plain("relay") /\ pc["relay"] \in {"read", "write"}
          /\ pc'["relay"] \in {"read", "write", "dying"}
    BY CVSCalls, ReadingCalls, WritingCalls
       DEF CVS!Relay, CVS!transfer_data, At, Procs, ServerSide
  <2> QED
    BY <2>1 DEF RelayGoes, RelayPC
<1> QED
  BY <1>1, <1>8, <1>9, <1>10


\* Lab 1's client: the writer may end the reader, its parent.
LEMMA Lab1ClientSteps ==
  ASSUME Typed, Client({"lab1"})
  PROVE  (L1C!Reader => ReaderGoes) /\ (L1C!Writer => WriterGoes({"reader"}))
<1>1. L1C!setup_socket =>
        /\ Plain("reader") /\ pc["reader"] = "start"
        /\ pc'["reader"] \in {"rembash", "dying"}
  BY L1CCalls, OpeningCalls DEF L1C!setup_socket, At, Procs, ClientSide
<1>2. L1C!handle_protocol =>
        /\ Plain("reader") /\ pc["reader"] \in {"rembash", "secret", "ok", "print"}
        /\ pc'["reader"] \in {"secret", "ok", "print", "fork", "dying"}
  BY L1CCalls, ReadingCalls, WritingCalls, HarmlessWords
     DEF L1C!handle_protocol, L1C!SECRET, Sent, Client, At, Procs, ClientSide
<1>3. L1C!main_fork =>
        /\ pc["reader"] = "fork"
        /\ \/ /\ Forks("reader", "writer")
              /\ pc'["reader"] = "read" /\ pc'["writer"] = "read"
           \/ Plain("reader") /\ pc'["reader"] = "dying"
  BY L1CCalls, PlainCalls, ForkCall DEF L1C!main_fork, At, Procs, ClientSide
<1>4. L1C!handle_sock_to_stdout =>
        /\ Plain("reader") /\ pc["reader"] \in {"read", "write"}
        /\ pc'["reader"] \in {"read", "write", "dying"}
  BY L1CCalls, ReadingCalls, WritingCalls
     DEF L1C!handle_sock_to_stdout, At, Procs, ClientSide
<1>5. L1C!Reader => ReaderGoes
  BY <1>1, <1>2, <1>3, <1>4 DEF L1C!Reader, ReaderGoes, ReaderPC, After
<1>6. L1C!Writer =>
        /\ Plain("writer") /\ pc["writer"] \in {"read", "write"}
        /\ pc'["writer"] \in {"read", "write", "dying"}
  BY L1CCalls, ReadingCalls, WritingCalls
     DEF L1C!Writer, L1C!handle_stdin_to_sock, At, Procs, ClientSide
<1> QED
  BY <1>5, <1>6 DEF WriterGoes, WriterPC

\* Lab 2's client: the reader changes the mode of the terminal as well.
LEMMA Lab2ClientSteps ==
  ASSUME Typed, Client({"lab2"})
  PROVE  (L2C!Reader => ReaderGoes) /\ (L2C!Writer => WriterGoes({"reader"}))
<1>1. L2C!setup_socket =>
        Plain("reader") /\ pc["reader"] = "start" /\ pc'["reader"] = "raw"
  BY L2CCalls, OpeningCalls DEF L2C!setup_socket, At, Procs, ClientSide
<1>2. L2C!set_non_canon_mode =>
        /\ Step("reader", {}) /\ (tty' = tty \/ stdin = "terminal")
        /\ pc["reader"] = "raw" /\ pc'["reader"] = "rembash"
  BY L2CCalls, OpeningCalls DEF L2C!set_non_canon_mode, At, Procs, ClientSide
<1>3. L2C!handle_protocol =>
        /\ Plain("reader") /\ pc["reader"] \in {"rembash", "secret", "ok", "print"}
        /\ pc'["reader"] \in {"secret", "ok", "print", "fork", "dying"}
  BY L2CCalls, ReadingCalls, WritingCalls, HarmlessWords
     DEF L2C!handle_protocol, L2C!SECRET, Sent, Client, At, Procs, ClientSide
<1>4. L2C!main_fork =>
        \/ /\ Forks("reader", "writer") /\ pc["reader"] = "fork"
           /\ pc'["reader"] = "read" /\ pc'["writer"] = "read"
        \/ /\ Plain("reader") /\ pc["reader"] \in {"fork", "no_child"}
           /\ pc'["reader"] \in {"no_child", "read_stdin"}
  BY L2CCalls, PlainCalls, ClosingCalls, ForkCall
     DEF L2C!main_fork, At, Procs, ClientSide
<1>5. L2C!handle_sock_to_stdout =>
        /\ pc["reader"] \in {"read", "write", "leave", "kill"}
        /\ \/ Plain("reader") /\ pc'["reader"] \in {"read", "write", "leave", "kill"}
           \/ Step("reader", {"writer"}) /\ tty' = tty /\ pc'["reader"] = "dying"
  BY L2CCalls, ClosingCalls, ReadingCalls, WritingCalls, SignalCalls
     DEF L2C!handle_sock_to_stdout, At, Procs, ClientSide
<1>6. L2C!handle_stdin_to_sock("reader", "read_stdin", "write_stdin",
                                "leave_stdin", "kill_parent") =>
        /\ pc["reader"] \in {"read_stdin", "write_stdin", "leave_stdin", "kill_parent"}
        /\ \/ /\ Plain("reader")
              /\ pc'["reader"] \in {"read_stdin", "write_stdin", "leave_stdin",
                                    "kill_parent", "dying"}
           \/ Step("reader", {"login"}) /\ tty' = tty /\ pc'["reader"] = "dying"
  BY L2CCalls, ClosingCalls, ReadingCalls, WritingCalls, SignalCalls
     DEF L2C!handle_stdin_to_sock, At, Procs, ClientSide
<1>7. L2C!Writer => WriterGoes({"reader"})
  <2>1. L2C!Writer =>
          /\ pc["writer"] # "none"
          /\ \/ /\ Plain("writer")
                /\ pc'["writer"] \in {"read", "write", "leave", "kill", "dying"}
             \/ Step("writer", {"reader"}) /\ tty' = tty /\ pc'["writer"] = "dying"
    BY L2CCalls, ClosingCalls, ReadingCalls, WritingCalls, SignalCalls
       DEF L2C!Writer, L2C!handle_stdin_to_sock, At, Procs, ClientSide
  <2> QED
    BY <2>1 DEF WriterGoes, WriterPC
<1>8. L2C!Reader => ReaderGoes
  <2>1. L2C!setup_socket \/ L2C!set_non_canon_mode \/ L2C!handle_protocol => ReaderGoes
    BY <1>1, <1>2, <1>3 DEF ReaderGoes, Plain, ReaderPC, After
  <2>2. L2C!main_fork \/ L2C!handle_sock_to_stdout => ReaderGoes
    BY <1>4, <1>5 DEF ReaderGoes, ReaderPC, After
  <2> QED
    BY <2>1, <2>2, <1>6 DEF L2C!Reader, ReaderGoes, ReaderPC, After
<1> QED
  BY <1>7, <1>8

\* The revised client: the same, with its SIGCHLD handler.
LEMMA Lab2RefactorClientSteps ==
  ASSUME Typed, Client({"refactor"})
  PROVE  (RFC!Reader => ReaderGoes) /\ (RFC!Writer => WriterGoes({"reader"}))
<1>1. RFC!main_sigaction \/ RFC!setup_socket =>
        /\ Plain("reader") /\ pc["reader"] \in {"start", "connect"}
        /\ pc'["reader"] \in {"connect", "raw"}
  BY RFCCalls, PlainCalls, OpeningCalls
     DEF RFC!main_sigaction, RFC!setup_socket, At, Procs, ClientSide
<1>2. RFC!set_non_canon_mode =>
        /\ Step("reader", {}) /\ (tty' = tty \/ stdin = "terminal")
        /\ pc["reader"] = "raw" /\ pc'["reader"] = "rembash"
  BY RFCCalls, OpeningCalls DEF RFC!set_non_canon_mode, At, Procs, ClientSide
<1>3. RFC!handle_protocol =>
        /\ Plain("reader") /\ pc["reader"] \in {"rembash", "secret", "ok", "print"}
        /\ pc'["reader"] \in {"secret", "ok", "print", "fork", "dying"}
  BY RFCCalls, ReadingCalls, WritingCalls, HarmlessWords
     DEF RFC!handle_protocol, RFC!SECRET, Sent, Client, At, Procs, ClientSide
<1>4. RFC!main_fork =>
        \/ /\ Forks("reader", "writer") /\ pc["reader"] = "fork"
           /\ pc'["reader"] = "read" /\ pc'["writer"] = "read"
        \/ /\ Plain("reader") /\ pc["reader"] \in {"fork", "no_child"}
           /\ pc'["reader"] \in {"no_child", "read_stdin"}
  BY RFCCalls, PlainCalls, ClosingCalls, ForkCall
     DEF RFC!main_fork, At, Procs, ClientSide
<1>5. RFC!handle_sock_to_stdout =>
        /\ pc["reader"] \in {"read", "write", "leave", "kill", "exit"}
        /\ \/ /\ Plain("reader")
              /\ pc'["reader"] \in {"read", "write", "leave", "kill", "dying"}
           \/ Step("reader", {"writer"}) /\ tty' = tty /\ pc'["reader"] = "exit"
  BY RFCCalls, PlainCalls, ClosingCalls, ReadingCalls, WritingCalls, SignalCalls
     DEF RFC!handle_sock_to_stdout, At, Procs, ClientSide
<1>6. RFC!handle_stdin_to_sock("reader", "read_stdin", "write_stdin",
                                "leave_stdin", "kill_parent") =>
        /\ pc["reader"] \in {"read_stdin", "write_stdin", "leave_stdin", "kill_parent"}
        /\ \/ /\ Plain("reader")
              /\ pc'["reader"] \in {"read_stdin", "write_stdin", "leave_stdin",
                                    "kill_parent", "dying"}
           \/ Step("reader", {"login"}) /\ tty' = tty /\ pc'["reader"] = "dying"
  BY RFCCalls, ClosingCalls, ReadingCalls, WritingCalls, SignalCalls
     DEF RFC!handle_stdin_to_sock, At, Procs, ClientSide
<1>7. RFC!Writer => WriterGoes({"reader"})
  <2>1. RFC!Writer =>
          /\ pc["writer"] # "none"
          /\ \/ /\ Plain("writer")
                /\ pc'["writer"] \in {"read", "write", "leave", "kill", "dying"}
             \/ Step("writer", {"reader"}) /\ tty' = tty /\ pc'["writer"] = "dying"
    BY RFCCalls, ClosingCalls, ReadingCalls, WritingCalls, SignalCalls
       DEF RFC!Writer, RFC!handle_stdin_to_sock, At, Procs, ClientSide
  <2> QED
    BY <2>1 DEF WriterGoes, WriterPC
<1>8. RFC!sigchld_handler => Plain("reader") /\ pc'["reader"] = "restore"
  BY RFCCalls, PlainCalls DEF RFC!sigchld_handler, Procs, ClientSide
<1>9. RFC!exit_gracefully =>
        /\ Step("reader", {}) /\ (tty' = tty \/ stdin = "terminal")
        /\ pc["reader"] \in {"restore", "wait"} /\ pc'["reader"] \in {"wait", "dying"}
  BY RFCCalls, PlainCalls, OpeningCalls
     DEF RFC!exit_gracefully, Plain, At, Procs, ClientSide
<1>10. RFC!Reader => ReaderGoes
  <2>1. \/ RFC!main_sigaction \/ RFC!setup_socket \/ RFC!set_non_canon_mode
        \/ RFC!handle_protocol
        => ReaderGoes
    BY <1>1, <1>2, <1>3 DEF ReaderGoes, Plain, ReaderPC, After
  <2>2. RFC!main_fork \/ RFC!handle_sock_to_stdout => ReaderGoes
    BY <1>4, <1>5 DEF ReaderGoes, ReaderPC, After
  <2>3. RFC!sigchld_handler \/ RFC!exit_gracefully => ReaderGoes
    BY <1>8, <1>9 DEF ReaderGoes, Plain, ReaderPC, After
  <2> QED
    BY <2>1, <2>2, <2>3, <1>6 DEF RFC!Reader, ReaderGoes, ReaderPC, After
<1> QED
  BY <1>7, <1>10

\* The final client: the same.
LEMMA ClientSteps ==
  ASSUME Typed, Client({"client"})
  PROVE  (CLI!Reader => ReaderGoes) /\ (CLI!Writer => WriterGoes({"reader"}))
<1>1. CLI!setup_signal_handler \/ CLI!connect_to_server =>
        /\ Plain("reader") /\ pc["reader"] \in {"start", "connect"}
        /\ pc'["reader"] \in {"connect", "raw", "dying"}
  BY CLICalls, PlainCalls, OpeningCalls
     DEF CLI!setup_signal_handler, CLI!connect_to_server, At, Procs, ClientSide
<1>2. CLI!set_non_canon_mode =>
        /\ Step("reader", {}) /\ (tty' = tty \/ stdin = "terminal")
        /\ pc["reader"] = "raw" /\ pc'["reader"] = "rembash"
  BY CLICalls, OpeningCalls DEF CLI!set_non_canon_mode, At, Procs, ClientSide
<1>3. CLI!handle_protocol =>
        /\ Plain("reader") /\ pc["reader"] \in {"rembash", "secret", "ok", "print"}
        /\ pc'["reader"] \in {"secret", "ok", "print", "fork", "dying"}
  BY CLICalls, ReadingCalls, WritingCalls, HarmlessWords
     DEF CLI!handle_protocol, CLI!SECRET, Sent, Client, At, Procs, ClientSide
<1>4. CLI!main_fork =>
        \/ /\ Forks("reader", "writer") /\ pc["reader"] = "fork"
           /\ pc'["reader"] = "read" /\ pc'["writer"] = "read"
        \/ /\ Plain("reader") /\ pc["reader"] \in {"fork", "no_child"}
           /\ pc'["reader"] \in {"no_child", "read_stdin"}
  BY CLICalls, PlainCalls, ClosingCalls, ForkCall
     DEF CLI!main_fork, At, Procs, ClientSide
<1>5. CLI!ReaderLoop =>
        \/ /\ Plain("reader")
           /\ pc["reader"] \in {"read", "write", "exit"}
           /\ pc'["reader"] \in {"read", "write", "leave", "dying"}
        \/ /\ Step("reader", {"writer"}) /\ tty' = tty
           /\ pc["reader"] = "leave" /\ pc'["reader"] = "exit"
        \/ /\ Plain("reader")
           /\ pc["reader"] \in {"read_stdin", "write_stdin"}
           /\ pc'["reader"] \in {"read_stdin", "write_stdin", "leave_stdin", "dying"}
        \/ /\ Step("reader", {"login"}) /\ tty' = tty
           /\ pc["reader"] = "leave_stdin" /\ pc'["reader"] = "exit"
  BY CLICalls, PlainCalls, ReadingCalls, WritingCalls, SignalCalls
     DEF CLI!ReaderLoop, CLI!handle_data_transfer, At, Procs, ClientSide
<1>6. CLI!Writer => WriterGoes({"reader"})
  <2>1. CLI!Writer =>
          /\ pc["writer"] # "none"
          /\ \/ /\ Plain("writer")
                /\ pc'["writer"] \in {"read", "write", "leave", "dying"}
             \/ Step("writer", {"reader"}) /\ tty' = tty /\ pc'["writer"] = "exit"
    BY CLICalls, PlainCalls, ReadingCalls, WritingCalls, SignalCalls
       DEF CLI!Writer, CLI!handle_data_transfer, At, Procs, ClientSide
  <2> QED
    BY <2>1 DEF WriterGoes, WriterPC
<1>7. CLI!sigchld_handler => Plain("reader") /\ pc'["reader"] = "restore"
  BY CLICalls, PlainCalls DEF CLI!sigchld_handler, Procs, ClientSide
<1>8. CLI!exit_gracefully =>
        /\ Step("reader", {}) /\ (tty' = tty \/ stdin = "terminal")
        /\ pc["reader"] \in {"restore", "wait"} /\ pc'["reader"] \in {"wait", "dying"}
  BY CLICalls, PlainCalls, OpeningCalls
     DEF CLI!exit_gracefully, Plain, At, Procs, ClientSide
<1>9. CLI!Reader => ReaderGoes
  <2>1. \/ CLI!setup_signal_handler \/ CLI!connect_to_server
        \/ CLI!set_non_canon_mode \/ CLI!handle_protocol
        => ReaderGoes
    BY <1>1, <1>2, <1>3 DEF ReaderGoes, Plain, ReaderPC, After
  <2>2. CLI!main_fork \/ CLI!ReaderLoop => ReaderGoes
    BY <1>4, <1>5 DEF ReaderGoes, ReaderPC, After
  <2>3. CLI!sigchld_handler \/ CLI!exit_gracefully => ReaderGoes
    BY <1>7, <1>8 DEF ReaderGoes, Plain, ReaderPC, After
  <2> QED
    BY <2>1, <2>2, <2>3 DEF CLI!Reader
<1> QED
  BY <1>6, <1>9

\* Once there is a writer, the reader of the course's client ends by way of the
\* terminal's restoration only.
TidyEnd ==
    pc["reader"] \in After /\ pc'["reader"] \in {"wait", "dying", "gone"} =>
      \/ tty' = "canonical"
      \/ tty' = tty /\ (stdin = "file" \/ pc["reader"] = "wait")

\* The course's client: its writer kills nobody, and its reader's end is tidy.
LEMMA CarverClientSteps ==
  ASSUME Typed, Client({"carver"})
  PROVE  (CVC!Reader => ReaderGoes /\ TidyEnd) /\ (CVC!Writer => WriterGoes({}))
<1>1. CVC!connect_to_server =>
        /\ Plain("reader") /\ pc["reader"] = "start"
        /\ pc'["reader"] \in {"rembash", "dying"}
  BY CVCCalls, OpeningCalls DEF CVC!connect_to_server, At, Procs, ClientSide
<1>2. CVC!carry_out_initial_protocol_exchange =>
        /\ Plain("reader")
        /\ pc["reader"] \in {"rembash", "check_id", "secret", "ok", "check_ok"}
        /\ pc'["reader"] \in {"check_id", "secret", "ok", "check_ok", "raw", "dying"}
  <2>1. \A read \in {"rembash", "ok"}, check \in {"check_id", "check_ok"},
           string \in {"rembash", "ok"}, next \in {"secret", "raw"} :
          CVC!input_matches_protocol(read, check, string, next) =>
            /\ Plain("reader") /\ pc["reader"] \in {read, check}
            /\ pc'["reader"] \in {check, next, "dying"}
    <3> SUFFICES ASSUME NEW read \in {"rembash", "ok"},
                        NEW check \in {"check_id", "check_ok"},
                        NEW string \in {"rembash", "ok"}, NEW next \in {"secret", "raw"},
                        CVC!input_matches_protocol(read, check, string, next)
                 PROVE  /\ Plain("reader") /\ pc["reader"] \in {read, check}
                        /\ pc'["reader"] \in {check, next, "dying"}
      OBVIOUS
    <3>1. \/ /\ At("reader", read)
             /\ ReadUpTo("reader", "sock", TRUE, check, "dying", "dying")
          \/ At("reader", check) /\ \E l \in {next, "dying"} : Jump("reader", l)
      BY CVCCalls DEF CVC!input_matches_protocol
    <3>2. ReadUpTo("reader", "sock", TRUE, check, "dying", "dying") =>
            Plain("reader") /\ pc'["reader"] \in {check, "dying"}
      BY ReadingCalls DEF Procs, ClientSide
    <3>3. \A l : Jump("reader", l) => Plain("reader") /\ pc'["reader"] = l
      BY PlainCalls DEF Procs, ClientSide
    <3> QED
      BY <3>1, <3>2, <3>3 DEF At
  <2>2. At("reader", "secret") /\ Say("reader", CVC!SECRET, "ok", "dying") =>
          /\ Plain("reader") /\ pc["reader"] = "secret"
          /\ pc'["reader"] \in {"ok", "dying"}
    BY WritingCalls, HarmlessWords DEF CVC!SECRET, Sent, Client, At, Procs, ClientSide
  <2> QED
    BY <2>1, <2>2, CVCCalls DEF CVC!carry_out_initial_protocol_exchange
<1>3. CVC!set_tty_noncanon_noecho =>
        /\ Step("reader", {}) /\ (tty' = tty \/ stdin = "terminal")
        /\ pc["reader"] = "raw" /\ pc'["reader"] \in {"catch", "dying"}
  BY CVCCalls, OpeningCalls DEF CVC!set_tty_noncanon_noecho, At, Procs, ClientSide
<1>4. CVC!exchange_commands_with_server =>
        \/ /\ Plain("reader") /\ pc["reader"] \in {"catch", "fork"}
           /\ pc'["reader"] \in {"fork", "dying"}
        \/ /\ Forks("reader", "writer") /\ pc["reader"] = "fork"
           /\ pc'["reader"] = "read" /\ pc'["writer"] = "read"
        \/ Plain("reader") /\ pc["reader"] = "leave" /\ pc'["reader"] = "kill"
        \/ /\ Step("reader", {"writer"}) /\ tty' = tty
           /\ pc["reader"] = "kill" /\ pc'["reader"] = "restore"
  BY CVCCalls, PlainCalls, ForkCall, SignalCalls
     DEF CVC!exchange_commands_with_server, At, Procs, ClientSide
<1>5. CVC!transfer_data("reader", "sock", "leave") =>
        /\ Plain("reader") /\ pc["reader"] \in {"read", "write"}
        /\ pc'["reader"] \in {"read", "write", "leave"}
  BY CVCCalls, ReadingCalls, WritingCalls DEF CVC!transfer_data, At, Procs, ClientSide
<1>6. CVC!sigchld_handler => Plain("reader") /\ pc'["reader"] = "restore"
  BY CVCCalls, PlainCalls DEF CVC!sigchld_handler, Procs, ClientSide
<1>7. CVC!cleanup_and_exit =>
        /\ Step("reader", {})
        /\ \/ /\ pc["reader"] = "restore" /\ pc'["reader"] = "wait"
              /\ tty' = "canonical" /\ stdin = "terminal"
           \/ /\ pc["reader"] = "restore" /\ pc'["reader"] = "dying"
              /\ tty' = tty /\ stdin = "file"
           \/ pc["reader"] = "wait" /\ pc'["reader"] = "dying" /\ tty' = tty
  BY CVCCalls, PlainCalls, OpeningCalls
     DEF CVC!cleanup_and_exit, Plain, At, Procs, ClientSide
<1>8. CVC!Reader => ReaderGoes /\ TidyEnd
  <2>1. CVC!connect_to_server \/ CVC!carry_out_initial_protocol_exchange
        => ReaderGoes /\ TidyEnd
    BY <1>1, <1>2 DEF ReaderGoes, TidyEnd, ReaderPC, After
  <2>2. CVC!set_tty_noncanon_noecho \/ CVC!cleanup_and_exit => ReaderGoes /\ TidyEnd
    BY <1>3, <1>7 DEF ReaderGoes, TidyEnd, Plain, ReaderPC, After
  <2>3. CVC!exchange_commands_with_server => ReaderGoes /\ TidyEnd
    BY <1>4 DEF ReaderGoes, TidyEnd, ReaderPC, After
  <2>4. CVC!transfer_data("reader", "sock", "leave") \/ CVC!sigchld_handler
        => ReaderGoes /\ TidyEnd
    BY <1>5, <1>6 DEF ReaderGoes, TidyEnd, ReaderPC, After
  <2> QED
    BY <2>1, <2>2, <2>3, <2>4 DEF CVC!Reader
<1>9. CVC!Writer =>
        /\ Plain("writer") /\ pc["writer"] \in {"read", "write"}
        /\ pc'["writer"] \in {"read", "write", "dying"}
  BY CVCCalls, ReadingCalls, WritingCalls
     DEF CVC!Writer, CVC!transfer_data, At, Procs, ClientSide
<1> QED
  BY <1>8, <1>9 DEF WriterGoes, WriterPC


------------------------------------------------------------------------------
(* The shell, the kernel and the user *)

LEMMA ShellSteps ==
  ASSUME Typed, NEW p \in Procs
  PROVE  /\ ShellPrints(p) /\ ~Denied =>
              Plain(p) /\ pc[p] = "shell" /\ pc'[p] \in {"shell", "dying"}
         /\ ShellEnds(p) => Plain(p) /\ pc[p] = "shell" /\ pc'[p] = "dying"
<1>1. ASSUME ShellPrints(p), ~Denied
      PROVE  Plain(p) /\ pc[p] = "shell" /\ pc'[p] \in {"shell", "dying"}
  <2> DEFINE out  == Out(p, ShellFd(p))
             in   == In(p, ShellFd(p))
             text == Outputs[log.printed + 1]
             says == [chan EXCEPT ![out] = Append(@, text)]
  <2>1. out \in Channels /\ in \in Channels
    BY DEF Out, In, ShellFd, Channels
  <2>2. Harmless = Messages /\ log.printed \in 0 .. 3 /\ text \in Messages
    <3>1. Harmless = Messages
      BY <1>1 DEF Harmless, Denied
    <3>2. Len(Outputs) = 4
      BY DEF Outputs
    <3>3. log.printed \in 0 .. 3 /\ log.printed + 1 \in 1 .. Len(Outputs)
      BY <1>1, <3>2 DEF ShellPrints, Typed, SystemOK
    <3> QED
      BY <3>1, <3>3 DEF Messages, Printed
  <2>3. says \in [Channels -> Seq(Harmless)]
    BY <2>1, <2>2, AppendProperties DEF Typed, CargoOK
  <2>4. /\ chan' = says \/ (chan' = [says EXCEPT ![in] = Tail(@)] /\ chan[in] # <<>>)
        /\ pc' = pc \/ pc' = [pc EXCEPT ![p] = "dying"]
        /\ pc[p] = "shell" /\ log' = [log EXCEPT !.printed = @ + 1]
        /\ UNCHANGED <<holds, signals, buf, fault, conn, slave, tty, fixed>>
    BY <1>1 DEF ShellPrints, Move, IsShell
  <2>5. chan[in] # <<>> => says[in] # <<>>
    BY <2>1, <2>2, AppendProperties DEF Typed, CargoOK
  <2>6. chan' \in [Channels -> Seq(Harmless)]
    <3> HIDE DEF says, in
    <3>1. ASSUME chan[in] # <<>>
          PROVE  Tail(says[in]) \in Seq(Harmless)
      BY <2>1, <2>3, <2>5, <3>1, HeadTailProperties
    <3> QED
      BY <2>1, <2>3, <2>4, <3>1
  <2>7. /\ log' \in [typed : 0 .. 3, ended : BOOLEAN, interrupted : BOOLEAN,
                     printed : 0 .. Len(Outputs), seen : SUBSET Messages,
                     killed : SUBSET Procs]
        /\ log'.killed = log.killed /\ log'.typed = log.typed
        /\ log'.seen = log.seen /\ log'.interrupted = log.interrupted
    <3>1. log.printed + 1 \in 0 .. Len(Outputs)
      BY <2>2 DEF Outputs
    <3> QED
      BY <2>4, <3>1 DEF Typed, SystemOK
  <2> QED
    BY <2>4, <2>6, <2>7
       DEF Plain, Step, Typed, TypedNext, CargoOK, SystemOK, signals, fixed
<1>2. ASSUME ShellEnds(p)
      PROVE  Plain(p) /\ pc[p] = "shell" /\ pc'[p] = "dying"
  BY <1>2, PlainCalls DEF ShellEnds, IsShell
<1> QED
  BY <1>1, <1>2

\* What the user types joins the keyboard's channel; only the interrupt ends
\* processes, all of them on the client's side, and it is recorded.
LEMMA UserSteps ==
  ASSUME Typed
  PROVE  /\ \A item \in {"line", "exit", "eof"} : Type(item) =>
              /\ TypedNext /\ UNCHANGED <<pc, ended, tty>>
              /\ log'.killed = log.killed /\ log'.seen = log.seen
              /\ log'.interrupted = log.interrupted
         /\ TypeInterrupt =>
              /\ TypedNext /\ UNCHANGED <<ended, tty>>
              /\ \A q \in Procs \ ClientSide : pc'[q] = pc[q]
              /\ \A q \in ClientSide : \/ pc'[q] = pc[q]
                                       \/ Alive(q) /\ pc'[q] = "dying"
              /\ log'.killed = log.killed /\ log'.seen = log.seen
              /\ log'.interrupted
<1>1. ASSUME NEW item \in {"line", "exit", "eof"}, Type(item)
      PROVE  /\ TypedNext /\ UNCHANGED <<pc, ended, tty>>
             /\ log'.killed = log.killed /\ log'.seen = log.seen
             /\ log'.interrupted = log.interrupted
  <2>1. chan["keyboard"] \in Seq(Harmless) /\ item \in Harmless
    BY HarmlessWords DEF Typed, CargoOK, Channels
  <2>2. Append(chan["keyboard"], item) \in Seq(Harmless)
    BY <2>1, AppendProperties
  <2>3. chan' \in [Channels -> Seq(Harmless)]
    BY <1>1, <2>2 DEF Type, Typed, CargoOK
  <2>4. /\ log' \in [typed : 0 .. 3, ended : BOOLEAN, interrupted : BOOLEAN,
                     printed : 0 .. Len(Outputs), seen : SUBSET Messages,
                     killed : SUBSET Procs]
        /\ log'.typed <= prog.typed
        /\ log'.killed = log.killed /\ log'.seen = log.seen
        /\ log'.interrupted = log.interrupted
    <3>1. prog.typed \in 0 .. 3 /\ log.typed \in 0 .. 3 /\ log.typed < prog.typed
      BY <1>1, ProcessesAssumption DEF Type, Typed, SystemOK
    <3>2. log.typed + 1 \in 0 .. 3 /\ log.typed + 1 <= prog.typed
      BY <3>1
    <3>3. log' = [log EXCEPT !.ended = TRUE] \/ log' = [log EXCEPT !.typed = @ + 1]
      BY <1>1 DEF Type
    <3> QED
      BY <3>1, <3>2, <3>3 DEF Typed, SystemOK
  <2> QED
    BY <1>1, <2>3, <2>4 DEF Type, Typed, TypedNext, CargoOK, SystemOK, signals, fixed
<1>2. ASSUME TypeInterrupt
      PROVE  /\ TypedNext /\ UNCHANGED <<ended, tty>>
             /\ \A q \in Procs \ ClientSide : pc'[q] = pc[q]
             /\ \A q \in ClientSide : \/ pc'[q] = pc[q]
                                      \/ Alive(q) /\ pc'[q] = "dying"
             /\ log'.killed = log.killed /\ log'.seen = log.seen
             /\ log'.interrupted
  BY <1>2 DEF TypeInterrupt, Typed, TypedNext, CargoOK, SystemOK, signals, bytes,
     fixed, Procs
<1> QED
  BY <1>1, <1>2


------------------------------------------------------------------------------
(* The inductive invariant *)

\* Without the secret the handler stays where it has no child to be told of.
NoShellYet ==
    Denied => /\ pc["handler"] \in Early /\ pc["bash"] = "none" /\ pc["relay"] = "none"
              /\ ended["handler"] = "none"
              /\ log.seen \cap Printed = {}

ServerStays == Server({"lab1", "lab2"}) => pc["server"] \in {"accept", "fork", "close"}

\* A reader that has not forked has no writer, and one that has does not fork
\* again; it is in the former that a client signals its own parent.
PairStarts == pc["reader"] \notin After => pc["writer"] = "none"
UserSpared ==
    "login" \in log.killed => pc["writer"] = "none" /\ pc["reader"] \in After

TerminalKept ==
    /\ stdin = "file" => tty = "canonical"
    /\ /\ Client({"carver"}) /\ pc["reader"] \in {"wait", "dying", "gone"}
       /\ pc["writer"] # "none" /\ ~log.interrupted
       => tty = "canonical"

ServerPart == NoShellYet /\ ServerStays
ClientPart == PairStarts /\ UserSpared /\ TerminalKept

SessionInv == Typed /\ PlacesOK /\ ServerPart /\ ClientPart

\* The programs of a session never change, nor does what is harmless between them.
LEMMA FixedFacts ==
  ASSUME UNCHANGED fixed
  PROVE  Harmless' = Harmless /\ Denied' = Denied
  BY DEF fixed, Harmless, Denied, Sent, Expected, Server, Client, Messages, Printed,
     Outputs, L1S!SECRET, L2S!SECRET, RFS!SECRET, CVS!SECRET,
     L1C!SECRET, L2C!SECRET, RFC!SECRET, CVC!SECRET, CLI!SECRET

\* The typing of the next state, with Harmless read in that state.
LEMMA TypedStays == ASSUME TypedNext PROVE Typed'
  BY FixedFacts DEF Typed, TypedNext, CargoOK

\* A step of one side leaves the other side's part alone.
LEMMA ClientUnaffected ==
  ASSUME ClientPart, TypedNext, tty' = tty,
         pc'["reader"] = pc["reader"], pc'["writer"] = pc["writer"],
         "login" \in log'.killed => "login" \in log.killed,
         log'.interrupted = log.interrupted
  PROVE  ClientPart'
  BY DEF ClientPart, PairStarts, UserSpared, TerminalKept, Client, TypedNext, fixed

\* While the client is denied, the handler stays early, no shell starts and
\* nothing but harmless messages reaches the screen.
LEMMA NoShellStays ==
  ASSUME NoShellYet, TypedNext,
         Denied => /\ pc'["handler"] \in Early /\ pc'["bash"] = "none"
                   /\ pc'["relay"] = "none",
         ended'["handler"] \in {ended["handler"], "none"},
         log'.seen \subseteq log.seen \cup Harmless
  PROVE  NoShellYet'
<1> SUFFICES ASSUME Denied'
             PROVE  /\ pc'["handler"] \in Early /\ pc'["bash"] = "none"
                    /\ pc'["relay"] = "none" /\ ended'["handler"] = "none"
                    /\ log'.seen \cap Printed = {}
  BY DEF NoShellYet, Printed, Outputs
<1>1. Denied
  BY FixedFacts DEF TypedNext
<1>2. Harmless \cap Printed = {}
  BY <1>1 DEF Harmless, Denied
<1> QED
  BY <1>1, <1>2 DEF NoShellYet

\* A step of the client's side leaves the server's part alone.
LEMMA ServerUnaffected ==
  ASSUME ServerPart, TypedNext,
         \A q \in ServerSide : pc'[q] = pc[q],
         ended'["handler"] \in {ended["handler"], "none"},
         log'.seen \subseteq log.seen \cup Harmless
  PROVE  ServerPart'
<1>1. NoShellYet'
  BY NoShellStays DEF ServerPart, NoShellYet, ServerSide
<1>2. ServerStays'
  BY DEF ServerPart, ServerStays, Server, ServerSide, TypedNext, fixed
<1> QED
  BY <1>1, <1>2 DEF ServerPart


\* A session begins with nothing forked, nothing sent and the terminal canonical.
LEMMA InitInv == Init => SessionInv
<1> SUFFICES ASSUME Init PROVE SessionInv
  OBVIOUS
<1>1. Typed
  <2>1. <<>> \in Seq(Harmless)
    BY EmptySeq
  <2>2. CargoOK
    BY <2>1 DEF Init, CargoOK
  <2>3. SystemOK
    BY ProcessesAssumption DEF Init, SystemOK, Outputs
  <2>4. DOMAIN pc = Procs
    BY DEF Init
  <2> QED
    BY <2>2, <2>3, <2>4 DEF Typed
<1>2. /\ pc["login"] = "waiting" /\ pc["server"] = "accept" /\ pc["reader"] = "start"
      /\ pc["handler"] = "none" /\ pc["bash"] = "none" /\ pc["relay"] = "none"
      /\ pc["writer"] = "none"
  BY DEF Init, Procs, ClientSide, ServerSide
<1>3. PlacesOK
  BY <1>2 DEF PlacesOK, LoginPC, ServerPC, HandlerPC, BashPC, RelayPC, ReaderPC, WriterPC
<1>4. ServerPart
  BY <1>2 DEF Init, ServerPart, NoShellYet, ServerStays, Early, Procs, ServerSide
<1>5. ClientPart
  BY <1>2 DEF Init, ClientPart, PairStarts, UserSpared, TerminalKept
<1> QED
  BY <1>1, <1>3, <1>4, <1>5 DEF SessionInv

\* Where p may be; a process that is killed is at a place of its own, too.
Place(p) == CASE p = "login"   -> LoginPC
              [] p = "server"  -> ServerPC
              [] p = "handler" -> HandlerPC
              [] p = "bash"    -> BashPC
              [] p = "relay"   -> RelayPC
              [] p = "reader"  -> ReaderPC
              [] p = "writer"  -> WriterPC

\* PlacesOK one process at a time; every process may die anywhere.
LEMMA Places ==
  /\ PlacesOK <=> \A p \in Procs : pc[p] \in Place(p)
  /\ PlacesOK' <=> \A p \in Procs : pc'[p] \in Place(p)
  /\ \A p \in Procs : "dying" \in Place(p) /\ "gone" \in Place(p)
<1>1. /\ Place("login") = LoginPC /\ Place("server") = ServerPC
      /\ Place("handler") = HandlerPC /\ Place("bash") = BashPC
      /\ Place("relay") = RelayPC /\ Place("reader") = ReaderPC
      /\ Place("writer") = WriterPC
  BY DEF Place
<1>2. \A p \in Procs : "dying" \in Place(p) /\ "gone" \in Place(p)
  BY <1>1 DEF LoginPC, ServerPC, HandlerPC, BashPC, RelayPC, ReaderPC, WriterPC,
     Procs, ClientSide, ServerSide
<1>3. PlacesOK <=> \A p \in Procs : pc[p] \in Place(p)
  BY <1>1 DEF PlacesOK, Procs, ClientSide, ServerSide
<1>4. PlacesOK' <=> \A p \in Procs : pc'[p] \in Place(p)
  BY <1>1 DEF PlacesOK, Procs, ClientSide, ServerSide, LoginPC, ServerPC, HandlerPC,
     BashPC, RelayPC, ReaderPC, WriterPC
<1> QED
  BY <1>2, <1>3, <1>4

\* A step to a label of one's own program keeps everybody in place.
LEMMA PlacesStay ==
  ASSUME PlacesOK, NEW p \in Procs, NEW V, Step(p, V), pc'[p] \in Place(p)
  PROVE  PlacesOK'
<1>1. \A q \in Procs \ {p} : pc'[q] \in {pc[q], "dying"}
  BY DEF Step
<1> QED
  BY <1>1, Places

\* A step on the server's side.
LEMMA ServerSideStep ==
  ASSUME SessionInv, NEW p \in ServerSide, NEW V \in SUBSET ServerSide,
         Step(p, V), tty' = tty, pc'[p] \in Place(p),
         Denied => /\ pc'["handler"] \in Early /\ pc'["bash"] = "none"
                   /\ pc'["relay"] = "none",
         Server({"lab1", "lab2"}) => pc'["server"] \in {"accept", "fork", "close"}
  PROVE  SessionInv'
<1>1. p \in Procs /\ {"reader", "writer", "login"} \subseteq Procs \ ServerSide
  BY DEF Procs, ServerSide, ClientSide
<1>2. TypedNext /\ Typed' /\ PlacesOK'
  BY <1>1, TypedStays, PlacesStay DEF SessionInv, Step
<1>3. ended'["handler"] \in {ended["handler"], "none"}
  BY DEF Step, Procs, ServerSide
<1>4. log'.seen \subseteq log.seen \cup Harmless
  BY DEF Step
<1>5. NoShellYet'
  BY <1>2, <1>3, <1>4, NoShellStays DEF SessionInv, ServerPart
<1>6. ServerStays'
  BY <1>2 DEF ServerStays, Server, TypedNext, fixed
<1>7. ClientPart'
  <2>1. /\ pc'["reader"] = pc["reader"] /\ pc'["writer"] = pc["writer"]
        /\ "login" \in log'.killed => "login" \in log.killed
        /\ log'.interrupted = log.interrupted
    BY <1>1 DEF Step
  <2> QED
    BY <1>2, <2>1, ClientUnaffected DEF SessionInv
<1> QED
  BY <1>2, <1>5, <1>6, <1>7 DEF SessionInv, ServerPart

\* The same when a process of the server's side starts a child.
LEMMA ServerSideFork ==
  ASSUME SessionInv, NEW p \in ServerSide, NEW child \in ServerSide, p # child,
         Forks(p, child), pc'[p] \in Place(p), pc'[child] \in Place(child),
         Denied => /\ pc'["handler"] \in Early /\ pc'["bash"] = "none"
                   /\ pc'["relay"] = "none",
         Server({"lab1", "lab2"}) => pc'["server"] \in {"accept", "fork", "close"}
  PROVE  SessionInv'
<1>1. p \in Procs /\ child \in Procs /\ {"reader", "writer"} \subseteq Procs \ ServerSide
  BY DEF Procs, ServerSide, ClientSide
<1>2. TypedNext /\ Typed'
  BY TypedStays DEF Forks
<1>3. PlacesOK'
  <2>1. \A q \in Procs : pc'[q] \in Place(q)
    BY <1>1, Places DEF Forks, SessionInv
  <2> QED
    BY <2>1, Places
<1>4. NoShellYet'
  BY <1>2, NoShellStays DEF Forks, SessionInv, ServerPart
<1>5. ServerStays'
  BY <1>2 DEF ServerStays, Server, TypedNext, fixed
<1>6. ClientPart'
  BY <1>1, <1>2, ClientUnaffected DEF Forks, SessionInv
<1> QED
  BY <1>2, <1>3, <1>4, <1>5, <1>6 DEF SessionInv, ServerPart


\* The accepting process keeps the invariant, in each of the four servers.
LEMMA ServerKeeps == ASSUME SessionInv, ServerSteps PROVE SessionInv'
<1> USE DEF ServerSide
<1>1. PICK L \in SUBSET {"accept", "fork", "close", "dying"} :
        ServerGoes(L) /\ (Server({"lab1", "lab2"}) => "dying" \notin L)
  <2>1. \/ ServerGoes({"accept", "fork", "close"})
        \/ Server({"carver"}) /\ ServerGoes({"accept", "fork", "close", "dying"})
    BY Lab1ServerSteps, Lab2ServerSteps, Lab2RefactorServerSteps, CarverServerSteps
       DEF SessionInv, ServerSteps
  <2>2. CASE ServerGoes({"accept", "fork", "close"})
    BY <2>2
  <2>3. CASE Server({"carver"}) /\ ServerGoes({"accept", "fork", "close", "dying"})
    BY <2>3 DEF Server
  <2> QED
    BY <2>1, <2>2, <2>3
<1>2. CASE Plain("server") /\ pc'["server"] \in L
  <2>1. /\ Step("server", {}) /\ tty' = tty
        /\ \A q \in {"handler", "bash", "relay"} : pc'[q] = pc[q]
    BY <1>2 DEF Plain, Step, Procs
  <2>2. pc'["server"] \in Place("server")
    BY <1>2 DEF Place, ServerPC
  <2>3. Server({"lab1", "lab2"}) => pc'["server"] \in {"accept", "fork", "close"}
    BY <1>1, <1>2
  <2> QED
    BY <2>1, <2>2, <2>3, ServerSideStep DEF SessionInv, ServerPart, NoShellYet
<1>3. CASE /\ Forks("server", "handler")
           /\ pc'["server"] = "close" /\ pc'["handler"] \in {"start", "greet"}
  <2>1. \A q \in {"bash", "relay"} : pc'[q] = pc[q]
    BY <1>3 DEF Forks, Procs
  <2>2. pc'["server"] \in Place("server") /\ pc'["handler"] \in Place("handler")
    BY <1>3 DEF Place, ServerPC, HandlerPC
  <2>3. pc'["handler"] \in Early
    BY <1>3 DEF Early
  <2> QED
    BY <1>3, <2>1, <2>2, <2>3, ServerSideFork DEF SessionInv, ServerPart, NoShellYet
<1> QED
  BY <1>1, <1>2, <1>3 DEF ServerGoes

\* So does the handler, ...
LEMMA HandlerKeeps == ASSUME SessionInv, HandlerSteps PROVE SessionInv'
<1> USE DEF ServerSide
<1>1. PICK V \in SUBSET ServerSide :
        HandlerGoes(V) /\ (Server({"lab1", "lab2"}) => "server" \notin V)
  <2>1. \/ HandlerGoes({}) \/ HandlerGoes({"bash", "relay"})
        \/ Server({"refactor", "carver"}) /\ HandlerGoes(ServerSide)
    BY Lab1ServerSteps, Lab2ServerSteps, Lab2RefactorServerSteps, CarverServerSteps
       DEF SessionInv, HandlerSteps, Server
  <2>2. CASE HandlerGoes({})
    BY <2>2
  <2>3. CASE HandlerGoes({"bash", "relay"})
    BY <2>3
  <2>4. CASE Server({"refactor", "carver"}) /\ HandlerGoes(ServerSide)
    BY <2>4 DEF Server
  <2> QED
    BY <2>1, <2>2, <2>3, <2>4
<1>2. Denied => /\ Plain("handler") /\ pc'["handler"] \in Early
                /\ pc'["bash"] = "none" /\ pc'["relay"] = "none"
  <2>1. Denied => Plain("handler") /\ pc'["handler"] \in Early
    BY <1>1 DEF HandlerGoes, SessionInv, ServerPart, NoShellYet
  <2>2. Plain("handler") => \A q \in {"bash", "relay"} : pc'[q] = pc[q]
    BY DEF Plain, Step, Procs
  <2> QED
    BY <2>1, <2>2 DEF SessionInv, ServerPart, NoShellYet
<1>3. ASSUME NEW W \in SUBSET V, Step("handler", W), tty' = tty,
             pc'["handler"] \in HandlerPC
      PROVE  SessionInv'
  <2>1. Server({"lab1", "lab2"}) => pc'["server"] = pc["server"]
    BY <1>1, <1>3 DEF Step, Procs
  <2>2. pc'["handler"] \in Place("handler")
    BY <1>3 DEF Place
  <2> QED
    BY <1>2, <1>3, <2>1, <2>2, ServerSideStep DEF SessionInv, ServerPart, ServerStays
<1>4. ASSUME NEW child \in {"bash", "relay"}, Forks("handler", child),
             pc'["handler"] \in HandlerPC,
             child = "bash" => pc'[child] = "start",
             child = "relay" => pc'[child] = "read",
             ~Denied
      PROVE  SessionInv'
  <2>1. pc'["server"] = pc["server"]
    BY <1>4 DEF Forks, Procs
  <2>2. pc'["handler"] \in Place("handler") /\ pc'[child] \in Place(child)
    BY <1>4 DEF Place, BashPC, RelayPC
  <2> QED
    BY <1>4, <2>1, <2>2, ServerSideFork DEF SessionInv, ServerPart, ServerStays
<1>5. CASE Plain("handler") /\ pc'["handler"] \in HandlerPC
  BY <1>3, <1>5 DEF Plain
<1>6. CASE Step("handler", V) /\ tty' = tty /\ pc'["handler"] \in {"kill_relay", "dying"}
  BY <1>3, <1>6 DEF HandlerPC
<1>7. CASE /\ Forks("handler", "bash")
           /\ pc'["handler"] \in HandlerPC /\ pc'["bash"] = "start"
  <2>1. ~Denied
    BY <1>2, <1>7 DEF SessionInv, ServerPart, NoShellYet
  <2> QED
    BY <1>4, <1>7, <2>1
<1>8. CASE /\ Forks("handler", "relay")
           /\ pc'["handler"] \in HandlerPC /\ pc'["relay"] = "read"
  <2>1. ~Denied
    BY <1>2, <1>8 DEF SessionInv, ServerPart, NoShellYet
  <2> QED
    BY <1>4, <1>8, <2>1
<1> QED
  BY <1>1, <1>5, <1>6, <1>7, <1>8 DEF HandlerGoes

\* ... the shell it starts and the relay, ...
LEMMA ChildrenKeep == ASSUME SessionInv, BashSteps \/ RelaySteps PROVE SessionInv'
<1> USE DEF ServerSide
<1>1. BashGoes \/ RelayGoes
  BY Lab2ServerSteps, Lab2RefactorServerSteps, CarverServerSteps
     DEF SessionInv, BashSteps, RelaySteps
<1>2. ~Denied
  BY <1>1 DEF BashGoes, RelayGoes, SessionInv, ServerPart, NoShellYet
<1>3. ASSUME NEW p \in {"bash", "relay"}, NEW V \in SUBSET {"handler"}, Step(p, V),
             tty' = tty, pc'[p] \in Place(p)
      PROVE  SessionInv'
  <2>1. pc'["server"] = pc["server"]
    BY <1>3 DEF Step, Procs
  <2> QED
    BY <1>2, <1>3, <2>1, ServerSideStep DEF SessionInv, ServerPart, ServerStays
<1>4. CASE BashGoes
  BY <1>3, <1>4 DEF BashGoes, Plain, Place, BashPC
<1>5. CASE RelayGoes
  BY <1>3, <1>5 DEF RelayGoes, Plain, Place
<1> QED
  BY <1>1, <1>4, <1>5


\* A step of the client's side keeps the invariant when it keeps its own part of
\* it; it cannot reach a process of the server.
LEMMA ClientSideStep ==
  ASSUME SessionInv, NEW p \in ClientSide, NEW V \in SUBSET {"login", "reader", "writer"},
         Step(p, V), pc'[p] \in Place(p), ClientPart'
  PROVE  SessionInv'
<1>1. p \in Procs /\ ServerSide \subseteq Procs /\ p \notin ServerSide /\ "handler" \in Procs
  BY DEF Procs, ClientSide, ServerSide
<1>2. V \cap ServerSide = {}
  BY DEF ServerSide
<1>3. TypedNext /\ Typed' /\ PlacesOK'
  BY <1>1, TypedStays, PlacesStay DEF SessionInv, Step
<1>4. ServerPart'
  <2>1. \A q \in ServerSide : pc'[q] = pc[q]
    BY <1>1, <1>2 DEF Step
  <2>2. /\ ended'["handler"] \in {ended["handler"], "none"}
        /\ log'.seen \subseteq log.seen \cup Harmless
    BY <1>1 DEF Step
  <2> QED
    BY <1>3, <2>1, <2>2, ServerUnaffected DEF SessionInv
<1> QED
  BY <1>3, <1>4 DEF SessionInv

\* ... the client's reader, which saves, changes and restores the terminal's mode, ...
LEMMA ReaderKeeps == ASSUME SessionInv, ReaderSteps PROVE SessionInv'
<1>1. ReaderGoes /\ (Client({"carver"}) => TidyEnd)
  BY Lab1ClientSteps, Lab2ClientSteps, Lab2RefactorClientSteps, CarverClientSteps,
     ClientSteps DEF SessionInv, ReaderSteps, Client
<1>2. "reader" \in ClientSide /\ Place("reader") = ReaderPC /\ "dying" \in After
  BY DEF ClientSide, Place, After
<1>3. ASSUME NEW V \in SUBSET {"login", "writer"}, Step("reader", V),
             pc'["reader"] \in ReaderPC, tty' = tty \/ stdin = "terminal",
             "login" \in V => /\ pc["reader"] \notin After /\ pc'["reader"] \in After
                              /\ "writer" \notin V,
             "writer" \in V => pc'["reader"] \in After
      PROVE  SessionInv'
  <2>1. /\ UNCHANGED fixed
        /\ pc'["writer"] = pc["writer"] \/ (pc["writer"] # "none" /\ "writer" \in V)
        /\ pc'["writer"] # "none" => pc["writer"] # "none"
        /\ log'.killed \subseteq log.killed \cup V
        /\ log'.interrupted = log.interrupted
    BY <1>3 DEF Step, TypedNext, Alive, Procs, ClientSide
  <2>2. PairStarts'
    BY <1>1, <1>3, <2>1 DEF PairStarts, SessionInv, ClientPart, ReaderGoes
  <2>3. UserSpared'
    <3> SUFFICES ASSUME "login" \in log'.killed
                 PROVE  pc'["writer"] = "none" /\ pc'["reader"] \in After
      BY DEF UserSpared, After
    <3>1. CASE "login" \in log.killed
      BY <1>1, <2>1, <3>1 DEF SessionInv, ClientPart, UserSpared, ReaderGoes
    <3>2. CASE "login" \in V
      BY <1>3, <2>1, <3>2 DEF SessionInv, ClientPart, PairStarts
    <3> QED
      BY <2>1, <3>1, <3>2
  <2>4. TerminalKept'
    <3>1. stdin = "file" => tty' = "canonical"
      BY <1>3 DEF SessionInv, ClientPart, TerminalKept
    <3>2. ASSUME Client({"carver"}), pc'["reader"] \in {"wait", "dying", "gone"},
                 pc'["writer"] # "none", ~log.interrupted
          PROVE  tty' = "canonical"
      <4>1. pc["reader"] \in After
        BY <2>1, <3>2 DEF SessionInv, ClientPart, PairStarts
      <4> QED
        BY <1>1, <2>1, <3>1, <3>2, <4>1
           DEF TidyEnd, SessionInv, ClientPart, TerminalKept
    <3> QED
      BY <2>1, <3>1, <3>2 DEF TerminalKept, Client, fixed
  <2> QED
    BY <1>2, <1>3, <2>2, <2>3, <2>4, ClientSideStep DEF ClientPart
<1>4. CASE Plain("reader") /\ pc'["reader"] \in ReaderPC
  BY <1>3, <1>4 DEF Plain
<1>5. CASE /\ Step("reader", {"writer"}) /\ tty' = tty
           /\ pc'["reader"] \in {"exit", "restore", "dying"}
  BY <1>3, <1>5 DEF After, ReaderPC
<1>6. CASE /\ Step("reader", {"login"}) /\ tty' = tty
           /\ pc["reader"] \notin After /\ pc'["reader"] \in {"exit", "dying"}
  BY <1>3, <1>6 DEF After, ReaderPC
<1>7. CASE Step("reader", {}) /\ stdin = "terminal" /\ pc'["reader"] \in ReaderPC
  BY <1>3, <1>7
<1>8. CASE /\ Forks("reader", "writer") /\ pc["reader"] = "fork"
           /\ pc'["reader"] = "read" /\ pc'["writer"] = "read"
  <2>1. TypedNext /\ Typed' /\ UNCHANGED <<tty, log, ended, fixed>>
    BY <1>8, TypedStays DEF Forks, TypedNext
  <2>2. PlacesOK'
    <3>1. \A q \in Procs : pc'[q] \in Place(q)
      <4>1. \A q \in Procs \ {"reader", "writer"} : pc'[q] \in Place(q)
        BY <1>8, Places DEF Forks, SessionInv
      <4>2. pc'["reader"] \in Place("reader") /\ pc'["writer"] \in Place("writer")
        BY <1>8 DEF Place, ReaderPC, WriterPC
      <4> QED
        BY <4>1, <4>2
    <3> QED
      BY <3>1, Places
  <2>3. ServerPart'
    <3>1. \A q \in ServerSide : pc'[q] = pc[q]
      BY <1>8 DEF Forks, Procs, ServerSide
    <3> QED
      BY <2>1, <3>1, ServerUnaffected DEF SessionInv
  <2>4. ClientPart'
    BY <1>8, <2>1 DEF SessionInv, ClientPart, PairStarts, UserSpared, TerminalKept,
       After, fixed
  <2> QED
    BY <2>1, <2>2, <2>3, <2>4 DEF SessionInv
<1> QED
  BY <1>1, <1>4, <1>5, <1>6, <1>7, <1>8 DEF ReaderGoes

\* ... its writer, ...
LEMMA WriterKeeps == ASSUME SessionInv, WriterSteps PROVE SessionInv'
<1>1. PICK V \in SUBSET {"reader"} : WriterGoes(V) /\ (Client({"carver"}) => V = {})
  <2>1. \/ WriterGoes({})
        \/ ~Client({"carver"}) /\ WriterGoes({"reader"})
    BY Lab1ClientSteps, Lab2ClientSteps, Lab2RefactorClientSteps, CarverClientSteps,
       ClientSteps DEF SessionInv, WriterSteps, Client
  <2> QED
    BY <2>1
<1>2. PICK W \in SUBSET V : /\ Step("writer", W) /\ tty' = tty
                            /\ pc'["writer"] \in WriterPC
  BY <1>1 DEF WriterGoes, Plain, WriterPC
<1>3. /\ pc["writer"] # "none" /\ pc["reader"] \in After /\ "login" \notin log.killed
  BY <1>1 DEF WriterGoes, SessionInv, ClientPart, PairStarts, UserSpared
<1>4. /\ pc'["reader"] = pc["reader"] \/ (pc'["reader"] = "dying" /\ "reader" \in W)
      /\ log'.killed \subseteq log.killed \cup W
      /\ log'.interrupted = log.interrupted /\ UNCHANGED fixed
  BY <1>2 DEF Step, TypedNext, Procs, ClientSide
<1>5. ClientPart'
  <2>1. PairStarts' /\ UserSpared'
    BY <1>1, <1>2, <1>3, <1>4 DEF PairStarts, UserSpared, After
  <2>2. TerminalKept'
    BY <1>1, <1>2, <1>3, <1>4
       DEF SessionInv, ClientPart, TerminalKept, Client, fixed
  <2> QED
    BY <2>1, <2>2 DEF ClientPart
<1>6. "writer" \in ClientSide /\ Place("writer") = WriterPC
  BY DEF ClientSide, Place
<1> QED
  BY <1>1, <1>2, <1>5, <1>6, ClientSideStep


\* ... the end of a process and what a shell prints, ...
LEMMA KernelKeeps ==
  ASSUME SessionInv, NEW p \in Procs, Gone(p) \/ ShellPrints(p) \/ ShellEnds(p)
  PROVE  SessionInv'
<1>1. CASE Gone(p)
  <2>1. /\ TypedNext /\ Typed' /\ UNCHANGED <<tty, log, fixed>>
        /\ pc[p] = "dying" /\ pc'[p] = "gone"
        /\ \A q \in Procs \ {p} : pc'[q] = pc[q]
        /\ \A q \in Procs : ended'[q] # ended[q] => p \in DOMAIN Parent /\ q = Parent[p]
    BY <1>1, ClosingCalls, TypedStays DEF SessionInv, Typed, TypedNext
  <2>2. PlacesOK'
    <3>1. \A q \in Procs : pc'[q] \in Place(q)
      BY <2>1, Places DEF SessionInv
    <3> QED
      BY <3>1, Places
  <2>3. ServerPart'
    <3>1. Denied => ended'["handler"] = ended["handler"]
      <4>1. p \in DOMAIN Parent /\ "handler" = Parent[p] => p \in {"bash", "relay"}
        BY DEF Parent
      <4>2. Denied => p \notin {"bash", "relay"}
        BY <2>1 DEF SessionInv, ServerPart, NoShellYet
      <4> QED
        BY <2>1, <4>1, <4>2 DEF Procs, ServerSide
    <3>2. Denied => /\ pc'["handler"] \in Early /\ pc'["bash"] = "none"
                    /\ pc'["relay"] = "none"
      BY <2>1 DEF SessionInv, ServerPart, NoShellYet, Early, Procs, ServerSide
    <3>3. NoShellYet'
      <4>1. Denied' = Denied
        BY <2>1, FixedFacts
      <4> QED
        BY <2>1, <3>1, <3>2, <4>1
           DEF SessionInv, ServerPart, NoShellYet, Printed, Outputs
    <3>4. ServerStays'
      BY <2>1 DEF SessionInv, ServerPart, ServerStays, Server, Procs, ServerSide, fixed
    <3> QED
      BY <3>3, <3>4 DEF ServerPart
  <2>4. ClientPart'
    BY <2>1 DEF SessionInv, ClientPart, PairStarts, UserSpared, TerminalKept, Client,
       After, Procs, ClientSide, fixed
  <2> QED
    BY <2>1, <2>2, <2>3, <2>4 DEF SessionInv
<1>2. CASE ShellPrints(p) \/ ShellEnds(p)
  <2>1. pc[p] = "shell"
    BY <1>2 DEF ShellPrints, ShellEnds, IsShell
  <2>2. p \in {"handler", "bash"}
    BY <2>1 DEF SessionInv, PlacesOK, LoginPC, ServerPC, RelayPC, ReaderPC, WriterPC,
       Procs, ClientSide, ServerSide
  <2>3. ~Denied
    BY <2>1, <2>2 DEF SessionInv, ServerPart, NoShellYet, Early
  <2>4. Plain(p) /\ pc'[p] \in {"shell", "dying"}
    BY <1>2, <2>3, ShellSteps DEF SessionInv
  <2>5. Step(p, {}) /\ tty' = tty /\ pc'[p] \in Place(p) /\ pc'["server"] = pc["server"]
    BY <2>2, <2>4 DEF Plain, Step, Place, HandlerPC, BashPC, Procs, ServerSide
  <2>6. p \in ServerSide
    BY <2>2 DEF ServerSide
  <2> QED
    BY <2>3, <2>5, <2>6, ServerSideStep DEF SessionInv, ServerPart, ServerStays
<1> QED
  BY <1>1, <1>2

\* ... and the user.
LEMMA UserKeeps == ASSUME SessionInv, User PROVE SessionInv'
<1>1. CASE \E item \in {"line", "exit", "eof"} : Type(item)
  <2>1. /\ TypedNext /\ Typed' /\ UNCHANGED <<pc, ended, tty>>
        /\ log'.killed = log.killed /\ log'.seen = log.seen
        /\ log'.interrupted = log.interrupted
    BY <1>1, UserSteps, TypedStays DEF SessionInv
  <2>2. PlacesOK'
    BY <2>1 DEF SessionInv, PlacesOK, LoginPC, ServerPC, HandlerPC, BashPC, RelayPC,
       ReaderPC, WriterPC
  <2>3. ServerPart'
    BY <2>1, ServerUnaffected DEF SessionInv
  <2>4. ClientPart'
    BY <2>1, ClientUnaffected DEF SessionInv
  <2> QED
    BY <2>1, <2>2, <2>3, <2>4 DEF SessionInv
<1>2. CASE TypeInterrupt
  <2>1. /\ TypedNext /\ Typed' /\ UNCHANGED <<ended, tty>>
        /\ \A q \in Procs \ ClientSide : pc'[q] = pc[q]
        /\ \A q \in ClientSide : \/ pc'[q] = pc[q]
                                 \/ Alive(q) /\ pc'[q] = "dying"
        /\ log'.killed = log.killed /\ log'.seen = log.seen
        /\ log'.interrupted
    BY <1>2, UserSteps, TypedStays DEF SessionInv
  <2>2. PlacesOK'
    <3>1. \A q \in Procs : pc'[q] \in Place(q)
      BY <2>1, Places DEF SessionInv
    <3> QED
      BY <3>1, Places
  <2>3. ServerPart'
    <3>1. \A q \in ServerSide : pc'[q] = pc[q]
      BY <2>1 DEF Procs, ServerSide, ClientSide
    <3> QED
      BY <2>1, <3>1, ServerUnaffected DEF SessionInv
  <2>4. ClientPart'
    BY <2>1 DEF SessionInv, ClientPart, PairStarts, UserSpared, TerminalKept, Alive,
       After, ClientSide, TypedNext, fixed
  <2> QED
    BY <2>1, <2>2, <2>3, <2>4 DEF SessionInv
<1> QED
  BY <1>1, <1>2 DEF User

\* A step that changes nothing keeps the invariant.
LEMMA StutterKeeps == ASSUME SessionInv, UNCHANGED vars PROVE SessionInv'
<1>1. /\ TypedNext /\ UNCHANGED <<pc, ended, tty, log>>
  BY DEF vars, signals, bytes, tail, fixed, SessionInv, Typed, TypedNext, CargoOK,
     SystemOK
<1>2. PlacesOK'
  BY <1>1 DEF SessionInv, PlacesOK, LoginPC, ServerPC, HandlerPC, BashPC, RelayPC,
     ReaderPC, WriterPC
<1> QED
  BY <1>1, <1>2, TypedStays, ServerUnaffected, ClientUnaffected DEF SessionInv

\* Theorem: the inductive invariant, for every pair of a server and a client
\* program.  What travels is harmless, every process is at a label of its own
\* program, a client without the secret keeps the handler before its fork, the
\* accepting process of labs 1 and 2 stays in its loop, and the reader alone
\* changes the terminal and changes it back.
THEOREM SessionKept == Spec => []SessionInv
<1>1. SessionInv /\ [Next]_vars => SessionInv'
  BY ServerKeeps, HandlerKeeps, ChildrenKeep, ReaderKeeps, WriterKeeps, KernelKeeps,
     UserKeeps, StutterKeeps DEF Next, Progress
<1> QED
  BY InitInv, <1>1, PTL DEF Spec

------------------------------------------------------------------------------
(* What follows from it *)

\* Theorem: every process is at a point of its own program, and what read and write
\* pass on is made of messages.
THEOREM Typing == Spec => []TypeOK
<1>1. SessionInv => TypeOK
  <2>1. ASSUME SessionInv
        PROVE  chan \in [Channels -> Seq(Messages)] /\ buf \in [Procs -> Seq(Messages)]
    BY <2>1, HarmlessMessages, SeqDef DEF SessionInv, Typed, CargoOK
  <2> QED
    BY <2>1 DEF SessionInv, Typed, TypeOK
<1> QED
  BY SessionKept, <1>1, PTL

\* Theorem: handle_client compares the line it read with its SECRET before it forks,
\* so a client with another secret gets no shell and sees no output of one.
THEOREM ShellNeedsSecret == Spec => []ShellOnlyForSecret
<1>1. SessionInv => ShellOnlyForSecret
  BY DEF SessionInv, ServerPart, NoShellYet, ShellOnlyForSecret, Denied, Early, IsShell
<1> QED
  BY SessionKept, <1>1, PTL

\* Theorem: the accepting loop of lab1-server.c and lab2-server.c is never ended by
\* what happens to a session: neither a signal nor an error takes it out.
THEOREM ServerSurvives == Spec => []ServerGoesOn
<1>1. SessionInv => ServerGoesOn
  BY DEF SessionInv, ServerPart, ServerStays, ServerGoesOn, Alive
<1> QED
  BY SessionKept, <1>1, PTL

\* Theorem: kill(getppid(), SIGTERM) in a client reaches the shell the client was
\* started from only when the client could not fork: its child's parent is the client.
THEOREM UserIsSpared == Spec => []SparesTheUser
<1>1. SessionInv => SparesTheUser
  BY DEF SessionInv, ClientPart, UserSpared, SparesTheUser
<1> QED
  BY SessionKept, <1>1, PTL

\* Theorem: the course's client, which registers the restoring of the terminal and
\* waits for its child, leaves the terminal canonical unless it was interrupted.
THEOREM TerminalComesBack == Spec => []TerminalRestored
<1>1. SessionInv => TerminalRestored
  BY DEF SessionInv, ClientPart, PairStarts, TerminalKept, TerminalRestored, Ended, After
<1> QED
  BY SessionKept, <1>1, PTL


================================================================================
