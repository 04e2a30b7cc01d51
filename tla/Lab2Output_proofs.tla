--------------------------- MODULE Lab2Output_proofs ---------------------------
(***************************************************************************)
(* Proof that lab 2's server delivers what the shell printed: whatever the *)
(* user types, whoever is killed and whichever call fails, a client that   *)
(* finds the connection closed in order has been given everything.         *)
(***************************************************************************)
EXTENDS Rembash_proofs

------------------------------------------------------------------------------
(* What a call changes, as far as the output is concerned *)

\* The channels that matter, and what one of them or a buffer holds.
Wires == {"to_server", "to_client", "from_shell"}
Items(s) == {s[i] : i \in 1 .. Len(s)}

\* Nobody holds this end of an established connection any more.
Hung(side) ==
    /\ conn # "none" /\ (side = "server" => conn = "accepted")
    /\ \A p \in Procs : "sock" \in holds[p] => Side(p) # side

\* p goes on at l, and nobody is killed.
Goes(p, l) == pc'[p] = l /\ \A q \in Procs \ {p} : pc'[q] = pc[q]

\* Nothing but labels changes.
Rests ==
    /\ UNCHANGED <<holds, buf, fault, conn, slave>>
    /\ \A c \in Wires : chan'[c] = chan[c]
    /\ log'.printed = log.printed /\ log'.seen = log.seen

\* Only p's own descriptors and buffer change.
Alone(p) ==
    /\ \A q \in Procs \ {p} : holds'[q] = holds[q] /\ buf'[q] = buf[q]
    /\ UNCHANGED <<conn, slave>>
    /\ log'.printed = log.printed

\* p closes D: the end it was the last to hold is gone, and the other end may be reset.
Closes(p, D) ==
    /\ Alone(p) /\ log'.seen = log.seen
    /\ holds'[p] = holds[p] \ D
    /\ buf'[p] \in {buf[p], <<>>}
    /\ \A c \in Wires : chan'[c] \in {chan[c], <<>>}
    /\ chan'["to_client"] # chan["to_client"] =>
         /\ p \in ClientSide /\ "sock" \in D \cap holds[p]
         /\ \A q \in ClientSide \ {p} : "sock" \notin holds[q]
    /\ chan'["from_shell"] # chan["from_shell"] =>
         /\ "master" \in D \cap holds[p]
         /\ \A q \in Procs \ {p} : "master" \notin holds[q]
    /\ \A s \in {"client", "server"} : fault'[s] # fault[s] =>
         /\ fault[s] = "none" /\ s = Other(Side(p)) /\ "sock" \in D \cap holds[p]
         /\ \A q \in Procs \ {p, "login"} : "sock" \in holds[q] => Side(q) # Side(p)

\* What the fault of an end may become in a read or a write of p.
FaultGrows(p) ==
    \A s \in {"client", "server"} : fault'[s] # fault[s] =>
      /\ s = Side(p) /\ fault'[s] = "broken" /\ "sock" \in holds[p]
      /\ fault[s] = "none" => ~EndOpen(Other(s))

\* p reads from d: data, an <eof> that was typed, the end, or an error.
Reads(p, d, got, eof, err) ==
    /\ Alone(p) /\ log'.seen = log.seen /\ holds' = holds /\ FaultGrows(p)
    /\ \A c \in Wires \ {In(p, d)} : chan'[c] = chan[c]
    /\ \/ /\ d \in holds[p] /\ chan[In(p, d)] # <<>> /\ Goes(p, got)
          /\ Items(chan'[In(p, d)]) \cup Items(buf'[p]) \subseteq Items(chan[In(p, d)])
          /\ Items(chan[In(p, d)]) \subseteq Items(chan'[In(p, d)]) \cup Items(buf'[p])
          /\ UNCHANGED fault
       \/ /\ d \in holds[p] /\ chan[In(p, d)] # <<>> /\ Goes(p, eof)
          /\ Items(chan[In(p, d)]) \subseteq Items(chan'[In(p, d)]) \cup {"eof"}
          /\ "eof" \in Items(chan[In(p, d)])
          /\ UNCHANGED <<buf, fault>>
       \/ AtEof(p, d) /\ Goes(p, eof) /\ UNCHANGED <<buf, fault, chan>>
       \/ CannotRead(p, d) /\ Goes(p, err) /\ UNCHANGED <<buf, chan>>

\* p writes data to d.
Writes(p, d, data, next, err) ==
    /\ Alone(p) /\ log'.seen = log.seen /\ holds' = holds /\ buf'[p] = <<>>
    /\ FaultGrows(p)
    /\ \/ /\ Goes(p, next) /\ d \in holds[p] /\ UNCHANGED fault
          /\ chan' = [chan EXCEPT ![Out(p, d)] = @ \o data]
       \/ /\ Goes(p, next) /\ d = "sock" /\ d \in holds[p]
          /\ ~EndOpen(Other(Side(p))) /\ UNCHANGED chan
       \/ /\ Goes(p, err) \/ (Goes(p, "dying") /\ d = "sock")
          /\ d \in holds[p] => d = "sock" /\ fault[Side(p)] # "none"
          /\ UNCHANGED chan

\* Most calls change nothing of this.
LEMMA RestingCalls ==
  ASSUME Typed
  PROVE  /\ \A p \in Procs : \A l : Jump(p, l) => Rests /\ Goes(p, l)
         /\ \A p \in Procs : \A l : ForkFails(p, l) => Rests /\ Goes(p, l)
         /\ \A p \in Procs : \A l : SetupFails(p, l) => Rests /\ Goes(p, l)
         /\ \A p \in Procs : \A child, l : Wait(p, child, l) => Rests /\ Goes(p, l)
         /\ \A p \in Procs : \A l : Catch(p, l) => Rests /\ Goes(p, l)
         /\ \A p \in Procs : \A l : CatchAndIgnorePipe(p, l) => Rests /\ Goes(p, l)
         /\ \A p \in Procs : \A l : IgnoreChildren(p, l) => Rests /\ Goes(p, l)
         /\ \A p \in Procs : \A l : RunHandler(p, l) => Rests /\ Goes(p, l)
         /\ \A p \in Procs : \A mode, l, err :
              SetTty(p, mode, l, err) => Rests /\ (Goes(p, l) \/ Goes(p, err))
         /\ \A p \in Procs : \A V, l : Terminate(p, V, l) =>
              /\ Rests /\ pc'[p] = l
              /\ \A q \in Procs \ {p} : pc'[q] # pc[q] =>
                   q \in V /\ Alive(q) /\ ~IsShell(q) /\ pc'[q] = "dying"
<1> USE DEF Typed, SystemOK, CargoOK, Rests, Goes, Wires, signals, bytes, tail, fixed
<1>1. \A p \in Procs : \A l : Jump(p, l) => Rests /\ Goes(p, l)
  BY DEF Jump, Move
<1>2. \A p \in Procs : \A l : Catch(p, l) => Rests /\ Goes(p, l)
  BY DEF Catch, Move
<1>3. \A p \in Procs : \A l : CatchAndIgnorePipe(p, l) => Rests /\ Goes(p, l)
  BY DEF CatchAndIgnorePipe, Move
<1>4. \A p \in Procs : \A l : IgnoreChildren(p, l) => Rests /\ Goes(p, l)
  BY DEF IgnoreChildren, Move
<1>5. \A p \in Procs : \A l : RunHandler(p, l) => Rests /\ Goes(p, l)
  BY DEF RunHandler, Move
<1>6. ASSUME NEW p \in Procs, NEW mode, NEW l, NEW err, SetTty(p, mode, l, err)
      PROVE  Rests /\ (Goes(p, l) \/ Goes(p, err))
  <2>1. CASE stdin = "file"
    BY <1>1, <1>6, <2>1 DEF SetTty
  <2>2. CASE stdin # "file"
    BY <1>6, <2>2 DEF SetTty, Move, Channels
  <2> QED
    BY <2>1, <2>2
<1>7. ASSUME NEW p \in Procs, NEW V, NEW l, Terminate(p, V, l)
      PROVE  /\ Rests /\ pc'[p] = l
             /\ \A q \in Procs \ {p} : pc'[q] # pc[q] =>
                  q \in V /\ Alive(q) /\ ~IsShell(q) /\ pc'[q] = "dying"
  <2>1. Rests
    BY <1>7 DEF Terminate
  <2>2. /\ pc'[p] = l
        /\ \A q \in Procs \ {p} : pc'[q] # pc[q] =>
             q \in V /\ Alive(q) /\ ~IsShell(q) /\ pc'[q] = "dying"
    BY <1>7 DEF Terminate
  <2> QED
    BY <2>1, <2>2
<1> HIDE DEF Rests, Goes
<1> QED
  BY <1>1, <1>2, <1>3, <1>4, <1>5, <1>6, <1>7 DEF ForkFails, SetupFails, Wait

\* close, and the end of a process.
LEMMA Closing ==
  ASSUME Typed
  PROVE  /\ \A p \in Procs : \A D, l : Close(p, D, l) => Closes(p, D) /\ Goes(p, l)
         /\ \A p \in Procs : Gone(p) => Closes(p, holds[p]) /\ Goes(p, "gone")
<1> USE DEF Typed, SystemOK, CargoOK
<1>1. ASSUME NEW p \in Procs, NEW D, CloseD(p, D)
      PROVE  /\ holds'[p] = holds[p] \ D
             /\ \A q \in Procs \ {p} : holds'[q] = holds[q]
             /\ \A c \in Wires : chan'[c] \in {chan[c], <<>>}
             /\ chan'["to_client"] # chan["to_client"] =>
                  /\ p \in ClientSide /\ "sock" \in D \cap holds[p]
                  /\ \A q \in ClientSide \ {p} : "sock" \notin holds[q]
             /\ chan'["from_shell"] # chan["from_shell"] =>
                  /\ "master" \in D \cap holds[p]
                  /\ \A q \in Procs \ {p} : "master" \notin holds[q]
             /\ \A s \in {"client", "server"} : fault'[s] # fault[s] =>
                  /\ fault[s] = "none" /\ s = Other(Side(p)) /\ "sock" \in D \cap holds[p]
                  /\ \A q \in Procs \ {p, "login"} : "sock" \in holds[q] => Side(q) # Side(p)
  <2> DEFINE last(d, P) == d \in D \cap holds[p] /\ Holders(d) \cap P = {p}
             mine  == IF p \in ClientSide THEN ClientSide ELSE ServerSide
             to    == IF p \in ClientSide THEN "to_client" ELSE "to_server"
             other == Other(Side(p))
  <2>1. /\ holds' = [holds EXCEPT ![p] = @ \ D]
        /\ chan' = [c \in DOMAIN chan |->
                      IF \/ c = to /\ last("sock", mine)
                         \/ c \in {"to_shell", "from_shell"} /\ last("master", Procs)
                         \/ c = "to_shell" /\ last("slave", Procs)
                      THEN <<>> ELSE chan[c]]
        /\ fault' = IF /\ last("sock", mine) /\ chan[to] # <<>>
                       /\ fault[other] = "none" /\ EndOpen(other)
                    THEN [fault EXCEPT ![other] = "reset"] ELSE fault
    BY <1>1 DEF CloseD
  <2>2. holds'[p] = holds[p] \ D /\ \A q \in Procs \ {p} : holds'[q] = holds[q]
    BY <2>1
  <2>3. Wires \subseteq DOMAIN chan
    BY DEF Wires, Channels
  <2>4. \A c \in Wires : chan'[c] \in {chan[c], <<>>}
    BY <2>1, <2>3
  <2>5. chan'["to_client"] # chan["to_client"] =>
          /\ p \in ClientSide /\ "sock" \in D \cap holds[p]
          /\ \A q \in ClientSide \ {p} : "sock" \notin holds[q]
    <3>1. chan'["to_client"] # chan["to_client"] => "to_client" = to /\ last("sock", mine)
      BY <2>1, <2>3 DEF Wires
    <3>2. ClientSide \subseteq Procs
      BY DEF Procs
    <3> QED
      BY <3>1, <3>2 DEF Holders
  <2>6. chan'["from_shell"] # chan["from_shell"] =>
          /\ "master" \in D \cap holds[p]
          /\ \A q \in Procs \ {p} : "master" \notin holds[q]
    <3>1. chan'["from_shell"] # chan["from_shell"] => last("master", Procs)
      BY <2>1, <2>3 DEF Wires
    <3> QED
      BY <3>1 DEF Holders
  <2>7. ASSUME NEW s \in {"client", "server"}, fault'[s] # fault[s]
        PROVE  /\ fault[s] = "none" /\ s = Other(Side(p)) /\ "sock" \in D \cap holds[p]
               /\ \A q \in mine \ {p} : "sock" \notin holds[q]
    <3>1. last("sock", mine) /\ fault[other] = "none" /\ s = other
      BY <2>1, <2>7
    <3>2. mine \subseteq Procs
      BY DEF Procs
    <3> QED
      BY <3>1, <3>2 DEF Holders
  <2>8. \A q \in Procs \ {"login"} : Side(q) = Side(p) => q \in mine
    BY DEF Side, Procs
  <2> QED
    BY <2>2, <2>4, <2>5, <2>6, <2>7, <2>8
<1>2. ASSUME NEW p \in Procs, NEW D, NEW l, Close(p, D, l)
      PROVE  Closes(p, D) /\ Goes(p, l)
  <2>1. /\ CloseD(p, D) /\ UNCHANGED <<buf, conn, slave, log>>
        /\ pc' = [pc EXCEPT ![p] = l]
    BY <1>2 DEF Close, Move, tail
  <2> QED
    BY <1>1, <2>1 DEF Closes, Alone, Goes
<1>3. ASSUME NEW p \in Procs, Gone(p)
      PROVE  Closes(p, holds[p]) /\ Goes(p, "gone")
  <2>1. /\ CloseD(p, holds[p]) /\ UNCHANGED <<conn, slave, log>>
        /\ pc' = [pc EXCEPT ![p] = "gone"] /\ buf' = [buf EXCEPT ![p] = <<>>]
    BY <1>3 DEF Gone, Move, tail
  <2> QED
    BY <1>1, <2>1 DEF Closes, Alone, Goes
<1> QED
  BY <1>2, <1>3

\* What is taken from a sequence and what is left is all of it.
LEMMA TakenAndLeft ==
  ASSUME NEW S, NEW c \in Seq(S), c # <<>>, NEW data \in {<<Head(c)>>, c}
  PROVE  /\ Items(c) \subseteq Items(SubSeq(c, Len(data) + 1, Len(c))) \cup Items(data)
         /\ Items(data) \subseteq Items(c)
         /\ Items(SubSeq(c, Len(data) + 1, Len(c))) \subseteq Items(c)
<1>1. Len(c) \in Nat /\ Len(c) > 0
  BY EmptySeq, LenProperties
<1>2. CASE data = c
  <2>1. Len(SubSeq(c, Len(c) + 1, Len(c))) = 0
    BY <1>1
  <2>2. Items(SubSeq(c, Len(c) + 1, Len(c))) = {}
    BY <2>1 DEF Items
  <2> QED
    BY <1>2, <2>2 DEF Items
<1>3. CASE data = <<Head(c)>>
  <2> DEFINE left == SubSeq(c, 2, Len(c))
  <2>1. Len(data) = 1 /\ data[1] = c[1]
    BY <1>1, <1>3
  <2>2. Len(left) = Len(c) - 1 /\ \A i \in 1 .. Len(c) - 1 : left[i] = c[i + 1]
    <3>1. left = Tail(c)
      BY TailIsSubSeq
    <3>2. /\ Len(Tail(c)) = Len(c) - 1
          /\ \A i \in 1 .. Len(Tail(c)) : Tail(c)[i] = c[i + 1]
      BY HeadTailProperties
    <3> QED
      BY <3>1, <3>2
  <2>3. ASSUME NEW i \in 1 .. Len(c)
        PROVE  c[i] \in Items(left) \cup Items(data)
    <3>1. CASE i = 1
      BY <2>1, <3>1 DEF Items
    <3>2. CASE i # 1
      <4>1. i - 1 \in 1 .. Len(left) /\ left[i - 1] = c[i]
        BY <1>1, <2>2, <3>2
      <4> QED
        BY <4>1 DEF Items
    <3> QED
      BY <3>1, <3>2
  <2>4. Items(c) \subseteq Items(left) \cup Items(data)
    BY <2>3 DEF Items
  <2>5. Items(data) \subseteq Items(c)
    BY <1>1, <2>1 DEF Items
  <2>6. Items(left) \subseteq Items(c)
    <3>1. \A i \in 1 .. Len(left) : i + 1 \in 1 .. Len(c)
      BY <1>1, <2>2
    <3> QED
      BY <1>1, <2>2, <3>1 DEF Items
  <2> QED
    BY <2>1, <2>4, <2>5, <2>6
<1> QED
  BY <1>2, <1>3

\* A read takes from one channel, and what it takes it keeps, but for an <eof>.
LEMMA Reading ==
  ASSUME Typed
  PROVE  /\ \A p \in Procs, d \in {"stdin", "sock", "master"}, exact \in BOOLEAN :
              \A got, eof, err :
                ReadUpTo(p, d, exact, got, eof, err) => Reads(p, d, got, eof, err)
         /\ \A p \in Procs, d \in {"stdin", "sock", "master"} : \A got, eof, err :
              Read(p, d, got, eof, err) => Reads(p, d, got, eof, err)
<1>1. ASSUME NEW p \in Procs, NEW d \in {"stdin", "sock", "master"},
             NEW exact \in BOOLEAN, NEW got, NEW eof, NEW err,
             ReadUpTo(p, d, exact, got, eof, err)
      PROVE  Reads(p, d, got, eof, err)
  <2> DEFINE w == In(p, d)
             data == Taken(p, d, exact)
  <2>1. UNCHANGED <<holds, conn, slave, log>> /\ w \in Channels
    BY <1>1 DEF ReadUpTo, Jump, tail, In, Channels
  <2>2. CASE /\ d \in holds[p] /\ chan[w] # <<>>
             /\ chan' = [chan EXCEPT ![w] = SubSeq(@, Len(data) + 1, Len(@))]
             /\ IF data = <<"eof">>
                THEN Move(p, eof) /\ UNCHANGED buf
                ELSE Move(p, got) /\ buf' = [buf EXCEPT ![p] = data]
             /\ UNCHANGED <<holds, signals, fault, tail>>
    <3>1. chan[w] \in Seq(Harmless) /\ data \in {<<Head(chan[w])>>, chan[w]}
      BY <2>1 DEF Typed, CargoOK, Taken
    <3>2. /\ Items(chan[w]) \subseteq Items(chan'[w]) \cup Items(data)
          /\ Items(data) \subseteq Items(chan[w]) /\ Items(chan'[w]) \subseteq Items(chan[w])
      <4>1. chan'[w] = SubSeq(chan[w], Len(data) + 1, Len(chan[w]))
        BY <2>1, <2>2 DEF Typed, CargoOK
      <4> QED
        BY <2>2, <3>1, <4>1, TakenAndLeft
    <3>3. /\ \A c \in Wires \ {w} : chan'[c] = chan[c]
          /\ FaultGrows(p)
      BY <2>2 DEF Typed, CargoOK, Wires, Channels, FaultGrows
    <3>4. CASE data = <<"eof">>
      <4>1. Items(data) = {"eof"}
        BY <3>4 DEF Items
      <4>2. Goes(p, eof) /\ UNCHANGED buf
        BY <2>2, <3>4 DEF Move, Goes, Typed
      <4> QED
        BY <2>1, <2>2, <3>2, <3>3, <4>1, <4>2 DEF Reads, Alone
    <3>5. CASE data # <<"eof">>
      <4>1. Goes(p, got) /\ buf' = [buf EXCEPT ![p] = data]
        BY <2>2, <3>5 DEF Move, Goes, Typed
      <4>2. buf'[p] = data /\ \A q \in Procs \ {p} : buf'[q] = buf[q]
        BY <4>1 DEF Typed, CargoOK
      <4> QED
        BY <2>1, <2>2, <3>2, <3>3, <4>1, <4>2 DEF Reads, Alone
    <3> QED
      BY <3>4, <3>5
  <2>3. CASE AtEof(p, d) /\ Jump(p, eof)
    BY <2>1, <2>3 DEF Jump, Move, bytes, Goes, Typed, Reads, Alone, FaultGrows
  <2>4. CASE /\ CannotRead(p, d)
             /\ fault' = IF d = "sock" /\ d \in holds[p]
                         THEN [fault EXCEPT ![Side(p)] = "broken"] ELSE fault
             /\ Move(p, err) /\ UNCHANGED <<holds, signals, buf, chan, tail>>
    <3>1. d = "sock" /\ d \in holds[p] => fault[Side(p)] = "reset"
      BY <2>4 DEF CannotRead
    <3>2. FaultGrows(p)
      BY <2>4, <3>1 DEF FaultGrows, Typed, SystemOK, Side
    <3> QED
      BY <2>1, <2>4, <3>2 DEF Move, Goes, Typed, Reads, Alone
  <2> QED
    BY <1>1, <2>2, <2>3, <2>4 DEF ReadUpTo
<1> QED
  BY <1>1 DEF Read

\* A write adds to one channel, unless the other end is gone.
LEMMA Writing ==
  ASSUME Typed
  PROVE  /\ \A p \in Procs, d \in {"sock", "master"} : \A data, next, err :
              Write(p, d, data, next, err) => Writes(p, d, data, next, err)
         /\ \A p \in Procs : \A message, next, err :
              Say(p, message, next, err) => Writes(p, "sock", <<message>>, next, err)
         /\ \A p \in Procs, d \in {"sock", "master"} : \A next, err :
              PassOn(p, d, next, err) => Writes(p, d, buf[p], next, err)
<1>1. ASSUME NEW p \in Procs, NEW d \in {"sock", "master"}, NEW data, NEW next, NEW err,
             Write(p, d, data, next, err)
      PROVE  Writes(p, d, data, next, err)
  <2>1. /\ UNCHANGED <<holds, conn, slave, log>>
        /\ buf'[p] = <<>> /\ \A q \in Procs \ {p} : buf'[q] = buf[q]
    BY <1>1 DEF Write, tail, Typed, CargoOK
  <2>2. Side(p) \in {"client", "server"}
    BY DEF Side
  <2>3. CASE /\ d \in holds[p] /\ (d = "sock" => fault[Side(p)] = "none")
             /\ IF d = "sock" /\ ~EndOpen(Other(Side(p)))
                THEN fault' = [fault EXCEPT ![Side(p)] = "broken"] /\ UNCHANGED chan
                ELSE chan' = [chan EXCEPT ![Out(p, d)] = @ \o data] /\ UNCHANGED fault
             /\ Move(p, next)
    <3>1. Goes(p, next)
      BY <2>3 DEF Move, Goes, Typed
    <3>2. CASE d = "sock" /\ ~EndOpen(Other(Side(p)))
      <4>1. fault' = [fault EXCEPT ![Side(p)] = "broken"] /\ UNCHANGED chan
        BY <2>3, <3>2
      <4>2. FaultGrows(p)
        BY <2>2, <2>3, <3>2, <4>1 DEF FaultGrows, Typed, SystemOK
      <4> QED
        BY <2>1, <2>3, <3>1, <3>2, <4>1, <4>2 DEF Writes, Alone
    <3>3. CASE ~(d = "sock" /\ ~EndOpen(Other(Side(p))))
      <4>1. chan' = [chan EXCEPT ![Out(p, d)] = @ \o data] /\ UNCHANGED fault
        BY <2>3, <3>3
      <4>2. FaultGrows(p)
        BY <4>1 DEF FaultGrows
      <4> QED
        BY <2>1, <2>3, <3>1, <4>1, <4>2 DEF Writes, Alone
    <3> QED
      BY <3>2, <3>3
  <2>4. CASE /\ d \in holds[p] => d = "sock" /\ fault[Side(p)] # "none"
             /\ IF d \in holds[p] /\ fault[Side(p)] = "broken" /\ p \notin deaf
                THEN Move(p, "dying") ELSE Move(p, err)
             /\ fault' = IF d \in holds[p]
                         THEN [fault EXCEPT ![Side(p)] = "broken"] ELSE fault
             /\ UNCHANGED chan
    <3>1. Goes(p, err) \/ (Goes(p, "dying") /\ d = "sock")
      BY <2>4 DEF Move, Goes, Typed
    <3>2. FaultGrows(p)
      BY <2>2, <2>4 DEF FaultGrows, Typed, SystemOK
    <3> QED
      BY <2>1, <2>4, <3>1, <3>2 DEF Writes, Alone
  <2> QED
    BY <1>1, <2>3, <2>4 DEF Write
<1>2. ASSUME NEW p \in Procs, NEW message, NEW next, NEW err, Say(p, message, next, err)
      PROVE  Writes(p, "sock", <<message>>, next, err)
  BY <1>1, <1>2 DEF Say
<1>3. ASSUME NEW p \in Procs, NEW d \in {"sock", "master"}, NEW next, NEW err,
             PassOn(p, d, next, err)
      PROVE  Writes(p, d, buf[p], next, err)
  BY <1>1, <1>3 DEF PassOn
<1> QED
  BY <1>1, <1>2, <1>3

\* The user is shown what the reader has read.
LEMMA Showing ==
  ASSUME Typed
  PROVE  \A p \in Procs : \A l : Show(p, l) =>
           /\ Goes(p, l) /\ Alone(p) /\ UNCHANGED <<holds, fault, chan>>
           /\ buf'[p] = <<>> /\ log'.seen = log.seen \cup Items(buf[p])
<1> SUFFICES ASSUME NEW p \in Procs, NEW l, Show(p, l)
             PROVE  /\ Goes(p, l) /\ Alone(p) /\ UNCHANGED <<holds, fault, chan>>
                    /\ buf'[p] = <<>> /\ log'.seen = log.seen \cup Items(buf[p])
  OBVIOUS
<1>1. /\ log'.seen = log.seen \cup Items(buf[p]) /\ log'.printed = log.printed
  BY DEF Show, Items, Typed, SystemOK
<1>2. Goes(p, l) /\ UNCHANGED <<holds, fault, chan, conn, slave>>
  BY DEF Show, Goes, Move, Typed
<1>3. buf'[p] = <<>> /\ \A q \in Procs \ {p} : buf'[q] = buf[q]
  BY DEF Show, Typed, CargoOK
<1> QED
  BY <1>1, <1>2, <1>3 DEF Alone

\* What the reader opens, the acceptor accepts and the terminal's two ends.
LEMMA Opening ==
  ASSUME Typed
  PROVE  /\ \A p \in Procs : \A l, err : Connect(p, l, err) =>
              \/ Rests /\ Goes(p, err) /\ ~Alive("server")
              \/ /\ Goes(p, l) /\ UNCHANGED <<buf, chan, fault, slave, log>>
                 /\ conn' = "queued" /\ holds' = [holds EXCEPT ![p] = @ \cup {"sock"}]
         /\ \A p \in Procs : \A l : Accept(p, l) =>
              /\ Goes(p, l) /\ UNCHANGED <<buf, chan, fault, slave, log>>
              /\ conn = "queued" /\ conn' = "accepted"
              /\ holds' = [holds EXCEPT ![p] = @ \cup {"sock"}]
         /\ \A p \in Procs : \A l : OpenMaster(p, l) =>
              /\ Goes(p, l) /\ UNCHANGED <<buf, chan, fault, conn, slave, log>>
              /\ holds' = [holds EXCEPT ![p] = @ \cup {"master"}]
         /\ \A p \in Procs : \A l, err : OpenSlave(p, l, err) =>
              \/ Rests /\ Goes(p, err) /\ Holders("master") = {}
              \/ /\ Goes(p, l) /\ UNCHANGED <<buf, chan, fault, conn, log>>
                 /\ Holders("master") # {}
                 /\ slave' = "opened" /\ holds' = [holds EXCEPT ![p] = @ \cup {"slave"}]
<1>1. ASSUME NEW p \in Procs, NEW l, NEW err, Connect(p, l, err)
      PROVE  \/ Rests /\ Goes(p, err) /\ ~Alive("server")
             \/ /\ Goes(p, l) /\ UNCHANGED <<buf, chan, fault, slave, log>>
                /\ conn' = "queued" /\ holds' = [holds EXCEPT ![p] = @ \cup {"sock"}]
  <2>1. CASE ~Alive("server")
    BY <1>1, <2>1, RestingCalls DEF Connect
  <2>2. CASE Alive("server")
    BY <1>1, <2>2 DEF Connect, Move, Goes, Typed, bytes
  <2> QED
    BY <2>1, <2>2
<1>2. ASSUME NEW p \in Procs, NEW l, NEW err, OpenSlave(p, l, err)
      PROVE  \/ Rests /\ Goes(p, err) /\ Holders("master") = {}
             \/ /\ Goes(p, l) /\ UNCHANGED <<buf, chan, fault, conn, log>>
                /\ Holders("master") # {}
                /\ slave' = "opened" /\ holds' = [holds EXCEPT ![p] = @ \cup {"slave"}]
  <2>1. CASE Holders("master") = {}
    BY <1>2, <2>1, RestingCalls DEF OpenSlave
  <2>2. CASE Holders("master") # {}
    BY <1>2, <2>2 DEF OpenSlave, Move, Goes, Typed, bytes
  <2> QED
    BY <2>1, <2>2
<1>3. ASSUME NEW p \in Procs, NEW l, Accept(p, l)
      PROVE  /\ Goes(p, l) /\ UNCHANGED <<buf, chan, fault, slave, log>>
             /\ conn = "queued" /\ conn' = "accepted"
             /\ holds' = [holds EXCEPT ![p] = @ \cup {"sock"}]
  BY <1>3 DEF Accept, Move, Goes, Typed, bytes
<1>4. ASSUME NEW p \in Procs, NEW l, OpenMaster(p, l)
      PROVE  /\ Goes(p, l) /\ UNCHANGED <<buf, chan, fault, conn, slave, log>>
             /\ holds' = [holds EXCEPT ![p] = @ \cup {"master"}]
  BY <1>4 DEF OpenMaster, Move, Goes, Typed, bytes, tail
<1> QED
  BY <1>1, <1>2, <1>3, <1>4

\* A child starts with copies of its parent's descriptors.
LEMMA Forking ==
  ASSUME Typed
  PROVE  \A p, child \in Procs : \A pl, cl : p # child /\ Fork(p, child, pl, cl) =>
           /\ pc'[p] = pl /\ pc'[child] = cl
           /\ \A q \in Procs \ {p, child} : pc'[q] = pc[q]
           /\ UNCHANGED <<buf, chan, fault, conn, slave, log>>
           /\ holds'[child] = holds[p]
           /\ \A q \in Procs \ {child} : holds'[q] = holds[q]
  BY DEF Fork, Typed, SystemOK, bytes, tail

------------------------------------------------------------------------------
(* The invariant *)

\* The sessions the proof is about.  Lab 1's client drops what it reads together
\* with <ok>, and with it perhaps the prompt.
Lab2 == Server({"lab2"}) /\ ~Client({"lab1"})

\* The handler before it forks, while it copies, and when it has stopped.
BeforeBash == {"none", "start", "greet", "greet_failed", "secret", "no_secret",
               "check", "refuse", "ok", "ok_failed", "pty", "fork_bash"}
Copying == {"read", "write"}
Over == {"leave", "kill_relay", "dying", "gone"}

\* Who can hold what, and that an end with a fault has no other end.
WiresOK ==
    /\ "listen" \in holds["server"] /\ holds["login"] = {}
    /\ \A p \in Procs : "master" \in holds[p] => p \in {"handler", "bash", "relay"}
    /\ \A p \in Procs : "slave" \in holds[p] => p = "bash"
    /\ \A p \in Procs : "sock" \in holds[p] =>
         conn # "none" /\ (Side(p) = "server" => conn = "accepted")
    /\ \A s \in {"client", "server"} : fault[s] # "none" => Hung(Other(s))

\* How far the handler is tells which processes there are ...
StagesOK ==
    /\ conn # "accepted" => pc["handler"] = "none" /\ pc["server"] # "fork"
    /\ pc["server"] = "fork" => pc["handler"] = "none"
    /\ pc["handler"] \in BeforeBash \cup Copying \cup Over \cup {"fork_relay", "kill_bash"}
    /\ pc["handler"] \in BeforeBash => pc["bash"] = "none"
    /\ pc["handler"] \in BeforeBash \cup {"fork_relay", "kill_bash"} => pc["relay"] = "none"
    /\ pc["handler"] \in Copying \cup {"fork_relay"} => pc["bash"] # "none"

\* ... and which descriptors it has: it loses the socket only when the client's end
\* is gone, and it is the last to give up the terminal.
HandlerOK ==
    /\ pc["handler"] = "none" => holds["handler"] = {}
    /\ pc["handler"] \notin Over \cup {"kill_bash"} =>
         /\ \A q \in Procs : "master" \in holds[q] => "master" \in holds["handler"]
         /\ slave = "opened" => "master" \in holds["handler"]
    /\ pc["handler"] = "check" /\ buf["handler"] # <<>> => "sock" \in holds["handler"]
    /\ pc["handler"] = "ok" => "sock" \in holds["handler"]
    /\ pc["handler"] = "ok_failed" => fault["server"] # "none"
    /\ pc["handler"] \in {"pty", "fork_bash", "fork_relay"} \cup Copying =>
         "sock" \in holds["handler"] \/ fault["server"] # "none"
    /\ pc["handler"] \notin {"check", "refuse", "ok", "kill_bash", "write"} \cup Over =>
         buf["handler"] = <<>>

\* A shell has printed only where it runs or has run, and to the terminal.
ShellOK ==
    /\ pc["bash"] \in {"none", "start", "setup"} => slave = "new"
    /\ slave = "opened" => pc["bash"] \in {"dying", "gone"} \/ "slave" \in holds["bash"]
    /\ pc["bash"] \in {"exec", "shell"} => slave = "opened"
    /\ slave = "new" \/ pc["bash"] \notin {"shell", "dying", "gone"} => log.printed = 0
    /\ Items(chan["from_shell"]) \subseteq Printed

\* Before the client has sent its secret the handler waits for it.
NotAsked == \/ pc["reader"] \in {"start", "connect", "rembash", "check_id", "secret"}
            \/ pc["reader"] = "raw" /\ ~Client({"carver"})

AskOK ==
    /\ pc["reader"] \in {"start", "connect"} => conn = "none"
    /\ NotAsked =>
         /\ pc["writer"] = "none" /\ pc["bash"] = "none" /\ pc["relay"] = "none"
         /\ pc["handler"] \in Early
         /\ chan["to_server"] = <<>> /\ buf["handler"] = <<>>

\* What the reader is about to read over is no output.
ReaderOK ==
    pc["reader"] \in {"start", "connect", "raw", "ok", "catch", "fork", "read"} =>
      Items(buf["reader"]) \cap Printed = {}

\* The reader goes on reading; the session has failed before there was a relay; the
\* shell will print no more.
Listening ==
    /\ "sock" \in holds["reader"]
    /\ pc["reader"] \in {"start", "connect", "raw", "rembash", "check_id", "secret", "ok",
                         "check_ok", "print", "catch", "fork", "read", "write"}
Lost   == pc["relay"] = "none" /\ pc["handler"] \in {"kill_bash", "dying", "gone"}
Silent == \/ pc["bash"] \in {"dying", "gone"}
          \/ /\ pc["bash"] \in {"start", "setup", "failed"}
             /\ \A q \in Procs : "master" \notin holds[q]

\* What was printed, what has gone to the client, and what is still to be passed on.
Said  == {Outputs[i] : i \in 1 .. log.printed}
Given == log.seen \cup Items(chan["to_client"]) \cup Items(buf["reader"])
Held  == Items(chan["from_shell"]) \cup Items(buf["handler"])

\* Nothing is lost as long as the client listens, and the handler does not stop before
\* everything is on its way.
Conserved ==
    Listening /\ ~Lost => IF pc["handler"] \in Over THEN Silent /\ Said \subseteq Given
                          ELSE Said \subseteq Given \cup Held

Delivering == WiresOK /\ StagesOK /\ HandlerOK /\ ShellOK /\ AskOK /\ ReaderOK /\ Conserved

------------------------------------------------------------------------------
(* Descriptors and faults *)

\* Who is on which side.
LEMMA Sides ==
  /\ \A p \in Procs : Side(p) \in {"client", "server"}
  /\ \A p \in ClientSide : p \in Procs /\ Side(p) = "client"
  /\ \A p \in ServerSide : p \in Procs /\ Side(p) = "server" /\ p \notin ClientSide
  /\ Other("client") = "server" /\ Other("server") = "client"
  /\ "login" \in Procs /\ Side("login") = "server"
  /\ {"reader", "writer"} = ClientSide
  /\ {"server", "handler", "bash", "relay"} = ServerSide
  BY DEF Side, Other, Procs, ClientSide, ServerSide

\* An end nobody holds stays so: there is one connection.
LEMMA EndsHung ==
  ASSUME Typed, WiresOK, NEW s \in {"client", "server"}, conn # "none", ~EndOpen(s)
  PROVE  Hung(s)
<1>1. \A p \in Procs : "sock" \in holds[p] => Side(p) # s
  BY DEF EndOpen, Holders
<1>2. s = "server" => conn = "accepted"
  <2>1. "server" \in Procs
    BY Sides
  <2> QED
    BY <2>1 DEF EndOpen, Holders, WiresOK, Typed, SystemOK
<1> QED
  BY <1>1, <1>2 DEF Hung

\* The descriptors stay in order when they get fewer, as long as an end that
\* becomes faulty does so because the other one has been hung up.
LEMMA WiresShrink ==
  ASSUME WiresOK, UNCHANGED conn, \A q \in Procs : holds'[q] \subseteq holds[q],
         "listen" \in holds'["server"],
         \A s \in {"client", "server"} :
           fault'[s] # fault[s] /\ fault[s] = "none" => Hung(Other(s))'
  PROVE  WiresOK'
<1>1. holds'["login"] = {}
  BY Sides DEF WiresOK
<1>2. \A s \in {"client", "server"} : Hung(s) => Hung(s)'
  BY DEF Hung
<1>3. \A s \in {"client", "server"} : fault'[s] # "none" => Hung(Other(s))'
  BY <1>2, Sides DEF WiresOK
<1> QED
  BY <1>1, <1>3 DEF WiresOK

\* What the calls do to them.
LEMMA WiresStay ==
  ASSUME Typed, WiresOK
  PROVE  /\ Rests => WiresOK'
         /\ \A p \in Procs : \A D :
              Closes(p, D) /\ "listen" \in holds'["server"] => WiresOK'
         /\ \A p \in Procs : Alone(p) /\ holds' = holds /\ FaultGrows(p) => WiresOK'
         /\ \A p \in Procs : \A d, got, eof, err : Reads(p, d, got, eof, err) => WiresOK'
         /\ \A p \in Procs : \A d, data, next, err : Writes(p, d, data, next, err) => WiresOK'
<1>1. Rests => WiresOK'
  BY WiresShrink DEF Rests, WiresOK
<1>2. ASSUME NEW p \in Procs, NEW D, Closes(p, D), "listen" \in holds'["server"]
      PROVE  WiresOK'
  <2>1. UNCHANGED conn /\ \A q \in Procs : holds'[q] \subseteq holds[q]
    BY <1>2 DEF Closes, Alone
  <2>2. ASSUME NEW s \in {"client", "server"}, fault'[s] # fault[s], fault[s] = "none"
        PROVE  Hung(Other(s))'
    <3>1. /\ s = Other(Side(p)) /\ "sock" \in D \cap holds[p]
          /\ \A q \in Procs \ {p, "login"} : "sock" \in holds[q] => Side(q) # Side(p)
      BY <1>2, <2>2 DEF Closes
    <3>2. Other(s) = Side(p) /\ conn # "none" /\ (Side(p) = "server" => conn = "accepted")
      BY <3>1, Sides DEF WiresOK
    <3>3. "sock" \notin holds'[p] /\ "sock" \notin holds'["login"]
      BY <1>2, <2>1, <3>1, Sides DEF Closes, WiresOK
    <3>4. \A q \in Procs : "sock" \in holds'[q] => Side(q) # Side(p)
      BY <2>1, <3>1, <3>3
    <3> QED
      BY <2>1, <3>2, <3>4 DEF Hung
  <2> QED
    BY <1>2, <2>1, <2>2, WiresShrink
<1>3. ASSUME NEW p \in Procs, Alone(p), holds' = holds, FaultGrows(p)
      PROVE  WiresOK'
  <2>1. UNCHANGED conn /\ "listen" \in holds'["server"]
    BY <1>3 DEF Alone, WiresOK
  <2>2. ASSUME NEW s \in {"client", "server"}, fault'[s] # fault[s], fault[s] = "none"
        PROVE  Hung(Other(s))'
    <3>1. "sock" \in holds[p] /\ ~EndOpen(Other(s))
      BY <1>3, <2>2 DEF FaultGrows
    <3>2. conn # "none" /\ Other(s) \in {"client", "server"}
      BY <3>1, Sides DEF WiresOK
    <3>3. Hung(Other(s))
      BY <3>1, <3>2, EndsHung
    <3> QED
      BY <1>3, <2>1, <3>3 DEF Hung
  <2> QED
    BY <1>3, <2>1, <2>2, WiresShrink
<1> QED
  BY <1>1, <1>2, <1>3 DEF Reads, Writes

\* A fault stays.
LEMMA FaultsStay ==
  ASSUME Typed
  PROVE  /\ Rests => fault' = fault
         /\ \A p \in Procs : \A D : Closes(p, D) =>
              \A s \in {"client", "server"} : fault[s] # "none" => fault'[s] # "none"
         /\ \A p \in Procs : FaultGrows(p) =>
              \A s \in {"client", "server"} : fault[s] # "none" => fault'[s] # "none"
  BY DEF Rests, Closes, FaultGrows

\* The three calls that give a process a descriptor of the connection, and the two
\* that open the terminal.
LEMMA WiresOpen ==
  ASSUME Typed, WiresOK
  PROVE  /\ \A p, child \in Procs :
              /\ Side(child) = Side(p) /\ child \notin {"server", "login"}
              /\ "slave" \notin holds[p] /\ ("master" \in holds[p] => child \in {"bash", "relay"})
              /\ UNCHANGED <<conn, fault>>
              /\ holds'[child] = holds[p]
              /\ \A q \in Procs \ {child} : holds'[q] = holds[q]
              => WiresOK'
         /\ /\ conn = "none" /\ conn' = "queued" /\ UNCHANGED fault
            /\ holds' = [holds EXCEPT !["reader"] = @ \cup {"sock"}]
            => WiresOK'
         /\ /\ conn = "queued" /\ conn' = "accepted" /\ UNCHANGED fault
            /\ holds' = [holds EXCEPT !["server"] = @ \cup {"sock"}]
            => WiresOK'
         /\ /\ UNCHANGED <<conn, fault>>
            /\ holds' = [holds EXCEPT !["handler"] = @ \cup {"master"}]
            => WiresOK'
         /\ /\ UNCHANGED <<conn, fault>>
            /\ holds' = [holds EXCEPT !["bash"] = @ \cup {"slave"}]
            => WiresOK'
<1> USE DEF Typed, SystemOK
<1>1. ASSUME NEW p \in Procs, NEW child \in Procs,
             Side(child) = Side(p), child \notin {"server", "login"},
             "slave" \notin holds[p], "master" \in holds[p] => child \in {"bash", "relay"},
             UNCHANGED <<conn, fault>>,
             holds'[child] = holds[p],
             \A q \in Procs \ {child} : holds'[q] = holds[q]
      PROVE  WiresOK'
  <2>1. \A s \in {"client", "server"} : Hung(s) => Hung(s)'
    BY <1>1 DEF Hung
  <2> QED
    BY <1>1, <2>1, Sides DEF WiresOK, ServerSide
<1>2. ASSUME conn = "none", conn' = "queued", UNCHANGED fault,
             holds' = [holds EXCEPT !["reader"] = @ \cup {"sock"}]
      PROVE  WiresOK'
  <2>1. \A s \in {"client", "server"} : fault[s] = "none"
    BY <1>2 DEF WiresOK, Hung
  <2>2. "reader" \in Procs /\ Side("reader") = "client"
    BY Sides
  <2> QED
    BY <1>2, <2>1, <2>2, Sides DEF WiresOK
<1>3. ASSUME conn = "queued", conn' = "accepted", UNCHANGED fault,
             holds' = [holds EXCEPT !["server"] = @ \cup {"sock"}]
      PROVE  WiresOK'
  <2>1. fault["client"] = "none"
    BY <1>3, Sides DEF WiresOK, Hung
  <2>2. Hung("client") => Hung("client")'
    BY <1>3, Sides DEF Hung
  <2>3. \A s \in {"client", "server"} : fault[s] # "none" => Hung(Other(s))'
    BY <2>1, <2>2, Sides DEF WiresOK
  <2> QED
    BY <1>3, <2>3, Sides DEF WiresOK
<1>4. ASSUME UNCHANGED <<conn, fault>>,
             \/ holds' = [holds EXCEPT !["handler"] = @ \cup {"master"}]
             \/ holds' = [holds EXCEPT !["bash"] = @ \cup {"slave"}]
      PROVE  WiresOK'
  <2>1. \A q \in Procs : "sock" \in holds'[q] <=> "sock" \in holds[q]
    BY <1>4
  <2>2. \A s \in {"client", "server"} : Hung(s) => Hung(s)'
    BY <1>4, <2>1 DEF Hung
  <2>3. \A s \in {"client", "server"} : fault'[s] # "none" => Hung(Other(s))'
    BY <1>4, <2>2, Sides DEF WiresOK
  <2>4. /\ "listen" \in holds'["server"] /\ holds'["login"] = {}
        /\ \A q \in Procs : "sock" \in holds'[q] =>
             conn' # "none" /\ (Side(q) = "server" => conn' = "accepted")
    BY <1>4, <2>1, Sides DEF WiresOK
  <2>5. /\ \A q \in Procs : "master" \in holds'[q] => q \in {"handler", "bash", "relay"}
        /\ \A q \in Procs : "slave" \in holds'[q] => q = "bash"
    BY <1>4 DEF WiresOK
  <2> QED
    BY <2>3, <2>4, <2>5 DEF WiresOK
<1> QED
  BY <1>1, <1>2, <1>3, <1>4

------------------------------------------------------------------------------
(* Steps that leave the handler and the reader where they are *)

\* Which programs a session runs is settled at its start.
LEMMA ProgramsStay ==
  ASSUME UNCHANGED fixed
  PROVE  (Lab2' <=> Lab2) /\ (Client({"carver"})' <=> Client({"carver"}))
  BY DEF fixed, Lab2, Server, Client

\* The shell's part, when it does not move.
LEMMA ShellAside ==
  ASSUME ShellOK, pc'["bash"] = pc["bash"], holds'["bash"] = holds["bash"],
         slave' = slave, log'.printed = log.printed,
         chan'["from_shell"] \in {chan["from_shell"], <<>>}
  PROVE  ShellOK'
<1>1. Items(chan'["from_shell"]) \subseteq Printed
  <2>1. Items(<<>>) = {}
    BY DEF Items
  <2> QED
    BY <2>1 DEF ShellOK
<1>2. Items(chan["from_shell"])' \subseteq Printed'
  BY <1>1 DEF Items, Printed, Outputs
<1> QED
  BY <1>2 DEF ShellOK

\* The reader's part, when it does not move.
LEMMA ReaderAside ==
  ASSUME ReaderOK, pc'["reader"] = pc["reader"], buf'["reader"] = buf["reader"]
  PROVE  ReaderOK'
  BY DEF ReaderOK, Items, Printed, Outputs

\* Before the secret is asked for, and while the reader does not move.
LEMMA AskAside ==
  ASSUME AskOK, UNCHANGED fixed, pc'["reader"] = pc["reader"],
         conn' = conn \/ conn # "none",
         NotAsked => /\ pc'["writer"] = "none" /\ pc'["bash"] = "none" /\ pc'["relay"] = "none"
                     /\ pc'["handler"] \in Early
                     /\ chan'["to_server"] = <<>> /\ buf'["handler"] = <<>>
  PROVE  AskOK'
<1>1. NotAsked' <=> NotAsked
  BY ProgramsStay DEF NotAsked
<1> QED
  BY <1>1 DEF AskOK

\* A step that leaves the handler and the reader where they are, neither opens the
\* terminal nor takes anything from the channels between them, keeps all of it.
LEMMA Undisturbed ==
  ASSUME Delivering, UNCHANGED fixed, WiresOK', ShellOK',
         \A q \in {"reader", "writer", "handler"} : pc'[q] = pc[q],
         \A q \in {"reader", "handler"} : holds'[q] = holds[q] /\ buf'[q] = buf[q],
         \A q \in {"bash", "relay"} : pc[q] = "none" <=> pc'[q] = "none",
         \A q \in Procs : "master" \in holds'[q] => "master" \in holds[q],
         \/ slave' = slave
         \/ "master" \in holds["handler"] \/ pc["handler"] \in Over \cup {"kill_bash"},
         fault["server"] # "none" => fault'["server"] # "none",
         conn' = conn \/ (conn = "queued" /\ conn' = "accepted"),
         conn' # "accepted" => pc'["server"] # "fork",
         pc'["server"] = "fork" => pc["handler"] = "none",
         log'.printed = log.printed, log'.seen = log.seen,
         chan["to_server"] = <<>> => chan'["to_server"] = <<>>,
         "sock" \in holds["reader"] => chan'["to_client"] = chan["to_client"],
         pc["handler"] \notin Over \cup {"kill_bash"} =>
           chan'["from_shell"] = chan["from_shell"],
         Silent => Silent'
  PROVE  Delivering'
<1>1. StagesOK'
  BY DEF Delivering, StagesOK
<1>2. HandlerOK'
  BY DEF Delivering, HandlerOK
<1>3. ReaderOK'
  BY ReaderAside DEF Delivering
<1>4. AskOK'
  <2>1. AskOK /\ (conn' = conn \/ conn # "none") /\ pc'["reader"] = pc["reader"]
    BY DEF Delivering
  <2>2. ASSUME NotAsked
        PROVE  /\ pc'["writer"] = "none" /\ pc'["bash"] = "none" /\ pc'["relay"] = "none"
               /\ pc'["handler"] \in Early
               /\ chan'["to_server"] = <<>> /\ buf'["handler"] = <<>>
    BY <2>1, <2>2 DEF AskOK
  <2> QED
    BY <2>1, <2>2, AskAside
<1>5. Conserved'
  <2> SUFFICES ASSUME Listening', ~Lost'
               PROVE  IF pc'["handler"] \in Over THEN Silent' /\ Said' \subseteq Given'
                      ELSE Said' \subseteq Given' \cup Held'
    BY DEF Conserved
  <2>1. Listening /\ ~Lost
    BY DEF Listening, Lost
  <2>2. Said' = Said /\ Given' = Given
    BY <2>1 DEF Said, Given, Listening, Items, Outputs
  <2>3. pc["handler"] \notin Over => Held' = Held
    <3>1. ASSUME pc["handler"] \notin Over PROVE pc["handler"] # "kill_bash"
      BY <2>1, <3>1 DEF Lost, Delivering, StagesOK
    <3> QED
      BY <3>1 DEF Held, Items
  <2> QED
    BY <2>1, <2>2, <2>3 DEF Delivering, Conserved
<1> QED
  BY <1>1, <1>2, <1>3, <1>4, <1>5 DEF Delivering

\* The end of a process that is not the handler, or what it closes, as long as the
\* handler keeps the terminal open: from_shell loses nothing.
LEMMA OthersClose ==
  ASSUME SessionInv, Lab2, Delivering, UNCHANGED fixed,
         NEW p \in {"server", "bash", "relay"},
         NEW D, Closes(p, D), NEW l, Goes(p, l), pc[p] # "none", l # "none",
         p = "server" => l # "fork" /\ "listen" \notin D,
         p = "bash" => /\ pc["bash"] \in {"start", "dying"}
                       /\ IF pc["bash"] = "dying" THEN l = "gone"
                          ELSE l \in {"setup", "dying"} /\ "slave" \notin D
  PROVE  Delivering'
<1> USE DEF SessionInv
<1>1. p \in ServerSide /\ p \in Procs
  BY Sides
<1>2. /\ \A q \in Procs \ {p} : holds'[q] = holds[q] /\ buf'[q] = buf[q] /\ pc'[q] = pc[q]
      /\ holds'[p] \subseteq holds[p] /\ holds'[p] = holds[p] \ D /\ pc'[p] = l
      /\ UNCHANGED <<conn, slave>> /\ log'.printed = log.printed /\ log'.seen = log.seen
  BY DEF Closes, Alone, Goes
<1>3. \A q \in Procs : "master" \in holds'[q] => "master" \in holds[q]
  BY <1>2
<1>4. WiresOK'
  <2>1. "listen" \in holds'["server"]
    BY <1>2, Sides DEF Delivering, WiresOK
  <2> QED
    BY <1>1, <2>1, WiresStay DEF Delivering
<1>5. /\ chan'["to_server"] \in {chan["to_server"], <<>>}
      /\ chan'["to_client"] = chan["to_client"]
      /\ chan'["from_shell"] \in {chan["from_shell"], <<>>}
  BY <1>1, Sides DEF Closes, Wires
<1>6. pc["handler"] \notin Over \cup {"kill_bash"} => chan'["from_shell"] = chan["from_shell"]
  BY <1>1, Sides DEF Closes, Delivering, HandlerOK
<1>7. fault["server"] # "none" => fault'["server"] # "none"
  BY <1>1, FaultsStay
<1>8. ShellOK'
  <2>1. CASE p # "bash"
    BY <1>2, <1>5, <2>1, Sides, ShellAside DEF Delivering
  <2>2. Items(chan'["from_shell"]) \subseteq Printed
    <3>1. Items(<<>>) = {}
      BY DEF Items
    <3> QED
      BY <1>5, <3>1 DEF Delivering, ShellOK
  <2>3. CASE p = "bash" /\ pc["bash"] = "dying"
    <3>1. pc'["bash"] = "gone" /\ slave' = slave /\ log'.printed = log.printed
      BY <1>2, <2>3
    <3>2. slave' = "new" => log'.printed = 0
      BY <2>3, <3>1 DEF Delivering, ShellOK
    <3> QED
      BY <2>2, <3>1, <3>2 DEF ShellOK, Items, Printed, Outputs
  <2>4. CASE p = "bash" /\ pc["bash"] = "start"
    <3>1. slave = "new" /\ log.printed = 0 /\ pc'["bash"] \in {"setup", "dying"}
      BY <1>2, <2>4 DEF Delivering, ShellOK
    <3> QED
      BY <1>2, <2>2, <3>1 DEF ShellOK, Items, Printed, Outputs
  <2> QED
    BY <2>1, <2>3, <2>4
<1>9. Silent => Silent'
  BY <1>2, <1>3, Sides DEF Silent
<1>10. /\ \A q \in {"reader", "writer", "handler"} :
            pc'[q] = pc[q] /\ holds'[q] = holds[q] /\ buf'[q] = buf[q]
       /\ \A q \in {"bash", "relay"} : pc[q] = "none" <=> pc'[q] = "none"
  BY <1>2, Sides
<1>11. pc'["server"] = "fork" => pc["handler"] = "none" /\ conn = "accepted"
  BY <1>2, Sides DEF Delivering, StagesOK
<1> QED
  BY <1>2, <1>3, <1>4, <1>5, <1>6, <1>7, <1>8, <1>9, <1>10, <1>11, Undisturbed

\* The acceptor.
LEMMA MainDelivers ==
  ASSUME SessionInv, Lab2, Delivering, UNCHANGED fixed, L2S!Main
  PROVE  Delivering'
<1> USE DEF SessionInv
<1>1. CASE At("server", "accept") /\ Accept("server", "fork")
  <2>1. /\ Goes("server", "fork") /\ UNCHANGED <<buf, chan, fault, slave, log>>
        /\ conn = "queued" /\ conn' = "accepted"
        /\ holds' = [holds EXCEPT !["server"] = @ \cup {"sock"}]
    BY <1>1, Opening, Sides
  <2>2. WiresOK'
    BY <2>1, WiresOpen DEF Delivering
  <2>3. \A q \in Procs \ {"server"} : holds'[q] = holds[q] /\ pc'[q] = pc[q]
    BY <2>1 DEF Goes, Typed, SystemOK
  <2>4. \A q \in Procs : "master" \in holds'[q] => "master" \in holds[q]
    BY <2>1, <2>2, <2>3 DEF WiresOK
  <2>5. ShellOK'
    BY <2>1, <2>3, Sides, ShellAside DEF Delivering
  <2>6. Silent => Silent'
    BY <2>3, <2>4, Sides DEF Silent
  <2>7. pc["handler"] = "none"
    BY <2>1 DEF Delivering, StagesOK
  <2> QED
    BY <2>1, <2>2, <2>3, <2>4, <2>5, <2>6, <2>7, Sides, Undisturbed
<1>2. CASE At("server", "fork") /\ Fork("server", "handler", "close", "start")
  <2>1. /\ pc'["server"] = "close" /\ pc'["handler"] = "start"
        /\ \A q \in Procs \ {"server", "handler"} : pc'[q] = pc[q]
        /\ UNCHANGED <<buf, chan, fault, conn, slave, log>>
        /\ holds'["handler"] = holds["server"]
        /\ \A q \in Procs \ {"handler"} : holds'[q] = holds[q]
    BY <1>2, Forking, Sides
  <2>2. WiresOK'
    <3>1. "slave" \notin holds["server"] /\ "master" \notin holds["server"]
      BY Sides DEF Delivering, WiresOK
    <3> QED
      BY <2>1, <3>1, Sides, WiresOpen DEF Delivering
  <2>3. /\ pc["handler"] = "none" /\ pc["bash"] = "none" /\ pc["relay"] = "none"
        /\ conn = "accepted" /\ buf["handler"] = <<>>
    BY <1>2 DEF At, Delivering, StagesOK, HandlerOK, BeforeBash, Copying, Over
  <2>4. StagesOK'
    BY <2>1, <2>3, Sides DEF StagesOK, BeforeBash, Copying
  <2>5. HandlerOK'
    <3>1. \A q \in Procs : "master" \in holds'[q] => "master" \in holds'["handler"]
      BY <2>1, <2>3, Sides DEF Delivering, HandlerOK, WiresOK, BeforeBash, Copying, Over
    <3>2. slave' = "new"
      BY <2>1, <2>3 DEF Delivering, ShellOK
    <3> QED
      BY <2>1, <2>3, <3>1, <3>2 DEF HandlerOK, Copying, Over
  <2>6. ShellOK' /\ ReaderOK'
    BY <2>1, Sides, ShellAside, ReaderAside DEF Delivering
  <2>7. AskOK'
    BY <2>1, <2>3, Sides, AskAside DEF Delivering, AskOK, Early
  <2>8. Conserved'
    <3>1. log.printed = 0
      BY <2>3 DEF Delivering, ShellOK
    <3>2. Said' = {}
      BY <2>1, <3>1 DEF Said
    <3> QED
      BY <2>1, <3>2 DEF Conserved, Over
  <2> QED
    BY <2>2, <2>4, <2>5, <2>6, <2>7, <2>8 DEF Delivering
<1>3. CASE At("server", "fork") /\ ForkFails("server", "close")
  <2>1. Rests /\ Goes("server", "close")
    BY <1>3, RestingCalls, Sides
  <2>2. WiresOK' /\ (\A q \in Procs \ {"server"} : pc'[q] = pc[q])
    BY <2>1, WiresStay DEF Delivering, Goes
  <2>3. ShellOK'
    BY <2>1, <2>2, Sides, ShellAside DEF Delivering, Rests, Wires
  <2>4. Silent => Silent'
    BY <2>1, <2>2, Sides DEF Silent, Rests
  <2> QED
    BY <2>1, <2>2, <2>3, <2>4, Sides, Undisturbed DEF Rests, Goes, Wires
<1>4. CASE At("server", "close") /\ Close("server", {"sock"}, "accept")
  <2>1. Closes("server", {"sock"}) /\ Goes("server", "accept")
    BY <1>4, Closing, Sides
  <2> QED
    BY <1>4, <2>1, OthersClose DEF At
<1> QED
  BY <1>1, <1>2, <1>3, <1>4, L2SCalls DEF L2S!Main

------------------------------------------------------------------------------
(* The handler *)

\* Before there is a shell nothing has been printed, and should the handler end, no
\* relay is ever started.
LEMMA EarlyHandler ==
  ASSUME SessionInv, Delivering, UNCHANGED fixed, NEW l, Goes("handler", l),
         pc["handler"] \in BeforeBash \ {"none"}, l \in (BeforeBash \ {"none"}) \cup {"dying"},
         Alone("handler"), WiresOK', HandlerOK',
         chan'["from_shell"] \in {chan["from_shell"], <<>>},
         NotAsked => /\ l \in Early /\ chan'["to_server"] = <<>> /\ buf'["handler"] = <<>>
  PROVE  Delivering'
<1>1. /\ \A q \in Procs \ {"handler"} :
           pc'[q] = pc[q] /\ holds'[q] = holds[q] /\ buf'[q] = buf[q]
      /\ UNCHANGED <<conn, slave>> /\ log'.printed = log.printed /\ pc'["handler"] = l
  BY DEF Goes, Alone
<1>2. pc["bash"] = "none" /\ pc["relay"] = "none" /\ conn = "accepted" /\ log.printed = 0
  BY DEF Delivering, StagesOK, ShellOK
<1>3. StagesOK'
  BY <1>1, <1>2, Sides DEF Delivering, StagesOK, Over, Copying, BeforeBash
<1>4. ShellOK' /\ ReaderOK'
  BY <1>1, Sides, ShellAside, ReaderAside DEF Delivering
<1>5. AskOK'
  BY <1>1, <1>2, Sides, AskAside DEF Delivering, AskOK
<1>6. Conserved'
  <2>1. Said' = {}
    BY <1>1, <1>2 DEF Said
  <2>2. l \in Over => Lost'
    BY <1>1, <1>2, Sides DEF Lost, Over, BeforeBash
  <2> QED
    BY <1>1, <2>1, <2>2 DEF Conserved
<1> QED
  BY <1>3, <1>4, <1>5, <1>6 DEF Delivering

\* handle_protocol.
LEMMA ProtocolDelivers ==
  ASSUME SessionInv, Lab2, Delivering, UNCHANGED fixed, L2S!handle_protocol
  PROVE  Delivering'
<1> USE DEF SessionInv
<1> DEFINE h == "handler"
<1>0. h \in Procs /\ h \in ServerSide /\ Side(h) = "server"
      /\ (NotAsked => chan["to_server"] = <<>> /\ buf[h] = <<>>)
      /\ In(h, "sock") = "to_server" /\ Out(h, "sock") = "to_client" /\ "server" # h
  BY Sides DEF In, Out, Delivering, AskOK
<1>1. ASSUME NEW D \in {{"listen"}, {"sock"}}, NEW l, Close(h, D, l),
             <<pc[h], D, l>> \in {<<"start", {"listen"}, "greet">>,
                                 <<"greet_failed", {"sock"}, "secret">>,
                                 <<"no_secret", {"sock"}, "check">>,
                                 <<"ok_failed", {"sock"}, "pty">>}
      PROVE  Delivering'
  <2>1. Closes(h, D) /\ Goes(h, l)
    BY <1>0, <1>1, Closing
  <2>2. /\ \A q \in Procs \ {h} : holds'[q] = holds[q] /\ buf'[q] = buf[q]
        /\ holds'[h] = holds[h] \ D /\ buf'[h] \in {buf[h], <<>>} /\ pc'[h] = l
    BY <2>1 DEF Closes, Alone, Goes
  <2>3. WiresOK' /\ (fault["server"] # "none" => fault'["server"] # "none")
    BY <1>0, <2>1, <2>2, WiresStay, FaultsStay, Sides DEF Delivering, WiresOK
  <2>4. HandlerOK'
    <3>1. /\ \A q \in Procs : "master" \in holds'[q] <=> "master" \in holds[q]
          /\ slave' = slave
      BY <2>1, <2>2 DEF Closes, Alone
    <3>2. /\ pc[h] \in {"start", "greet_failed", "no_secret", "ok_failed"}
          /\ l \in {"greet", "secret", "check", "pty"} /\ (l = "pty" => pc[h] = "ok_failed")
      BY <1>1
    <3>3. buf[h] = <<>> /\ (pc[h] = "ok_failed" => fault["server"] # "none")
      BY <3>2 DEF Delivering, HandlerOK, Over
    <3> QED
      BY <2>2, <2>3, <3>1, <3>2, <3>3 DEF Delivering, HandlerOK, Over, Copying
  <2>5. /\ chan'["to_server"] \in {chan["to_server"], <<>>}
        /\ chan'["from_shell"] \in {chan["from_shell"], <<>>}
    BY <2>1 DEF Closes, Wires
  <2>6. /\ pc[h] \in BeforeBash \ {"none"} /\ l \in BeforeBash \ {"none"}
        /\ NotAsked => l \in Early
    BY <1>1 DEF BeforeBash, Early, Delivering, AskOK
  <2> QED
    BY <1>0, <2>1, <2>2, <2>3, <2>4, <2>5, <2>6, EarlyHandler DEF Closes
<1>2. ASSUME NEW message, NEW next, NEW err, Say(h, message, next, err),
             <<pc[h], next, err>> \in {<<"greet", "secret", "greet_failed">>,
                                      <<"refuse", "dying", "dying">>,
                                      <<"ok", "pty", "ok_failed">>}
      PROVE  Delivering'
  <2>1. Writes(h, "sock", <<message>>, next, err)
    BY <1>0, <1>2, Writing
  <2>2. PICK l \in {next, err, "dying"} : Goes(h, l)
    BY <2>1 DEF Writes
  <2>3. /\ Alone(h) /\ holds' = holds /\ slave' = slave /\ buf'[h] = <<>> /\ WiresOK'
        /\ fault["server"] # "none" => fault'["server"] # "none"
    BY <1>0, <2>1, WiresStay, FaultsStay DEF Writes, Delivering, Alone
  <2>4. HandlerOK'
    <3>1. pc[h] = "ok" => "sock" \in holds[h]
      BY DEF Delivering, HandlerOK
    <3>2. l = "ok_failed" => fault["server"] # "none"
      <4>1. ASSUME l = "ok_failed" PROVE pc[h] = "ok" /\ err = "ok_failed" /\ next # l
        BY <1>2, <4>1
      <4> QED
        BY <1>0, <2>1, <2>2, <3>1, <4>1 DEF Writes, Goes
    <3>3. /\ pc[h] \in {"greet", "refuse", "ok"} /\ pc'[h] = l
          /\ l \in {"secret", "greet_failed", "dying", "pty", "ok_failed"}
          /\ l = "pty" => pc[h] = "ok"
      BY <1>2, <2>2 DEF Goes
    <3> QED
      BY <2>3, <3>1, <3>2, <3>3 DEF Delivering, HandlerOK, Over, Copying
  <2>5. chan'["to_server"] = chan["to_server"] /\ chan'["from_shell"] = chan["from_shell"]
    BY <1>0, <2>1 DEF Writes, Typed, CargoOK, Channels
  <2>6. /\ pc[h] \in BeforeBash \ {"none"} /\ l \in (BeforeBash \ {"none"}) \cup {"dying"}
        /\ NotAsked => l \in Early
    BY <1>2 DEF BeforeBash, Early, Delivering, AskOK
  <2> QED
    BY <1>0, <2>2, <2>3, <2>4, <2>5, <2>6, EarlyHandler
<1>3. CASE At(h, "secret") /\ Read(h, "sock", "check", "check", "no_secret")
  <2>1. Reads(h, "sock", "check", "check", "no_secret")
    BY <1>0, <1>3, Reading
  <2>2. PICK l \in {"check", "no_secret"} : Goes(h, l)
    BY <2>1 DEF Reads
  <2>3. /\ Alone(h) /\ holds' = holds /\ slave' = slave /\ WiresOK'
        /\ fault["server"] # "none" => fault'["server"] # "none"
    BY <1>0, <2>1, WiresStay, FaultsStay DEF Reads, Delivering, Alone
  <2>4. buf[h] = <<>> /\ pc[h] = "secret" /\ pc'[h] = l
    BY <1>3, <2>2 DEF At, Goes, Delivering, HandlerOK, Over
  <2>5. buf'[h] # <<>> => "sock" \in holds[h] /\ l = "check"
    BY <2>1, <2>2, <2>4 DEF Reads, Goes
  <2>6. HandlerOK'
    BY <2>3, <2>4, <2>5 DEF Delivering, HandlerOK, Over, Copying
  <2>7. /\ chan'["from_shell"] = chan["from_shell"]
        /\ NotAsked => chan'["to_server"] = <<>> /\ buf'[h] = <<>>
    BY <1>0, <2>1 DEF Reads, Wires
  <2>8. l \in Early /\ l \in BeforeBash \ {"none"} /\ pc[h] \in BeforeBash \ {"none"}
    BY <2>4 DEF Early, BeforeBash
  <2> QED
    BY <2>2, <2>3, <2>6, <2>7, <2>8, EarlyHandler
<1>4. ASSUME At(h, "check"), NEW l \in {"ok", "refuse"}, Jump(h, l),
             l = "ok" => buf[h] = <<L2S!SECRET>>
      PROVE  Delivering'
  <2>1. Rests /\ Goes(h, l) /\ pc[h] = "check" /\ pc'[h] = l
    BY <1>0, <1>4, RestingCalls DEF At, Goes
  <2>2. WiresOK' /\ Alone(h)
    BY <2>1, WiresStay DEF Delivering, Rests, Alone
  <2>3. l = "ok" => "sock" \in holds[h] /\ ~NotAsked
    <3>1. <<L2S!SECRET>> # <<>>
      OBVIOUS
    <3> QED
      BY <1>0, <1>4, <2>1, <3>1 DEF Delivering, HandlerOK
  <2>4. HandlerOK'
    BY <2>1, <2>3 DEF Delivering, HandlerOK, Over, Copying, Rests
  <2>5. /\ pc[h] \in BeforeBash \ {"none"} /\ l \in BeforeBash \ {"none"}
        /\ NotAsked => l \in Early
    BY <1>4, <2>1, <2>3 DEF BeforeBash, Early
  <2> QED
    BY <1>0, <2>1, <2>2, <2>4, <2>5, EarlyHandler DEF Rests, Wires
<1>5. \/ At(h, "start") /\ Close(h, {"listen"}, "greet")
      \/ At(h, "greet") /\ Say(h, "rembash", "secret", "greet_failed")
      \/ At(h, "greet_failed") /\ Close(h, {"sock"}, "secret")
      \/ At(h, "secret") /\ Read(h, "sock", "check", "check", "no_secret")
      \/ At(h, "no_secret") /\ Close(h, {"sock"}, "check")
      \/ At(h, "check") /\ (\/ buf[h] = <<L2S!SECRET>> /\ Jump(h, "ok")
                            \/ Jump(h, "refuse"))
      \/ At(h, "refuse") /\ Say(h, "error", "dying", "dying")
      \/ At(h, "ok") /\ Say(h, "ok", "pty", "ok_failed")
      \/ At(h, "ok_failed") /\ Close(h, {"sock"}, "pty")
  BY L2SCalls DEF L2S!handle_protocol
<1> QED
  <2>1. CASE \/ At(h, "start") /\ Close(h, {"listen"}, "greet")
             \/ At(h, "greet_failed") /\ Close(h, {"sock"}, "secret")
             \/ At(h, "no_secret") /\ Close(h, {"sock"}, "check")
             \/ At(h, "ok_failed") /\ Close(h, {"sock"}, "pty")
    BY <1>1, <2>1 DEF At
  <2>2. CASE \/ At(h, "greet") /\ Say(h, "rembash", "secret", "greet_failed")
             \/ At(h, "refuse") /\ Say(h, "error", "dying", "dying")
             \/ At(h, "ok") /\ Say(h, "ok", "pty", "ok_failed")
    BY <1>2, <2>2 DEF At
  <2> QED
    BY <1>3, <1>4, <1>5, <2>1, <2>2

\* Once the handler has stopped it closes what it has and ends.
LEMMA OverStays ==
  ASSUME SessionInv, Delivering, UNCHANGED fixed, WiresOK',
         pc["handler"] \in Over, pc'["handler"] \in Over,
         pc["handler"] \in {"dying", "gone"} => pc'["handler"] \in {"dying", "gone"},
         \A q \in {"reader", "writer", "server", "bash"} : pc'[q] = pc[q],
         pc["relay"] = "none" <=> pc'["relay"] = "none",
         \A q \in Procs \ {"handler"} : holds'[q] = holds[q] /\ buf'[q] = buf[q],
         holds'["handler"] \subseteq holds["handler"],
         buf'["handler"] \in {buf["handler"], <<>>},
         UNCHANGED <<conn, slave>>, log'.printed = log.printed, log'.seen = log.seen,
         chan'["to_server"] \in {chan["to_server"], <<>>},
         chan'["to_client"] = chan["to_client"],
         chan'["from_shell"] \in {chan["from_shell"], <<>>}
  PROVE  Delivering'
<1>1. StagesOK'
  BY DEF Delivering, StagesOK, Over, BeforeBash, Copying
<1>2. HandlerOK'
  BY DEF HandlerOK, Over, Copying
<1>3. ShellOK' /\ ReaderOK'
  BY Sides, ShellAside, ReaderAside DEF Delivering
<1>4. NotAsked =>
        /\ pc'["writer"] = "none" /\ pc'["bash"] = "none" /\ pc'["relay"] = "none"
        /\ pc'["handler"] \in Early
        /\ chan'["to_server"] = <<>> /\ buf'["handler"] = <<>>
  BY DEF Delivering, AskOK, Over, Early
<1>5. AskOK'
  BY <1>4, AskAside DEF Delivering
<1>6. Silent => Silent'
  BY Sides DEF Silent
<1>7. Conserved'
  <2> SUFFICES ASSUME Listening', ~Lost'
               PROVE  Silent' /\ Said' \subseteq Given'
    BY DEF Conserved
  <2>1. Listening /\ ~Lost
    BY Sides DEF Listening, Lost, Over
  <2>2. Said' = Said /\ Given' = Given
    BY Sides DEF Said, Given, Items, Outputs
  <2> QED
    BY <1>6, <2>1, <2>2 DEF Delivering, Conserved
<1> QED
  BY <1>1, <1>2, <1>3, <1>5, <1>7 DEF Delivering

\* setup_pty.
LEMMA PtyDelivers ==
  ASSUME SessionInv, Lab2, Delivering, UNCHANGED fixed, L2S!setup_pty
  PROVE  Delivering'
<1> USE DEF SessionInv
<1> DEFINE h == "handler"
<1>0. h \in Procs
  BY Sides
<1>1. /\ At(h, "pty")
      /\ OpenMaster(h, "fork_bash") \/ SetupFails(h, "fork_bash")
  BY L2SCalls DEF L2S!setup_pty
<1>2. /\ Goes(h, "fork_bash") /\ UNCHANGED <<buf, fault, conn, slave>>
      /\ \A c \in Wires : chan'[c] = chan[c]
      /\ log'.printed = log.printed
      /\ \/ holds' = holds /\ Rests
         \/ holds' = [holds EXCEPT ![h] = @ \cup {"master"}]
  BY <1>0, <1>1, RestingCalls, Opening DEF Rests
<1>3. WiresOK'
  BY <1>2, WiresOpen, WiresStay DEF Delivering
<1>4. /\ Alone(h)
      /\ \A q \in Procs : "master" \in holds'[q] =>
           "master" \in holds'[h] \/ "master" \in holds[q]
      /\ holds[h] \subseteq holds'[h]
  BY <1>0, <1>2 DEF Alone, Typed, SystemOK
<1>5. pc[h] = "pty" /\ pc'[h] = "fork_bash"
  BY <1>1, <1>2 DEF At, Goes
<1>6. HandlerOK'
  BY <1>2, <1>4, <1>5 DEF Delivering, HandlerOK, Over, Copying
<1>7. ~NotAsked
  BY <1>5 DEF Delivering, AskOK, Early
<1> QED
  BY <1>2, <1>3, <1>4, <1>5, <1>6, <1>7, EarlyHandler DEF BeforeBash, Wires

\* handle_client.
LEMMA ClientDelivers ==
  ASSUME SessionInv, Lab2, Delivering, UNCHANGED fixed, L2S!handle_client
  PROVE  Delivering'
<1> USE DEF SessionInv
<1> DEFINE h == "handler"
<1>0. h \in Procs /\ "bash" \in Procs /\ Side(h) = "server" /\ Side("bash") = "server"
  BY Sides
<1>1. CASE At(h, "fork_bash") /\ Fork(h, "bash", "fork_relay", "start")
  <2>1. /\ pc'[h] = "fork_relay" /\ pc'["bash"] = "start"
        /\ \A q \in Procs \ {h, "bash"} : pc'[q] = pc[q]
        /\ UNCHANGED <<buf, chan, fault, conn, slave, log>>
        /\ holds'["bash"] = holds[h]
        /\ \A q \in Procs \ {"bash"} : holds'[q] = holds[q]
    BY <1>0, <1>1, Forking
  <2>2. /\ pc[h] = "fork_bash" /\ pc["bash"] = "none" /\ pc["relay"] = "none"
        /\ conn = "accepted" /\ log.printed = 0 /\ slave = "new"
    BY <1>1 DEF At, Delivering, StagesOK, ShellOK, BeforeBash
  <2>3. WiresOK'
    <3>1. "slave" \notin holds[h]
      BY <1>0 DEF Delivering, WiresOK
    <3> QED
      BY <1>0, <2>1, <3>1, WiresOpen DEF Delivering
  <2>4. StagesOK'
    BY <2>1, <2>2, Sides DEF StagesOK, Delivering, Copying, Over, BeforeBash
  <2>5. HandlerOK'
    <3>1. \A q \in Procs : "master" \in holds'[q] => "master" \in holds'[h]
      BY <1>0, <2>1, <2>2 DEF Delivering, HandlerOK, Over
    <3>2. "sock" \in holds'[h] \/ fault'["server"] # "none"
      BY <1>0, <2>1, <2>2 DEF Delivering, HandlerOK
    <3>3. buf'[h] = <<>>
      BY <2>1, <2>2 DEF Delivering, HandlerOK, Over
    <3> QED
      BY <2>1, <2>2, <3>1, <3>2, <3>3 DEF HandlerOK
  <2>6. ShellOK'
    <3>1. Items(chan'["from_shell"]) \subseteq Printed
      BY <2>1 DEF Delivering, ShellOK
    <3>2. log'.printed = 0 /\ slave' = "new" /\ pc'["bash"] = "start"
      BY <2>1, <2>2
    <3> QED
      BY <3>1, <3>2 DEF ShellOK, Items, Printed, Outputs
  <2>7. ReaderOK'
    BY <2>1, Sides, ReaderAside DEF Delivering
  <2>8. ~NotAsked
    BY <2>2 DEF Delivering, AskOK, Early
  <2>9. AskOK'
    BY <2>1, <2>8, Sides, AskAside DEF Delivering
  <2>10. Conserved'
    <3>1. Said' = {}
      BY <2>1, <2>2 DEF Said
    <3> QED
      BY <2>1, <3>1 DEF Conserved, Over
  <2> QED
    BY <2>3, <2>4, <2>5, <2>6, <2>7, <2>9, <2>10 DEF Delivering
<1>2. CASE At(h, "fork_bash") /\ ForkFails(h, "dying")
  <2>1. Rests /\ Goes(h, "dying") /\ pc[h] = "fork_bash" /\ pc'[h] = "dying"
    BY <1>0, <1>2, RestingCalls DEF At, Goes
  <2>2. WiresOK' /\ Alone(h)
    BY <2>1, WiresStay DEF Delivering, Rests, Alone
  <2>3. HandlerOK'
    BY <2>1, <2>2 DEF HandlerOK, Over, Copying
  <2>4. ~NotAsked
    BY <2>1 DEF Delivering, AskOK, Early
  <2> QED
    BY <2>1, <2>2, <2>3, <2>4, EarlyHandler DEF BeforeBash, Rests, Wires
<1>3. CASE At(h, "kill_bash") /\ Terminate(h, {"bash"}, "dying")
  <2>1. /\ Rests /\ pc'[h] = "dying" /\ pc[h] = "kill_bash"
        /\ \A q \in Procs \ {h} : pc'[q] # pc[q] =>
             q = "bash" /\ Alive(q) /\ ~IsShell(q) /\ pc'[q] = "dying"
    BY <1>0, <1>3, RestingCalls DEF At
  <2>2. \A q \in Procs \ {h, "bash"} : pc'[q] = pc[q]
    BY <2>1
  <2>3. pc["relay"] = "none" /\ conn = "accepted" /\ ~NotAsked
    BY <2>1 DEF Delivering, StagesOK, AskOK, Early
  <2>4. WiresOK'
    BY <2>1, WiresStay DEF Delivering
  <2>5. StagesOK'
    BY <2>1, <2>2, <2>3, Sides DEF StagesOK, Delivering, Over, Copying, BeforeBash, Rests
  <2>6. HandlerOK'
    BY <2>1 DEF HandlerOK, Over, Copying
  <2>7. ShellOK'
    <3>1. /\ pc'["bash"] # pc["bash"] =>
               pc["bash"] # "shell" /\ pc'["bash"] = "dying"
          /\ holds' = holds /\ slave' = slave /\ log'.printed = log.printed
          /\ chan'["from_shell"] = chan["from_shell"]
      BY <1>0, <2>1 DEF IsShell, Rests, Wires
    <3>2. Items(chan'["from_shell"]) \subseteq Printed
      BY <3>1 DEF Delivering, ShellOK
    <3>3. CASE pc'["bash"] = pc["bash"]
      BY <3>1, <3>2, <3>3 DEF Delivering, ShellOK, Items, Printed, Outputs
    <3>4. CASE pc["bash"] # "shell" /\ pc'["bash"] = "dying"
      BY <3>1, <3>2, <3>4 DEF Delivering, ShellOK, Items, Printed, Outputs
    <3> QED
      BY <3>1, <3>3, <3>4
  <2>8. ReaderOK'
    BY <2>1, <2>2, Sides, ReaderAside DEF Delivering, Rests
  <2>9. AskOK'
    BY <2>1, <2>2, <2>3, Sides, AskAside DEF Delivering, Rests
  <2>10. Conserved'
    BY <2>1, <2>2, <2>3, Sides DEF Conserved, Lost
  <2> QED
    BY <2>4, <2>5, <2>6, <2>7, <2>8, <2>9, <2>10 DEF Delivering
<1> QED
  BY <1>1, <1>2, <1>3, L2SCalls DEF L2S!handle_client

\* The parent's half of handle_pty_master.
LEMMA MasterDelivers ==
  ASSUME SessionInv, Lab2, Delivering, UNCHANGED fixed, L2S!handle_pty_master
  PROVE  Delivering'
<1> USE DEF SessionInv
<1> DEFINE h == "handler"
<1>0. h \in Procs /\ "relay" \in Procs /\ Side(h) = "server" /\ Side("relay") = "server"
  BY Sides
<1>1. CASE At(h, "fork_relay") /\ Fork(h, "relay", "read", "read")
  <2>1. /\ pc'[h] = "read" /\ pc'["relay"] = "read"
        /\ \A q \in Procs \ {h, "relay"} : pc'[q] = pc[q]
        /\ UNCHANGED <<buf, chan, fault, conn, slave, log>>
        /\ holds'["relay"] = holds[h]
        /\ \A q \in Procs \ {"relay"} : holds'[q] = holds[q]
    BY <1>0, <1>1, Forking
  <2>2. /\ pc[h] = "fork_relay" /\ pc["bash"] # "none" /\ pc["relay"] = "none"
        /\ conn = "accepted"
    BY <1>1 DEF At, Delivering, StagesOK, BeforeBash
  <2>3. WiresOK'
    <3>1. "slave" \notin holds[h]
      BY <1>0 DEF Delivering, WiresOK
    <3> QED
      BY <1>0, <2>1, <3>1, WiresOpen DEF Delivering
  <2>4. StagesOK'
    BY <2>1, <2>2, Sides DEF StagesOK, Delivering, Copying, Over, BeforeBash
  <2>5. HandlerOK'
    <3>1. /\ \A q \in Procs : "master" \in holds'[q] => "master" \in holds'[h]
          /\ slave' = "opened" => "master" \in holds'[h]
      BY <1>0, <2>1, <2>2 DEF Delivering, HandlerOK, Over
    <3>2. "sock" \in holds'[h] \/ fault'["server"] # "none"
      BY <1>0, <2>1, <2>2 DEF Delivering, HandlerOK
    <3>3. buf'[h] = <<>>
      BY <2>1, <2>2 DEF Delivering, HandlerOK, Over
    <3> QED
      BY <2>1, <2>2, <3>1, <3>2, <3>3 DEF HandlerOK
  <2>6. ShellOK' /\ ReaderOK'
    BY <2>1, Sides, ShellAside, ReaderAside DEF Delivering
  <2>7. ~NotAsked
    BY <2>2 DEF Delivering, AskOK, Early
  <2>8. AskOK'
    BY <2>1, <2>7, Sides, AskAside DEF Delivering
  <2>9. Conserved'
    <3>1. /\ Listening' => Listening
          /\ ~Lost /\ pc[h] \notin Over /\ pc'[h] \notin Over
      BY <2>1, <2>2, Sides DEF Listening, Lost, Over
    <3>2. Said' = Said /\ Given' = Given /\ Held' = Held
      BY <2>1 DEF Said, Given, Held, Items, Outputs
    <3> QED
      BY <3>1, <3>2 DEF Conserved, Delivering
  <2> QED
    BY <2>3, <2>4, <2>5, <2>6, <2>8, <2>9 DEF Delivering
<1>2. CASE At(h, "fork_relay") /\ ForkFails(h, "kill_bash")
  <2>1. /\ Rests /\ pc'[h] = "kill_bash" /\ pc[h] = "fork_relay"
        /\ \A q \in Procs \ {h} : pc'[q] = pc[q]
    BY <1>0, <1>2, RestingCalls DEF At, Goes
  <2>2. pc["relay"] = "none" /\ conn = "accepted" /\ ~NotAsked
    BY <2>1 DEF Delivering, StagesOK, AskOK, Early
  <2>3. WiresOK'
    BY <2>1, WiresStay DEF Delivering
  <2>4. StagesOK'
    BY <2>1, <2>2, Sides DEF StagesOK, Delivering, Over, Copying, BeforeBash, Rests
  <2>5. HandlerOK'
    BY <2>1 DEF HandlerOK, Over, Copying
  <2>6. ShellOK' /\ ReaderOK'
    BY <2>1, Sides, ShellAside, ReaderAside DEF Delivering, Rests, Wires
  <2>7. AskOK'
    BY <2>1, <2>2, Sides, AskAside DEF Delivering, Rests
  <2>8. Conserved'
    BY <2>1, <2>2, Sides DEF Conserved, Lost
  <2> QED
    BY <2>3, <2>4, <2>5, <2>6, <2>7, <2>8 DEF Delivering
<1>3. CASE At(h, "leave") /\ Close(h, {"sock", "master"}, "kill_relay")
  <2>1. /\ Closes(h, {"sock", "master"}) /\ Goes(h, "kill_relay")
        /\ pc[h] = "leave" /\ pc'[h] = "kill_relay"
    BY <1>0, <1>3, Closing DEF At, Goes
  <2>2. /\ \A q \in Procs \ {h} : holds'[q] = holds[q] /\ buf'[q] = buf[q] /\ pc'[q] = pc[q]
        /\ holds'[h] \subseteq holds[h] /\ buf'[h] \in {buf[h], <<>>}
        /\ UNCHANGED <<conn, slave>> /\ log'.printed = log.printed /\ log'.seen = log.seen
    BY <2>1 DEF Closes, Alone, Goes
  <2>3. /\ chan'["to_client"] = chan["to_client"]
        /\ chan'["to_server"] \in {chan["to_server"], <<>>}
        /\ chan'["from_shell"] \in {chan["from_shell"], <<>>}
    BY <1>0, <2>1, Sides DEF Closes, Wires
  <2>4. WiresOK'
    <3>1. "listen" \in holds'["server"]
      BY <2>2, Sides DEF Delivering, WiresOK
    <3> QED
      BY <1>0, <2>1, <3>1, WiresStay DEF Delivering
  <2> QED
    BY <2>1, <2>2, <2>3, <2>4, Sides, OverStays DEF Over
<1>4. CASE At(h, "kill_relay") /\ Terminate(h, {"relay"}, "dying")
  <2>1. /\ Rests /\ pc'[h] = "dying" /\ pc[h] = "kill_relay"
        /\ \A q \in Procs \ {h} : pc'[q] # pc[q] =>
             q = "relay" /\ Alive(q) /\ pc'[q] = "dying"
    BY <1>0, <1>4, RestingCalls DEF At
  <2>2. /\ \A q \in Procs \ {h, "relay"} : pc'[q] = pc[q]
        /\ pc["relay"] = "none" <=> pc'["relay"] = "none"
    BY <1>0, <2>1 DEF Alive
  <2>3. WiresOK'
    BY <2>1, WiresStay DEF Delivering
  <2> QED
    BY <2>1, <2>2, <2>3, Sides, OverStays DEF Over, Rests, Wires
<1> QED
  BY <1>1, <1>2, <1>3, <1>4, L2SCalls DEF L2S!handle_pty_master

\* What shells print is told apart from what is typed and said.
LEMMA PrintedWords ==
  /\ Printed = {"prompt", "out1", "out2", "out3"}
  /\ "eof" \notin Printed /\ "ok" \notin Printed
<1>1. 1 .. Len(Outputs) = {1, 2, 3, 4}
  BY DEF Outputs
<1> QED
  BY <1>1 DEF Printed, Outputs

\* A write adds to what is on its way.
LEMMA Added ==
  ASSUME NEW S, NEW s \in Seq(S), NEW t \in Seq(S)
  PROVE  Items(s \o t) = Items(s) \cup Items(t)
<1>1. /\ Len(s) \in Nat /\ Len(t) \in Nat /\ Len(s \o t) = Len(s) + Len(t)
      /\ \A i \in 1 .. Len(s) + Len(t) :
           (s \o t)[i] = IF i <= Len(s) THEN s[i] ELSE t[i - Len(s)]
  BY ConcatProperties, LenProperties
<1>2. ASSUME NEW i \in 1 .. Len(s \o t)
      PROVE  (s \o t)[i] \in Items(s) \cup Items(t)
  <2>1. CASE i <= Len(s)
    BY <1>1, <1>2, <2>1 DEF Items
  <2>2. CASE ~(i <= Len(s))
    <3>1. i - Len(s) \in 1 .. Len(t) /\ (s \o t)[i] = t[i - Len(s)]
      BY <1>1, <1>2, <2>2
    <3> QED
      BY <3>1 DEF Items
  <2> QED
    BY <2>1, <2>2
<1>3. ASSUME NEW i \in 1 .. Len(s)
      PROVE  s[i] \in Items(s \o t)
  <2>1. i \in 1 .. Len(s \o t) /\ (s \o t)[i] = s[i]
    BY <1>1, <1>3
  <2> QED
    BY <2>1 DEF Items
<1>4. ASSUME NEW i \in 1 .. Len(t)
      PROVE  t[i] \in Items(s \o t)
  <2>1. /\ i + Len(s) \in 1 .. Len(s \o t) /\ ~(i + Len(s) <= Len(s))
        /\ (i + Len(s)) - Len(s) = i
    BY <1>1, <1>4
  <2>2. (s \o t)[i + Len(s)] = t[i]
    BY <1>1, <2>1
  <2> QED
    BY <2>1, <2>2 DEF Items
<1>5. Items(s \o t) \subseteq Items(s) \cup Items(t)
  BY <1>2 DEF Items
<1>6. Items(s) \subseteq Items(s \o t)
  BY <1>3 DEF Items
<1>7. Items(t) \subseteq Items(s \o t)
  BY <1>4 DEF Items
<1> QED
  BY <1>5, <1>6, <1>7

\* ... and of a sequence with one more.
LEMMA AddedOne ==
  ASSUME NEW S, NEW s \in Seq(S), NEW x
  PROVE  Items(Append(s, x)) = Items(s) \cup {x}
<1> DEFINE T == S \cup {x}
<1>1. s \in Seq(T) /\ x \in T
  OBVIOUS
<1> HIDE DEF T
<1>2. /\ Len(s) \in Nat /\ Len(Append(s, x)) = Len(s) + 1
      /\ \A i \in 1 .. Len(s) : Append(s, x)[i] = s[i]
      /\ Append(s, x)[Len(s) + 1] = x
  BY <1>1, AppendProperties, LenProperties
<1>3. ASSUME NEW i \in 1 .. Len(Append(s, x))
      PROVE  Append(s, x)[i] \in Items(s) \cup {x}
  <2>1. i = Len(s) + 1 \/ i \in 1 .. Len(s)
    BY <1>2, <1>3
  <2> QED
    BY <1>2, <2>1 DEF Items
<1>4. ASSUME NEW i \in 1 .. Len(s)
      PROVE  s[i] \in Items(Append(s, x))
  <2>1. i \in 1 .. Len(Append(s, x)) /\ Append(s, x)[i] = s[i]
    BY <1>2, <1>4
  <2> QED
    BY <2>1 DEF Items
<1>5. x \in Items(Append(s, x))
  <2>1. Len(s) + 1 \in 1 .. Len(Append(s, x)) /\ Append(s, x)[Len(s) + 1] = x
    BY <1>2
  <2> QED
    BY <2>1 DEF Items
<1> QED
  BY <1>3, <1>4, <1>5 DEF Items

\* What the rest of the invariant asks of the handler while it copies.
LEMMA CopyGoes ==
  ASSUME Delivering, UNCHANGED fixed, NEW l \in Copying \cup Over, Goes("handler", l),
         pc["handler"] \in Copying, holds' = holds, UNCHANGED <<conn, slave>>,
         \A q \in Procs \ {"handler"} : buf'[q] = buf[q],
         log'.printed = log.printed,
         Items(chan'["from_shell"]) \subseteq Items(chan["from_shell"]),
         WiresOK', HandlerOK', Conserved'
  PROVE  Delivering'
<1>1. /\ pc'["handler"] = l /\ \A q \in Procs \ {"handler"} : pc'[q] = pc[q]
  BY DEF Goes
<1>2. StagesOK'
  BY <1>1, Sides DEF Delivering, StagesOK, BeforeBash, Copying, Over
<1>3. ShellOK'
  <2>1. Items(chan'["from_shell"]) \subseteq Printed
    BY DEF Delivering, ShellOK
  <2>2. pc'["bash"] = pc["bash"]
    BY <1>1, Sides
  <2> QED
    BY <2>1, <2>2 DEF Delivering, ShellOK, Items, Printed, Outputs
<1>4. ReaderOK'
  BY <1>1, Sides, ReaderAside DEF Delivering
<1>5. ~NotAsked
  BY DEF Delivering, AskOK, Early, Copying
<1>6. AskOK'
  BY <1>1, <1>5, Sides, AskAside DEF Delivering
<1> QED
  BY <1>2, <1>3, <1>4, <1>6 DEF Delivering

\* The handler reads the terminal to its end, ...
LEMMA CopyReads ==
  ASSUME SessionInv, Lab2, Delivering, UNCHANGED fixed,
         At("handler", "read"), Read("handler", "master", "write", "leave", "leave")
  PROVE  Delivering'
<1> USE DEF SessionInv
<1> DEFINE h == "handler"
<1>0. h \in Procs /\ In(h, "master") = "from_shell" /\ pc[h] = "read" /\ buf[h] = <<>>
  BY Sides DEF In, At, Delivering, HandlerOK, Over
<1>1. Reads(h, "master", "write", "leave", "leave")
  BY <1>0, Reading
<1>2. /\ holds' = holds /\ UNCHANGED <<conn, slave>> /\ log'.printed = log.printed
      /\ log'.seen = log.seen /\ \A q \in Procs \ {h} : buf'[q] = buf[q]
      /\ \A c \in Wires \ {"from_shell"} : chan'[c] = chan[c]
  BY <1>0, <1>1 DEF Reads, Alone
<1>3. WiresOK' /\ (fault["server"] # "none" => fault'["server"] # "none")
  BY <1>0, <1>1, WiresStay, FaultsStay DEF Delivering, Reads
<1>4. Said' = Said /\ Given' = Given /\ ~Lost /\ pc[h] \notin Over
  BY <1>0, <1>2, Sides DEF Said, Given, Items, Outputs, Lost, Wires, Over
<1>5. CASE /\ Goes(h, "write")
           /\ Items(chan'["from_shell"]) \cup Items(buf'[h]) \subseteq Items(chan["from_shell"])
           /\ Items(chan["from_shell"]) \subseteq Items(chan'["from_shell"]) \cup Items(buf'[h])
  <2>1. pc'[h] = "write" /\ \A q \in Procs \ {h} : pc'[q] = pc[q]
    BY <1>5 DEF Goes
  <2>2. HandlerOK'
    BY <1>0, <1>2, <1>3, <2>1 DEF Delivering, HandlerOK, Copying, Over
  <2>3. Conserved'
    <3>1. Held \subseteq Held'
      <4>1. Items(buf[h]) = {}
        BY <1>0 DEF Items
      <4> QED
        BY <1>5, <4>1 DEF Held, Items
    <3>2. Listening' => Listening
      BY <1>2, <2>1, Sides DEF Listening
    <3> QED
      BY <1>4, <2>1, <3>1, <3>2 DEF Delivering, Conserved, Over
  <2> QED
    BY <1>0, <1>2, <1>3, <1>5, <2>2, <2>3, CopyGoes DEF Copying
<1>6. CASE /\ chan[In(h, "master")] # <<>> /\ "eof" \in Items(chan[In(h, "master")])
  BY <1>0, <1>6, PrintedWords DEF Delivering, ShellOK
<1>7. CASE AtEof(h, "master")
  BY <1>7 DEF AtEof
<1>8. CASE CannotRead(h, "master") /\ Goes(h, "leave") /\ UNCHANGED <<buf, chan>>
  <2>1. pc'[h] = "leave" /\ \A q \in Procs \ {h} : pc'[q] = pc[q]
    BY <1>8 DEF Goes
  <2>2. HandlerOK'
    BY <2>1 DEF HandlerOK, Over, Copying
  <2>3. Silent /\ (Listening => Said \subseteq Given)
    <3>1. pc["bash"] \in BashPC \ {"none"}
      BY <1>0 DEF Delivering, StagesOK, PlacesOK, Copying
    <3>2. CASE "master" \notin holds[h]
      <4>1. slave = "new" /\ \A q \in Procs : "master" \notin holds[q]
        BY <1>0, <3>2 DEF Delivering, HandlerOK, Typed, SystemOK, Over
      <4>2. log.printed = 0 /\ pc["bash"] \notin {"exec", "shell"}
        BY <4>1 DEF Delivering, ShellOK
      <4>3. Said = {}
        BY <4>2 DEF Said
      <4> QED
        BY <3>1, <4>1, <4>2, <4>3 DEF Silent, BashPC
    <3>3. CASE chan["from_shell"] = <<>> /\ slave = "opened" /\ Holders("slave") = {}
      <4>1. "slave" \notin holds["bash"]
        BY <3>3, Sides DEF Holders
      <4>2. Silent
        BY <3>3, <4>1 DEF Delivering, ShellOK, Silent
      <4>3. Held = {}
        BY <1>0, <3>3 DEF Held, Items
      <4> QED
        BY <1>4, <4>2, <4>3 DEF Delivering, Conserved
    <3> QED
      BY <1>0, <1>8, <3>2, <3>3 DEF CannotRead
  <2>4. Conserved'
    <3>1. Listening' => Listening
      BY <1>2, <2>1, Sides DEF Listening
    <3>2. Silent'
      BY <1>2, <2>1, <2>3, Sides DEF Silent
    <3> QED
      BY <1>4, <2>1, <2>3, <3>1, <3>2 DEF Conserved, Over
  <2>5. Items(chan'["from_shell"]) \subseteq Items(chan["from_shell"])
    BY <1>8
  <2> QED
    BY <1>0, <1>2, <1>3, <1>8, <2>2, <2>4, <2>5, CopyGoes DEF Copying, Over
<1> QED
  BY <1>0, <1>1, <1>5, <1>6, <1>7, <1>8 DEF Reads

\* ... and passes on what it reads, unless the client's end is gone.
LEMMA CopyWrites ==
  ASSUME SessionInv, Lab2, Delivering, UNCHANGED fixed,
         At("handler", "write"), PassOn("handler", "sock", "read", "leave")
  PROVE  Delivering'
<1> USE DEF SessionInv
<1> DEFINE h == "handler"
<1>0. /\ h \in Procs /\ Out(h, "sock") = "to_client" /\ pc[h] = "write"
      /\ Side(h) = "server" /\ Other("server") = "client"
      /\ {"to_client", "from_shell"} \subseteq Channels
  BY Sides DEF Out, At, Channels
<1>1. Writes(h, "sock", buf[h], "read", "leave")
  BY <1>0, Writing
<1>2. /\ holds' = holds /\ UNCHANGED <<conn, slave>> /\ log'.printed = log.printed
      /\ log'.seen = log.seen /\ buf'[h] = <<>> /\ \A q \in Procs \ {h} : buf'[q] = buf[q]
  BY <1>1 DEF Writes, Alone
<1>3. WiresOK' /\ (fault["server"] # "none" => fault'["server"] # "none")
  BY <1>0, <1>1, WiresStay, FaultsStay DEF Delivering, Writes
<1>4. chan'["from_shell"] = chan["from_shell"]
  BY <1>0, <1>1 DEF Writes, Typed, CargoOK
<1>5. Hung("client") => ~Listening'
  BY <1>2, Sides DEF Hung, Listening
<1>6. PICK l \in {"read", "leave", "dying"} :
        /\ Goes(h, l)
        /\ l = "read" => "sock" \in holds[h]
        /\ \/ Hung("client")
           \/ l = "read" /\ chan'["to_client"] = chan["to_client"] \o buf[h]
  <2>1. CASE /\ Goes(h, "read") /\ "sock" \in holds[h]
             /\ chan' = [chan EXCEPT !["to_client"] = @ \o buf[h]]
    BY <1>0, <2>1 DEF Typed, CargoOK
  <2>2. CASE Goes(h, "read") /\ "sock" \in holds[h] /\ ~EndOpen("client")
    <3>1. conn # "none"
      BY <1>0, <2>2 DEF Delivering, WiresOK
    <3> QED
      BY <2>2, <3>1, EndsHung DEF Delivering
  <2>3. CASE /\ Goes(h, "leave") \/ Goes(h, "dying")
             /\ "sock" \in holds[h] => fault["server"] # "none"
    <3>1. fault["server"] # "none"
      BY <1>0, <2>3 DEF Delivering, HandlerOK, Copying
    <3>2. Hung("client")
      BY <1>0, <3>1 DEF Delivering, WiresOK
    <3> QED
      BY <2>3, <3>2
  <2> QED
    BY <1>0, <1>1, <2>1, <2>2, <2>3 DEF Writes
<1>7. pc'[h] = l /\ \A q \in Procs \ {h} : pc'[q] = pc[q]
  BY <1>6 DEF Goes
<1>8. HandlerOK'
  BY <1>0, <1>2, <1>3, <1>6, <1>7 DEF Delivering, HandlerOK, Copying, Over
<1>9. Conserved'
  <2>1. CASE Hung("client")
    BY <1>5, <2>1 DEF Conserved
  <2>2. CASE l = "read" /\ chan'["to_client"] = chan["to_client"] \o buf[h]
    <3>1. Items(chan'["to_client"]) = Items(chan["to_client"]) \cup Items(buf[h])
      <4>1. chan["to_client"] \in Seq(Harmless) /\ buf[h] \in Seq(Harmless)
        BY <1>0 DEF Typed, CargoOK
      <4> QED
        BY <2>2, <4>1, Added
    <3>2. Said' = Said /\ Given \cup Held \subseteq Given' \cup Held'
      <4>1. Said' = Said
        BY <1>2 DEF Said, Outputs
      <4>2. Items(chan'["from_shell"]) = Items(chan["from_shell"])
        BY <1>4
      <4>3. Items(buf'["reader"]) = Items(buf["reader"])
        BY <1>0, <1>2, Sides
      <4>4. Given \cup Held \subseteq Given' \cup Held'
        BY <1>2, <3>1, <4>2, <4>3 DEF Given, Held, Items
      <4> QED
        BY <4>1, <4>4
    <3>3. Listening' => Listening
      BY <1>2, <1>7, Sides DEF Listening
    <3> QED
      BY <1>0, <1>7, <2>2, <3>2, <3>3 DEF Delivering, Conserved, Lost, Over
  <2> QED
    BY <1>6, <2>1, <2>2
<1> QED
  BY <1>0, <1>2, <1>3, <1>4, <1>6, <1>8, <1>9, CopyGoes DEF Copying, Over

\* The whole handler.
LEMMA HandlerDelivers ==
  ASSUME SessionInv, Lab2, Delivering, UNCHANGED fixed, L2S!Handler
  PROVE  Delivering'
<1>1. L2S!from_pty_to_client => Delivering'
  BY L2SCalls, CopyReads, CopyWrites DEF L2S!from_pty_to_client
<1> QED
  BY <1>1, ProtocolDelivers, PtyDelivers, ClientDelivers, MasterDelivers DEF L2S!Handler

------------------------------------------------------------------------------
(* The shell's process and the relay *)

\* A step of the shell's process that kills nobody and closes nothing.
LEMMA BashAside ==
  ASSUME SessionInv, Delivering, UNCHANGED fixed, NEW l \in BashPC \ {"none"},
         Goes("bash", l),
         pc["bash"] # "none", WiresOK', ShellOK',
         UNCHANGED <<buf, conn>>, log'.printed = log.printed, log'.seen = log.seen,
         \A c \in Wires : chan'[c] = chan[c],
         fault' = fault,
         \A q \in Procs \ {"bash"} : holds'[q] = holds[q],
         "master" \in holds'["bash"] => "master" \in holds["bash"],
         slave' = slave \/ Holders("master") # {},
         Silent => Silent'
  PROVE  Delivering'
<1>1. \A q \in {"reader", "writer", "handler", "relay", "server"} :
        pc'[q] = pc[q] /\ holds'[q] = holds[q]
  BY Sides DEF Goes
<1>2. pc'["bash"] # "none"
  BY DEF Goes
<1>3. Holders("master") # {} =>
        "master" \in holds["handler"] \/ pc["handler"] \in Over \cup {"kill_bash"}
  BY DEF Holders, Delivering, HandlerOK
<1>4. \A q \in Procs : "master" \in holds'[q] => "master" \in holds[q]
  OBVIOUS
<1>5. /\ conn' # "accepted" => pc'["server"] # "fork"
      /\ pc'["server"] = "fork" => pc["handler"] = "none"
  BY <1>1 DEF Delivering, StagesOK
<1> QED
  BY <1>1, <1>2, <1>3, <1>4, <1>5, Undisturbed DEF Wires

\* setup_slave_pty and what surrounds it.
LEMMA BashDelivers ==
  ASSUME SessionInv, Lab2, Delivering, UNCHANGED fixed, L2S!Bash
  PROVE  Delivering'
<1> USE DEF SessionInv
<1> DEFINE b == "bash"
<1>0. b \in Procs
  BY Sides
<1>1. CASE At(b, "start") /\ Close(b, {"master", "sock"}, "setup")
  <2>1. Closes(b, {"master", "sock"}) /\ Goes(b, "setup")
    BY <1>0, <1>1, Closing
  <2> QED
    BY <1>1, <2>1, OthersClose DEF At
<1>2. CASE At(b, "setup") /\ OpenSlave(b, "exec", "failed")
  <2>1. /\ pc[b] = "setup" /\ slave = "new" /\ log.printed = 0
        /\ Items(chan["from_shell"]) \subseteq Printed
    BY <1>2 DEF At, Delivering, ShellOK
  <2>2. CASE Rests /\ Goes(b, "failed") /\ Holders("master") = {}
    <3>1. WiresOK' /\ pc'[b] = "failed"
      BY <2>2, WiresStay DEF Delivering, Goes
    <3>2. ShellOK'
      <4>1. slave' = "new" /\ log'.printed = 0 /\ chan'["from_shell"] = chan["from_shell"]
        BY <2>1, <2>2 DEF Rests, Wires
      <4> QED
        BY <2>1, <3>1, <4>1 DEF ShellOK, Items, Printed, Outputs
    <3>3. Silent => Silent'
      BY <2>1, <2>2, <3>1 DEF Silent, Rests
    <3> QED
      BY <2>1, <2>2, <3>1, <3>2, <3>3, BashAside DEF Rests, BashPC
  <2>3. CASE /\ Goes(b, "exec") /\ UNCHANGED <<buf, chan, fault, conn, log>>
             /\ Holders("master") # {}
             /\ slave' = "opened" /\ holds' = [holds EXCEPT ![b] = @ \cup {"slave"}]
    <3>1. pc'[b] = "exec" /\ WiresOK'
      BY <2>3, WiresOpen DEF Delivering, Goes
    <3>2. /\ holds'[b] = holds[b] \cup {"slave"}
          /\ \A q \in Procs \ {b} : holds'[q] = holds[q]
      BY <1>0, <2>3 DEF Typed, SystemOK
    <3>3. ShellOK'
      <4>1. Items(chan'["from_shell"]) \subseteq Printed /\ log'.printed = 0
        BY <2>1, <2>3
      <4> QED
        BY <2>3, <3>1, <3>2, <4>1 DEF ShellOK, Items, Printed, Outputs
    <3>4. ~Silent
      BY <2>1, <2>3 DEF Silent, Holders
    <3> QED
      BY <2>1, <2>3, <3>1, <3>2, <3>3, <3>4, BashAside DEF BashPC
  <2> QED
    BY <1>0, <1>2, <2>2, <2>3, Opening
<1>3. ASSUME NEW l \in {"failed", "shell"},
             \/ At(b, "setup") /\ l = "failed" /\ SetupFails(b, l)
             \/ At(b, "exec") /\ l = "failed" /\ SetupFails(b, l)
             \/ At(b, "exec") /\ l = "shell" /\ Jump(b, l)
      PROVE  Delivering'
  <2>1. /\ Rests /\ Goes(b, l) /\ pc'[b] = l /\ pc[b] \in {"setup", "exec"}
        /\ l = "shell" => pc[b] = "exec"
    BY <1>0, <1>3, RestingCalls DEF At, Goes
  <2>2. WiresOK'
    BY <2>1, WiresStay DEF Delivering
  <2>3. ShellOK'
    <3>1. /\ log.printed = 0 /\ Items(chan["from_shell"]) \subseteq Printed
          /\ slave = "opened" => "slave" \in holds[b]
          /\ pc[b] = "exec" => slave = "opened"
      BY <2>1 DEF Delivering, ShellOK
    <3>2. /\ holds' = holds /\ slave' = slave /\ log'.printed = log.printed
          /\ chan'["from_shell"] = chan["from_shell"]
      BY <2>1 DEF Rests, Wires
    <3> QED
      BY <2>1, <3>1, <3>2 DEF ShellOK, Items, Printed, Outputs
  <2>4. Silent => Silent'
    BY <2>1 DEF Silent, Rests
  <2> QED
    BY <2>1, <2>2, <2>3, <2>4, BashAside DEF Rests, BashPC
<1>4. CASE At(b, "failed") /\ Terminate(b, Ppid(b), "dying")
  <2>1. /\ Rests /\ pc'[b] = "dying" /\ pc[b] = "failed"
        /\ \A q \in Procs \ {b} : pc'[q] # pc[q] => q \in Ppid(b) /\ Alive(q) /\ pc'[q] = "dying"
    BY <1>0, <1>4, RestingCalls DEF At
  <2>2. Ppid(b) \subseteq {"handler"}
    BY DEF Ppid, Parent
  <2>3. /\ \A q \in Procs \ {b, "handler"} : pc'[q] = pc[q]
        /\ pc'["handler"] = pc["handler"] \/ (pc["handler"] # "none" /\ pc'["handler"] = "dying")
    BY <2>1, <2>2, Sides DEF Alive
  <2>4. /\ log.printed = 0 /\ ~NotAsked
        /\ Items(chan["from_shell"]) \subseteq Printed
        /\ holds' = holds /\ buf' = buf /\ fault' = fault /\ conn' = conn /\ slave' = slave
        /\ log'.printed = log.printed /\ chan'["from_shell"] = chan["from_shell"]
    BY <2>1 DEF Delivering, ShellOK, AskOK, Rests, Wires
  <2>5. WiresOK'
    BY <2>1, WiresStay DEF Delivering
  <2>6. StagesOK'
    BY <2>1, <2>3, <2>4, Sides DEF Delivering, StagesOK, Over, BeforeBash, Copying
  <2>7. HandlerOK'
    BY <2>3, <2>4 DEF Delivering, HandlerOK, Over, Copying
  <2>8. ShellOK'
    BY <2>1, <2>4 DEF ShellOK, Items, Printed, Outputs
  <2>9. ReaderOK'
    BY <2>3, <2>4, Sides, ReaderAside DEF Delivering
  <2>10. AskOK'
    BY <2>3, <2>4, Sides, AskAside DEF Delivering
  <2>11. Conserved'
    <3>1. Silent'
      BY <2>1 DEF Silent
    <3>2. Said' = {}
      BY <2>4 DEF Said
    <3> QED
      BY <3>1, <3>2 DEF Conserved
  <2> QED
    BY <2>5, <2>6, <2>7, <2>8, <2>9, <2>10, <2>11 DEF Delivering
<1>5. \/ At(b, "start") /\ Close(b, {"master", "sock"}, "setup")
      \/ At(b, "setup") /\ (OpenSlave(b, "exec", "failed") \/ SetupFails(b, "failed"))
      \/ At(b, "exec") /\ (Jump(b, "shell") \/ SetupFails(b, "failed"))
      \/ At(b, "failed") /\ Terminate(b, Ppid(b), "dying")
  BY L2SCalls DEF L2S!Bash, L2S!setup_slave_pty, L2S!bash_child
<1> QED
  BY <1>1, <1>2, <1>3, <1>4, <1>5

\* from_client_to_pty and the end of the relay, which takes nobody with it.
LEMMA RelayDelivers ==
  ASSUME SessionInv, Lab2, Delivering, UNCHANGED fixed, L2S!Relay
  PROVE  Delivering'
<1> USE DEF SessionInv
<1> DEFINE r == "relay"
<1>0. /\ r \in Procs /\ In(r, "sock") = "to_server" /\ Out(r, "master") = "to_shell"
      /\ Wires \subseteq Channels
  BY Sides DEF In, Out, Wires, Channels
<1>1. ASSUME NEW l, Goes(r, l), l # "none", pc[r] # "none", Alone(r), holds' = holds,
             log'.seen = log.seen, WiresOK',
             fault["server"] # "none" => fault'["server"] # "none",
             \A c \in {"to_client", "from_shell"} : chan'[c] = chan[c],
             chan["to_server"] = <<>> => chan'["to_server"] = <<>>
      PROVE  Delivering'
  <2>1. /\ \A q \in Procs \ {r} : pc'[q] = pc[q] /\ buf'[q] = buf[q]
        /\ pc'[r] = l /\ UNCHANGED <<conn, slave>> /\ log'.printed = log.printed
    BY <1>1 DEF Goes, Alone
  <2>2. ShellOK'
    BY <1>1, <2>1, Sides, ShellAside DEF Delivering
  <2>3. Silent => Silent'
    BY <1>1, <2>1, Sides DEF Silent
  <2>4. /\ conn' # "accepted" => pc'["server"] # "fork"
        /\ pc'["server"] = "fork" => pc["handler"] = "none"
    BY <2>1, Sides DEF Delivering, StagesOK
  <2> QED
    BY <1>1, <2>1, <2>2, <2>3, <2>4, Sides, Undisturbed
<1>2. CASE At(r, "read") /\ Read(r, "sock", "write", "leave", "leave")
  <2>1. Reads(r, "sock", "write", "leave", "leave")
    BY <1>0, <1>2, Reading
  <2>2. PICK l \in {"write", "leave"} : Goes(r, l)
    BY <2>1 DEF Reads
  <2>3. WiresOK' /\ (fault["server"] # "none" => fault'["server"] # "none")
    BY <1>0, <2>1, WiresStay, FaultsStay DEF Delivering, Reads
  <2>4. /\ Alone(r) /\ holds' = holds /\ log'.seen = log.seen
        /\ \A c \in {"to_client", "from_shell"} : chan'[c] = chan[c]
    BY <1>0, <2>1 DEF Reads, Wires
  <2>5. chan["to_server"] = <<>> => chan'["to_server"] = <<>>
    BY <1>0, <2>1 DEF Reads
  <2> QED
    BY <1>1, <1>2, <2>2, <2>3, <2>4, <2>5 DEF At
<1>3. CASE At(r, "write") /\ PassOn(r, "master", "read", "leave")
  <2>1. Writes(r, "master", buf[r], "read", "leave")
    BY <1>0, <1>3, Writing
  <2>2. PICK l \in {"read", "leave"} : Goes(r, l)
    BY <2>1 DEF Writes
  <2>3. WiresOK' /\ (fault["server"] # "none" => fault'["server"] # "none")
    BY <1>0, <2>1, WiresStay, FaultsStay DEF Delivering, Writes
  <2>4. Alone(r) /\ holds' = holds /\ log'.seen = log.seen
    BY <2>1 DEF Writes
  <2>5. \A c \in Wires : chan'[c] = chan[c]
    BY <1>0, <2>1 DEF Writes, Typed, CargoOK, Wires
  <2> QED
    BY <1>1, <1>3, <2>2, <2>3, <2>4, <2>5 DEF At, Wires
<1>4. CASE At(r, "leave") /\ Terminate(r, {}, "dying")
  <2>1. Rests /\ Goes(r, "dying")
    BY <1>0, <1>4, RestingCalls DEF Goes
  <2>2. WiresOK' /\ Alone(r)
    BY <2>1, WiresStay DEF Delivering, Rests, Alone
  <2> QED
    BY <1>1, <1>4, <2>1, <2>2 DEF At, Rests, Wires
<1> QED
  BY <1>2, <1>3, <1>4, L2SCalls DEF L2S!Relay, L2S!from_client_to_pty, L2S!relay_child

------------------------------------------------------------------------------
(* The client, its user and the shell it was started from *)

\* The server's side is left as it is, but for a connection that asks to be accepted.
Quiet ==
    /\ \A q \in ServerSide : pc'[q] = pc[q] /\ holds'[q] = holds[q] /\ buf'[q] = buf[q]
    /\ conn' = conn \/ (conn = "none" /\ conn' = "queued")
    /\ UNCHANGED slave /\ log'.printed = log.printed
    /\ chan'["from_shell"] = chan["from_shell"]
    /\ fault["server"] # "none" => fault'["server"] # "none"

\* Where the reader reads the connection no more.
Away == {"no_child", "read_stdin", "write_stdin", "leave_stdin", "kill_parent", "leave",
         "kill", "exit", "restore", "wait", "dying", "gone"}

\* What the shell printed is among what shells print.
LEMMA SaidIsPrinted == ASSUME Typed PROVE Said \subseteq Printed
<1>1. log.printed \in 0 .. Len(Outputs) /\ Len(Outputs) \in Nat
  BY DEF Typed, SystemOK, Outputs
<1>2. \A i \in 1 .. log.printed : i \in 1 .. Len(Outputs)
  BY <1>1
<1> QED
  BY <1>2 DEF Said, Printed

\* Then the invariant asks only for what the reader does.
LEMMA ClientAdvances ==
  ASSUME SessionInv, Delivering, UNCHANGED fixed, Quiet, WiresOK', ReaderOK',
         pc'["reader"] \in {"start", "connect"} => conn' = "none",
         NotAsked' => NotAsked /\ pc'["writer"] = "none" /\ chan'["to_server"] = <<>>,
         Listening' => NotAsked \/ (Listening /\ Given \cap Printed \subseteq Given')
  PROVE  Delivering'
<1>1. /\ \A q \in {"server", "handler", "bash", "relay"} :
           pc'[q] = pc[q] /\ holds'[q] = holds[q] /\ buf'[q] = buf[q]
      /\ conn' = conn \/ (conn = "none" /\ conn' = "queued")
      /\ slave' = slave /\ log'.printed = log.printed
      /\ chan'["from_shell"] = chan["from_shell"]
      /\ fault["server"] # "none" => fault'["server"] # "none"
  BY Sides DEF Quiet
<1>2. \A q \in Procs : "master" \in holds'[q] <=> "master" \in holds[q]
  BY <1>1 DEF Delivering, WiresOK
<1>3. StagesOK'
  BY <1>1 DEF Delivering, StagesOK
<1>4. HandlerOK'
  BY <1>1, <1>2, Sides DEF Delivering, HandlerOK
<1>5. ShellOK'
  BY <1>1, ShellAside DEF Delivering
<1>6. AskOK'
  BY <1>1 DEF Delivering, AskOK, Early
<1>7. Said' = Said /\ Held' = Held /\ (Lost' <=> Lost) /\ (Silent => Silent')
  BY <1>1, <1>2 DEF Said, Held, Lost, Silent, Items, Outputs
<1>8. Conserved'
  <2> SUFFICES ASSUME Listening', ~Lost'
               PROVE  IF pc'["handler"] \in Over THEN Silent' /\ Said' \subseteq Given'
                      ELSE Said' \subseteq Given' \cup Held'
    BY DEF Conserved
  <2>1. CASE NotAsked
    <3>1. pc["relay"] = "none" /\ pc["handler"] \in Early /\ log.printed = 0
      BY <2>1 DEF Delivering, AskOK, ShellOK
    <3>2. pc["handler"] \notin Over
      BY <1>7, <3>1 DEF Lost, Early, Over
    <3>3. Said = {}
      BY <3>1 DEF Said
    <3> QED
      BY <1>1, <1>7, <3>2, <3>3
  <2>2. CASE Listening /\ Given \cap Printed \subseteq Given'
    <3>1. Said \subseteq Printed
      BY SaidIsPrinted DEF SessionInv
    <3> QED
      BY <1>1, <1>7, <2>2, <3>1 DEF Delivering, Conserved
  <2> QED
    BY <2>1, <2>2
<1> QED
  BY <1>3, <1>4, <1>5, <1>6, <1>8 DEF Delivering

\* The calls a client makes leave the server's side as it is, ...
LEMMA ClientCalls ==
  ASSUME SessionInv, Delivering, NEW p \in ClientSide
  PROVE  /\ Rests /\ (\A q \in ServerSide : pc'[q] = pc[q]) => Quiet /\ WiresOK'
         /\ \A D, l : Closes(p, D) /\ Goes(p, l) => Quiet /\ WiresOK'
         /\ \A d \in {"stdin", "sock"} : \A got, eof, err :
              Reads(p, d, got, eof, err) => Quiet /\ WiresOK'
         /\ \A data, next, err : Writes(p, "sock", data, next, err) => Quiet /\ WiresOK'
         /\ \A l : Show(p, l) => Quiet /\ WiresOK'
<1> USE DEF SessionInv
<1>0. /\ p \in Procs /\ \A q \in ServerSide : q \in Procs \ {p}
      /\ "from_shell" \in Wires /\ Wires \subseteq Channels
      /\ "master" \notin holds[p] /\ WiresOK
  BY Sides DEF Delivering, WiresOK, Wires, Channels, ClientSide, ServerSide
<1>1. ASSUME Rests, \A q \in ServerSide : pc'[q] = pc[q]
      PROVE  Quiet /\ WiresOK'
  BY <1>0, <1>1, WiresStay DEF Quiet, Rests
<1>2. ASSUME NEW D, NEW l, Closes(p, D), Goes(p, l)
      PROVE  Quiet /\ WiresOK'
  <2>1. "listen" \in holds'["server"]
    BY <1>0, <1>2, Sides DEF Closes, Alone, WiresOK
  <2>2. WiresOK'
    BY <1>0, <1>2, <2>1, WiresStay
  <2>3. fault["server"] # "none" => fault'["server"] # "none"
    BY <1>0, <1>2, FaultsStay
  <2>4. chan'["from_shell"] = chan["from_shell"]
    BY <1>0, <1>2 DEF Closes
  <2> QED
    BY <1>0, <1>2, <2>2, <2>3, <2>4 DEF Quiet, Closes, Alone, Goes
<1>3. ASSUME NEW d \in {"stdin", "sock"}, NEW got, NEW eof, NEW err,
             Reads(p, d, got, eof, err)
      PROVE  Quiet /\ WiresOK'
  <2>1. WiresOK' /\ (fault["server"] # "none" => fault'["server"] # "none")
    BY <1>0, <1>3, WiresStay, FaultsStay DEF Reads
  <2>2. chan'["from_shell"] = chan["from_shell"]
    BY <1>0, <1>3 DEF Reads, In
  <2>3. \A q \in ServerSide : pc'[q] = pc[q]
    BY <1>0, <1>3 DEF Reads, Goes
  <2> QED
    BY <1>0, <1>3, <2>1, <2>2, <2>3 DEF Quiet, Reads, Alone
<1>4. ASSUME NEW data, NEW next, NEW err, Writes(p, "sock", data, next, err)
      PROVE  Quiet /\ WiresOK'
  <2>1. WiresOK' /\ (fault["server"] # "none" => fault'["server"] # "none")
    BY <1>0, <1>4, WiresStay, FaultsStay DEF Writes
  <2>2. chan'["from_shell"] = chan["from_shell"]
    BY <1>0, <1>4 DEF Writes, Out, SessionInv, Typed, CargoOK, Channels
  <2>3. \A q \in ServerSide : pc'[q] = pc[q]
    BY <1>0, <1>4 DEF Writes, Goes
  <2> QED
    BY <1>0, <1>4, <2>1, <2>2, <2>3 DEF Quiet, Writes, Alone
<1>5. ASSUME NEW l, Show(p, l)
      PROVE  Quiet /\ WiresOK'
  <2>1. Goes(p, l) /\ Alone(p) /\ UNCHANGED <<holds, fault, chan>>
    BY <1>0, <1>5, Showing
  <2>2. FaultGrows(p)
    BY <2>1 DEF FaultGrows
  <2>3. WiresOK'
    BY <1>0, <2>1, <2>2, WiresStay
  <2> QED
    BY <1>0, <2>1, <2>3 DEF Quiet, Alone, Goes
<1> QED
  BY <1>1, <1>2, <1>3, <1>4, <1>5

\* ... and a reader that leaves the connection asks for nothing more.
LEMMA ReaderLeaves ==
  ASSUME SessionInv, Delivering, UNCHANGED fixed, Quiet, WiresOK', pc'["reader"] \in Away
  PROVE  Delivering'
<1>1. ReaderOK' /\ ~Listening' /\ ~NotAsked'
  BY DEF ReaderOK, Listening, NotAsked, Away
<1> QED
  BY <1>1, ClientAdvances DEF Away

\* Steps of the reader that change nothing but its label.
Moves(a, l) ==
    \/ l \in Away
    \/ <<a, l>> \in {<<"start", "connect">>, <<"start", "raw">>, <<"connect", "raw">>,
                     <<"raw", "catch">>, <<"check_id", "secret">>, <<"catch", "fork">>}
    \/ <<a, l>> = <<"raw", "rembash">> /\ ~Client({"carver"})
    \/ <<a, l>> = <<"check_ok", "raw">> /\ Client({"carver"}) /\ buf["reader"] = <<"ok">>

\* A step of the reader that only moves it along one of these keeps the invariant.
LEMMA ReaderRests ==
  ASSUME SessionInv, Delivering, UNCHANGED fixed, NEW l, Rests, Goes("reader", l),
         Moves(pc["reader"], l)
  PROVE  Delivering'
<1> DEFINE r == "reader"
<1>0. r \in Procs /\ r \in ClientSide /\ \A q \in ServerSide : q \in Procs \ {r}
  BY Sides
<1>1. Quiet /\ WiresOK' /\ pc'[r] = l
  BY <1>0, ClientCalls DEF Goes
<1>2. CASE l \in Away
  BY <1>1, <1>2, ReaderLeaves
<1>3. CASE l \notin Away
  <2>1. /\ holds' = holds /\ buf' = buf /\ conn' = conn /\ pc'["writer"] = pc["writer"]
        /\ chan'["to_server"] = chan["to_server"] /\ chan'["to_client"] = chan["to_client"]
        /\ log'.seen = log.seen
    BY Sides DEF Rests, Wires, Goes
  <2>2. ReaderOK'
    <3>1. CASE pc[r] = "check_ok"
      <4>1. buf'[r] = <<"ok">>
        BY <1>3, <2>1, <3>1 DEF Moves
      <4>2. Items(buf'[r]) = {"ok"}
        BY <4>1 DEF Items
      <4>3. Items(buf'[r]) \cap Printed = {}
        BY <4>2, PrintedWords
      <4> QED
        BY <4>3 DEF ReaderOK, Items, Printed, Outputs
    <3>2. CASE pc[r] # "check_ok"
      <4>1. Items(buf[r]) \cap Printed = {} \/ l \in {"rembash", "secret"}
        BY <1>3, <3>2 DEF Moves, Delivering, ReaderOK
      <4>2. Items(buf'[r]) \cap Printed = {} \/ l \in {"rembash", "secret"}
        BY <2>1, <4>1
      <4> QED
        BY <1>1, <4>2 DEF ReaderOK, Items, Printed, Outputs
    <3> QED
      BY <3>1, <3>2
  <2>3. l \in {"start", "connect"} => conn' = "none"
    BY <1>3, <2>1 DEF Moves, Delivering, AskOK
  <2>4. NotAsked' => NotAsked
    BY <1>1, <1>3, ProgramsStay DEF Moves, NotAsked
  <2>5. NotAsked' => pc'["writer"] = "none" /\ chan'["to_server"] = <<>>
    BY <2>1, <2>4 DEF Delivering, AskOK
  <2>6. Listening' => Listening /\ Given = Given'
    BY <1>1, <1>3, <2>1 DEF Moves, Listening, Given, Items
  <2> QED
    BY <1>1, <2>2, <2>3, <2>4, <2>5, <2>6, ClientAdvances
<1> QED
  BY <1>2, <1>3

\* The reader connects.
LEMMA ReaderConnects ==
  ASSUME SessionInv, Delivering, UNCHANGED fixed,
         NEW l \in {"raw", "rembash"}, NEW err \in {"raw"} \cup Away,
         pc["reader"] \in {"start", "connect"}, Connect("reader", l, err)
  PROVE  Delivering'
<1> DEFINE r == "reader"
<1>0. r \in Procs /\ r \in ClientSide /\ \A q \in ServerSide : q \in Procs \ {r}
  BY Sides
<1>1. CASE Rests /\ Goes(r, err)
  <2>1. Moves(pc[r], err)
    BY DEF Moves
  <2> QED
    BY <1>1, <2>1, ReaderRests
<1>2. CASE /\ Goes(r, l) /\ UNCHANGED <<buf, chan, fault, slave, log>>
           /\ conn' = "queued" /\ holds' = [holds EXCEPT ![r] = @ \cup {"sock"}]
  <2>1. conn = "none" /\ NotAsked
    BY DEF Delivering, AskOK, NotAsked
  <2>2. WiresOK'
    BY <1>2, <2>1, WiresOpen DEF SessionInv, Delivering
  <2>3. Quiet
    BY <1>0, <1>2, <2>1 DEF Quiet, Goes, SessionInv, Typed, SystemOK
  <2>4. /\ pc'[r] = l /\ pc'["writer"] = "none" /\ chan'["to_server"] = <<>>
        /\ buf'[r] = buf[r]
    BY <1>2, <2>1, Sides DEF Goes, Delivering, AskOK
  <2>5. ReaderOK'
    <3>1. Items(buf[r]) \cap Printed = {}
      BY DEF Delivering, ReaderOK
    <3> QED
      BY <2>4, <3>1 DEF ReaderOK, Items, Printed, Outputs
  <2> QED
    BY <2>1, <2>2, <2>3, <2>4, <2>5, ClientAdvances
<1> QED
  BY <1>0, <1>1, <1>2, Opening DEF SessionInv

\* It reads the greeting, the answer to the secret, or what the shell prints.
LEMMA ReaderReads ==
  ASSUME SessionInv, Delivering, UNCHANGED fixed,
         NEW exact \in BOOLEAN, NEW got, NEW eof, NEW err \in Away,
         ReadUpTo("reader", "sock", exact, got, eof, err),
         \/ /\ pc["reader"] = "rembash"
            /\ got \in {"secret", "check_id"} /\ eof \in {"secret"} \cup Away
         \/ pc["reader"] = "ok" /\ got \in {"print", "check_ok"} /\ eof \in {"print"} \cup Away
         \/ pc["reader"] = "read" /\ got = "write" /\ eof \in Away
  PROVE  Delivering'
<1> DEFINE r == "reader"
<1>0. r \in Procs /\ r \in ClientSide /\ In(r, "sock") = "to_client"
  BY Sides DEF In
<1>1. Reads(r, "sock", got, eof, err)
  BY <1>0, Reading DEF SessionInv
<1>2. Quiet /\ WiresOK'
  BY <1>0, <1>1, ClientCalls
<1>3. PICK l \in {got, eof, err} : Goes(r, l)
  BY <1>1 DEF Reads
<1>4. CASE l \in Away
  BY <1>2, <1>3, <1>4, ReaderLeaves DEF Goes
<1>5. CASE l \notin Away
  <2>1. /\ pc'[r] = l /\ pc'["writer"] = pc["writer"] /\ chan'["to_server"] = chan["to_server"]
        /\ holds' = holds /\ log'.seen = log.seen
    BY <1>0, <1>1, <1>3, Sides DEF Goes, Reads, Wires
  <2>2. l \in {"secret", "check_id", "print", "check_ok", "write"}
    BY <1>3, <1>5
  <2>3. ReaderOK'
    BY <2>1, <2>2 DEF ReaderOK
  <2>4. NotAsked' => pc[r] = "rembash"
    BY <1>3, <1>5, <2>1 DEF NotAsked, Away
  <2>5. NotAsked' => NotAsked /\ pc'["writer"] = "none" /\ chan'["to_server"] = <<>>
    BY <2>1, <2>4 DEF NotAsked, Delivering, AskOK
  <2>6. CASE pc[r] = "rembash"
    <3>1. NotAsked
      BY <2>6 DEF NotAsked
    <3> QED
      BY <1>2, <2>1, <2>2, <2>3, <2>5, <3>1, ClientAdvances
  <2>7. CASE pc[r] \in {"ok", "read"}
    <3>1. Listening' => Listening
      BY <2>1, <2>7 DEF Listening
    <3>2. Items(buf[r]) \cap Printed = {}
      BY <2>7 DEF Delivering, ReaderOK
    <3>3. Items(chan["to_client"]) \subseteq
            Items(chan'["to_client"]) \cup Items(buf'[r]) \cup {"eof"}
      BY <1>0, <1>1 DEF Reads
    <3>4. Given \cap Printed \subseteq Given'
      BY <2>1, <3>2, <3>3, PrintedWords DEF Given, Items
    <3> QED
      BY <1>2, <2>1, <2>2, <2>3, <2>5, <3>1, <3>4, ClientAdvances
  <2> QED
    BY <2>6, <2>7
<1> QED
  BY <1>4, <1>5

\* It sends the secret ...
LEMMA ReaderSays ==
  ASSUME SessionInv, Delivering, UNCHANGED fixed, NEW message, NEW err \in Away,
         pc["reader"] = "secret", Say("reader", message, "ok", err)
  PROVE  Delivering'
<1> DEFINE r == "reader"
<1>0. r \in Procs /\ r \in ClientSide
  BY Sides
<1>1. Writes(r, "sock", <<message>>, "ok", err)
  BY <1>0, Writing DEF SessionInv
<1>2. Quiet /\ WiresOK'
  BY <1>0, <1>1, ClientCalls
<1>3. PICK l \in {"ok"} \cup Away : Goes(r, l)
  BY <1>1 DEF Writes, Away
<1>4. CASE l \in Away
  BY <1>2, <1>3, <1>4, ReaderLeaves DEF Goes
<1>5. CASE l = "ok"
  <2>1. pc'[r] = "ok" /\ buf'[r] = <<>> /\ NotAsked /\ ~NotAsked'
    BY <1>1, <1>3, <1>5 DEF Goes, Writes, NotAsked
  <2>2. ReaderOK'
    <3>1. Items(buf'[r]) = {}
      BY <2>1 DEF Items
    <3> QED
      BY <3>1 DEF ReaderOK, Items, Printed, Outputs
  <2> QED
    BY <1>2, <2>1, <2>2, ClientAdvances
<1> QED
  BY <1>3, <1>4, <1>5

\* ... and shows what it has read.
LEMMA ReaderShows ==
  ASSUME SessionInv, Delivering, UNCHANGED fixed, NEW l \in {"fork", "read"},
         pc["reader"] \in {"print", "write"}, Show("reader", l)
  PROVE  Delivering'
<1> DEFINE r == "reader"
<1>0. r \in Procs /\ r \in ClientSide
  BY Sides
<1>1. /\ Goes(r, l) /\ UNCHANGED <<holds, fault, chan>>
      /\ buf'[r] = <<>> /\ log'.seen = log.seen \cup Items(buf[r])
  BY <1>0, Showing DEF SessionInv
<1>2. Quiet /\ WiresOK'
  BY <1>0, ClientCalls
<1>3. pc'[r] = l /\ ~NotAsked'
  BY <1>1 DEF Goes, NotAsked
<1>4. ReaderOK'
  <2>1. Items(buf'[r]) = {}
    BY <1>1 DEF Items
  <2> QED
    BY <2>1 DEF ReaderOK, Items, Printed, Outputs
<1>5. Listening' => Listening /\ Given \subseteq Given'
  BY <1>1, <1>3 DEF Listening, Given, Items
<1> QED
  BY <1>2, <1>3, <1>4, <1>5, ClientAdvances

\* It starts the writer.
LEMMA ReaderForks ==
  ASSUME SessionInv, Delivering, UNCHANGED fixed,
         pc["reader"] = "fork", Fork("reader", "writer", "read", "read")
  PROVE  Delivering'
<1> DEFINE r == "reader"
<1>0. /\ r \in Procs /\ "writer" \in Procs /\ r \in ClientSide
      /\ Side(r) = "client" /\ Side("writer") = "client"
      /\ \A q \in ServerSide : q \in Procs \ {r, "writer"}
  BY Sides
<1>1. /\ pc'[r] = "read"
      /\ \A q \in Procs \ {r, "writer"} : pc'[q] = pc[q]
      /\ UNCHANGED <<buf, chan, fault, conn, slave, log>>
      /\ holds'["writer"] = holds[r]
      /\ \A q \in Procs \ {"writer"} : holds'[q] = holds[q]
  BY <1>0, Forking DEF SessionInv
<1>2. WiresOK'
  <2>1. "slave" \notin holds[r] /\ "master" \notin holds[r]
    BY <1>0 DEF Delivering, WiresOK
  <2> QED
    BY <1>0, <1>1, <2>1, WiresOpen DEF SessionInv, Delivering
<1>3. Quiet
  BY <1>0, <1>1 DEF Quiet
<1>4. ~NotAsked' /\ (Listening' => Listening) /\ Given' = Given
  BY <1>0, <1>1 DEF NotAsked, Listening, Given, Items
<1>5. ReaderOK'
  <2>1. Items(buf[r]) \cap Printed = {}
    BY DEF Delivering, ReaderOK
  <2>2. buf' = buf
    BY <1>1
  <2>3. (Items(buf[r]) \cap Printed)' = {}
    BY <2>1, <2>2 DEF Items, Printed, Outputs
  <2> QED
    BY <2>3 DEF ReaderOK
<1> QED
  BY <1>1, <1>2, <1>3, <1>4, <1>5, ClientAdvances

\* The other calls of the reader.
LEMMA ReaderCalls ==
  ASSUME SessionInv, Delivering, UNCHANGED fixed
  PROVE  /\ \A l : /\ Moves(pc["reader"], l)
                   /\ \/ Jump("reader", l) \/ ForkFails("reader", l) \/ Catch("reader", l)
                      \/ CatchAndIgnorePipe("reader", l) \/ IgnoreChildren("reader", l)
                      \/ RunHandler("reader", l)
                   => Delivering'
         /\ \A child, l : l \in Away /\ Wait("reader", child, l) => Delivering'
         /\ \A mode, l, err :
              /\ Moves(pc["reader"], l) /\ Moves(pc["reader"], err)
              /\ SetTty("reader", mode, l, err)
              => Delivering'
         /\ \A D, l : l \in Away /\ Close("reader", D, l) => Delivering'
         /\ \A V, l : l \in Away /\ V \subseteq {"writer", "login"} /\ Terminate("reader", V, l)
              => Delivering'
         /\ \A got, eof, err : {got, eof, err} \subseteq Away /\ Read("reader", "stdin", got, eof, err)
              => Delivering'
         /\ \A next, err : {next, err} \subseteq Away /\ PassOn("reader", "sock", next, err)
              => Delivering'
<1> DEFINE r == "reader"
<1>0. r \in Procs /\ r \in ClientSide /\ Typed
  BY Sides DEF SessionInv
<1>1. ASSUME NEW l, Moves(pc[r], l), Rests /\ Goes(r, l)
      PROVE  Delivering'
  BY <1>1, ReaderRests
<1>2. ASSUME NEW l \in Away PROVE Moves(pc[r], l)
  BY DEF Moves
<1>3. ASSUME NEW l, Moves(pc[r], l),
             \/ Jump(r, l) \/ ForkFails(r, l) \/ Catch(r, l) \/ CatchAndIgnorePipe(r, l)
             \/ IgnoreChildren(r, l) \/ RunHandler(r, l)
      PROVE  Delivering'
  BY <1>0, <1>1, <1>3, RestingCalls
<1>4. ASSUME NEW child, NEW l \in Away, Wait(r, child, l)
      PROVE  Delivering'
  BY <1>0, <1>1, <1>2, <1>4, RestingCalls
<1>5. ASSUME NEW mode, NEW l, NEW err, Moves(pc[r], l), Moves(pc[r], err),
             SetTty(r, mode, l, err)
      PROVE  Delivering'
  BY <1>0, <1>1, <1>5, RestingCalls
<1>6. ASSUME NEW D, NEW l \in Away, Close(r, D, l)
      PROVE  Delivering'
  <2>1. Closes(r, D) /\ Goes(r, l)
    BY <1>0, <1>6, Closing
  <2>2. Quiet /\ WiresOK' /\ pc'[r] = l
    BY <1>0, <2>1, ClientCalls DEF Goes
  <2> QED
    BY <2>2, ReaderLeaves
<1>7. ASSUME NEW V, V \subseteq {"writer", "login"}, NEW l \in Away, Terminate(r, V, l)
      PROVE  Delivering'
  <2>1. /\ Rests /\ pc'[r] = l
        /\ \A q \in Procs \ {r} : pc'[q] # pc[q] => q \in V
    BY <1>0, <1>7, RestingCalls
  <2>2. \A q \in ServerSide : pc'[q] = pc[q]
    BY <1>7, <2>1, Sides
  <2>3. Quiet /\ WiresOK'
    BY <1>0, <2>1, <2>2, ClientCalls
  <2> QED
    BY <2>1, <2>3, ReaderLeaves
<1>8. ASSUME NEW got \in Away, NEW eof \in Away, NEW err \in Away, Read(r, "stdin", got, eof, err)
      PROVE  Delivering'
  <2>1. Reads(r, "stdin", got, eof, err)
    BY <1>0, <1>8, Reading
  <2>2. Quiet /\ WiresOK'
    BY <1>0, <2>1, ClientCalls
  <2>3. pc'[r] \in Away
    BY <2>1 DEF Reads, Goes
  <2> QED
    BY <2>2, <2>3, ReaderLeaves
<1>9. ASSUME NEW next \in Away, NEW err \in Away, PassOn(r, "sock", next, err)
      PROVE  Delivering'
  <2>1. Writes(r, "sock", buf[r], next, err)
    BY <1>0, <1>9, Writing
  <2>2. Quiet /\ WiresOK'
    BY <1>0, <2>1, ClientCalls
  <2>3. pc'[r] \in Away
    BY <2>1 DEF Writes, Goes, Away
  <2> QED
    BY <2>2, <2>3, ReaderLeaves
<1> QED
  BY <1>3, <1>4, <1>5, <1>6, <1>7, <1>8, <1>9

\* Whom a client's process can signal as its parent.
LEMMA Parents == Ppid("reader") \subseteq {"login"} /\ Ppid("writer") \subseteq {"reader"}
  BY DEF Ppid, Parent

\* The reader of lab 2's client.
LEMMA Lab2ReaderDelivers ==
  ASSUME SessionInv, Delivering, UNCHANGED fixed, Client({"lab2"}), L2C!Reader
  PROVE  Delivering'
<1> DEFINE r == "reader"
<1>0. ~Client({"carver"})
  BY DEF Client
<1>1. L2C!setup_socket => Delivering'
  BY L2CCalls, ReaderConnects DEF L2C!setup_socket, At
<1>2. L2C!set_non_canon_mode => Delivering'
  <2>1. pc[r] = "raw" => Moves(pc[r], "rembash")
    BY <1>0 DEF Moves
  <2> QED
    BY <2>1, L2CCalls, ReaderCalls DEF L2C!set_non_canon_mode, At
<1>3. L2C!handle_protocol => Delivering'
  <2>1. At(r, "rembash") /\ Read(r, "sock", "secret", "secret", "dying") => Delivering'
    BY ReaderReads DEF At, Away, Read
  <2>2. At(r, "secret") /\ Say(r, L2C!SECRET, "ok", "dying") => Delivering'
    BY ReaderSays DEF At, Away
  <2>3. At(r, "ok") /\ Read(r, "sock", "print", "print", "dying") => Delivering'
    BY ReaderReads DEF At, Away, Read
  <2>4. At(r, "print") /\ Show(r, "fork") => Delivering'
    BY ReaderShows DEF At
  <2> QED
    BY <2>1, <2>2, <2>3, <2>4, L2CCalls DEF L2C!handle_protocol
<1>4. L2C!main_fork => Delivering'
  <2>1. Moves(pc[r], "no_child") /\ "read_stdin" \in Away
    BY DEF Moves, Away
  <2> QED
    BY <2>1, L2CCalls, ReaderForks, ReaderCalls DEF L2C!main_fork, At
<1>5. L2C!handle_sock_to_stdout => Delivering'
  <2>1. At(r, "read") /\ Read(r, "sock", "write", "leave", "leave") => Delivering'
    BY ReaderReads DEF At, Away, Read
  <2>2. At(r, "write") /\ Show(r, "read") => Delivering'
    BY ReaderShows DEF At
  <2>3. Close(r, {"sock"}, "kill") \/ Terminate(r, {"writer"}, "dying") => Delivering'
    BY ReaderCalls DEF Away
  <2> QED
    BY <2>1, <2>2, <2>3, L2CCalls DEF L2C!handle_sock_to_stdout
<1>6. L2C!handle_stdin_to_sock(r, "read_stdin", "write_stdin", "leave_stdin", "kill_parent")
        => Delivering'
  <2>1. Read(r, "stdin", "write_stdin", "leave_stdin", "leave_stdin") => Delivering'
    BY ReaderCalls DEF Away
  <2>2. PassOn(r, "sock", "read_stdin", "leave_stdin") => Delivering'
    BY ReaderCalls DEF Away
  <2>3. Close(r, {"sock"}, "kill_parent") \/ Terminate(r, Ppid(r), "dying") => Delivering'
    BY ReaderCalls, Parents DEF Away
  <2> QED
    BY <2>1, <2>2, <2>3, L2CCalls DEF L2C!handle_stdin_to_sock
<1> QED
  BY <1>1, <1>2, <1>3, <1>4, <1>5, <1>6 DEF L2C!Reader

\* That of the revised client.
LEMMA Lab2RefactorReaderDelivers ==
  ASSUME SessionInv, Delivering, UNCHANGED fixed, Client({"refactor"}), RFC!Reader
  PROVE  Delivering'
<1> DEFINE r == "reader"
<1>0. ~Client({"carver"})
  BY DEF Client
<1>1. RFC!main_sigaction => Delivering'
  <2>1. pc[r] = "start" => Moves(pc[r], "connect")
    BY DEF Moves
  <2> QED
    BY <2>1, RFCCalls, ReaderCalls DEF RFC!main_sigaction, At
<1>2. RFC!setup_socket => Delivering'
  BY RFCCalls, ReaderConnects DEF RFC!setup_socket, At
<1>3. RFC!set_non_canon_mode => Delivering'
  <2>1. pc[r] = "raw" => Moves(pc[r], "rembash")
    BY <1>0 DEF Moves
  <2> QED
    BY <2>1, RFCCalls, ReaderCalls DEF RFC!set_non_canon_mode, At
<1>4. RFC!handle_protocol => Delivering'
  <2>1. At(r, "rembash") /\ Read(r, "sock", "secret", "secret", "dying") => Delivering'
    BY ReaderReads DEF At, Away, Read
  <2>2. At(r, "secret") /\ Say(r, RFC!SECRET, "ok", "dying") => Delivering'
    BY ReaderSays DEF At, Away
  <2>3. At(r, "ok") /\ Read(r, "sock", "print", "print", "dying") => Delivering'
    BY ReaderReads DEF At, Away, Read
  <2>4. At(r, "print") /\ Show(r, "fork") => Delivering'
    BY ReaderShows DEF At
  <2> QED
    BY <2>1, <2>2, <2>3, <2>4, RFCCalls DEF RFC!handle_protocol
<1>5. RFC!main_fork => Delivering'
  <2>1. Moves(pc[r], "no_child") /\ "read_stdin" \in Away
    BY DEF Moves, Away
  <2> QED
    BY <2>1, RFCCalls, ReaderForks, ReaderCalls DEF RFC!main_fork, At
<1>6. RFC!handle_sock_to_stdout => Delivering'
  <2>1. At(r, "read") /\ Read(r, "sock", "write", "leave", "leave") => Delivering'
    BY ReaderReads DEF At, Away, Read
  <2>2. At(r, "write") /\ Show(r, "read") => Delivering'
    BY ReaderShows DEF At
  <2>3. Close(r, {"sock"}, "kill") \/ Terminate(r, {"writer"}, "exit") => Delivering'
    BY ReaderCalls DEF Away
  <2>4. Jump(r, "dying") => Delivering'
    BY ReaderCalls DEF Away, Moves
  <2> QED
    BY <2>1, <2>2, <2>3, <2>4, RFCCalls DEF RFC!handle_sock_to_stdout
<1>7. RFC!handle_stdin_to_sock(r, "read_stdin", "write_stdin", "leave_stdin", "kill_parent")
        => Delivering'
  <2>1. Read(r, "stdin", "write_stdin", "leave_stdin", "leave_stdin") => Delivering'
    BY ReaderCalls DEF Away
  <2>2. PassOn(r, "sock", "read_stdin", "leave_stdin") => Delivering'
    BY ReaderCalls DEF Away
  <2>3. Close(r, {"sock"}, "kill_parent") \/ Terminate(r, Ppid(r), "dying") => Delivering'
    BY ReaderCalls, Parents DEF Away
  <2> QED
    BY <2>1, <2>2, <2>3, RFCCalls DEF RFC!handle_stdin_to_sock
<1>8. RFC!sigchld_handler \/ RFC!exit_gracefully => Delivering'
  <2>1. /\ \A l \in Away : Moves(pc[r], l)
        /\ {"restore", "wait", "dying"} \subseteq Away
    BY DEF Moves, Away
  <2> QED
    BY <2>1, RFCCalls, ReaderCalls DEF RFC!sigchld_handler, RFC!exit_gracefully
<1> QED
  BY <1>1, <1>2, <1>3, <1>4, <1>5, <1>6, <1>7, <1>8 DEF RFC!Reader

\* That of the course's client, which looks at what it is told.
LEMMA CarverReaderDelivers ==
  ASSUME SessionInv, Delivering, UNCHANGED fixed, Client({"carver"}), CVC!Reader
  PROVE  Delivering'
<1> DEFINE r == "reader"
<1>0. /\ \A l \in Away : Moves(pc[r], l)
      /\ {"leave", "kill", "restore", "wait", "dying"} \subseteq Away
  BY DEF Moves, Away
<1>1. CVC!connect_to_server => Delivering'
  BY <1>0, CVCCalls, ReaderConnects DEF CVC!connect_to_server, At
<1>2. CVC!carry_out_initial_protocol_exchange => Delivering'
  <2>1. At(r, "rembash") /\ ReadUpTo(r, "sock", TRUE, "check_id", "dying", "dying") => Delivering'
    BY <1>0, ReaderReads DEF At
  <2>2. ASSUME NEW l \in {"secret", "dying"}, At(r, "check_id"), Jump(r, l)
        PROVE  Delivering'
    <3>1. Moves(pc[r], l)
      BY <2>2 DEF Moves, At, Away
    <3> QED
      BY <2>2, <3>1, ReaderCalls
  <2>3. At(r, "secret") /\ Say(r, CVC!SECRET, "ok", "dying") => Delivering'
    BY <1>0, ReaderSays DEF At
  <2>4. At(r, "ok") /\ ReadUpTo(r, "sock", TRUE, "check_ok", "dying", "dying") => Delivering'
    BY <1>0, ReaderReads DEF At
  <2>5. ASSUME NEW l \in {"raw", "dying"}, At(r, "check_ok"), Jump(r, l),
               l = "raw" => buf[r] = <<"ok">>
        PROVE  Delivering'
    <3>1. Moves(pc[r], l)
      BY <2>5 DEF Moves, At, Away
    <3> QED
      BY <2>5, <3>1, ReaderCalls
  <2>6. CVC!input_matches_protocol("rembash", "check_id", "rembash", "secret") => Delivering'
    BY <2>1, <2>2, CVCCalls DEF CVC!input_matches_protocol
  <2>7. CVC!input_matches_protocol("ok", "check_ok", "ok", "raw") => Delivering'
    BY <2>4, <2>5, CVCCalls DEF CVC!input_matches_protocol
  <2> QED
    BY <2>3, <2>6, <2>7, CVCCalls DEF CVC!carry_out_initial_protocol_exchange
<1>3. CVC!set_tty_noncanon_noecho => Delivering'
  <2>1. pc[r] = "raw" => Moves(pc[r], "catch")
    BY DEF Moves
  <2> QED
    BY <1>0, <2>1, CVCCalls, ReaderCalls DEF CVC!set_tty_noncanon_noecho, At
<1>4. CVC!exchange_commands_with_server => Delivering'
  <2>1. At(r, "catch") /\ CatchAndIgnorePipe(r, "fork") => Delivering'
    <3>1. pc[r] = "catch" => Moves(pc[r], "fork")
      BY DEF Moves
    <3> QED
      BY <3>1, ReaderCalls DEF At
  <2>2. At(r, "fork") /\ (Fork(r, "writer", "read", "read") \/ ForkFails(r, "dying")) => Delivering'
    BY <1>0, ReaderForks, ReaderCalls DEF At
  <2>3. IgnoreChildren(r, "kill") \/ Terminate(r, {"writer"}, "restore") => Delivering'
    BY <1>0, ReaderCalls
  <2> QED
    BY <2>1, <2>2, <2>3, CVCCalls DEF CVC!exchange_commands_with_server
<1>5. CVC!transfer_data(r, "sock", "leave") => Delivering'
  <2>1. At(r, "read") /\ Read(r, "sock", "write", "leave", "leave") => Delivering'
    BY <1>0, ReaderReads DEF At, Read
  <2>2. At(r, "write") /\ Show(r, "read") => Delivering'
    BY ReaderShows DEF At
  <2> QED
    BY <2>1, <2>2, CVCCalls DEF CVC!transfer_data
<1>6. CVC!sigchld_handler \/ CVC!cleanup_and_exit => Delivering'
  BY <1>0, CVCCalls, ReaderCalls DEF CVC!sigchld_handler, CVC!cleanup_and_exit
<1> QED
  BY <1>1, <1>2, <1>3, <1>4, <1>5, <1>6 DEF CVC!Reader

\* That of the final client.
LEMMA ClientReaderDelivers ==
  ASSUME SessionInv, Delivering, UNCHANGED fixed, Client({"client"}), CLI!Reader
  PROVE  Delivering'
<1> DEFINE r == "reader"
<1>0. /\ ~Client({"carver"})
      /\ \A l \in Away : Moves(pc[r], l)
      /\ {"no_child", "read_stdin", "leave", "exit", "restore", "wait", "dying"} \subseteq Away
  BY DEF Client, Moves, Away
<1>1. CLI!setup_signal_handler => Delivering'
  <2>1. pc[r] = "start" => Moves(pc[r], "connect")
    BY DEF Moves
  <2> QED
    BY <2>1, CLICalls, ReaderCalls DEF CLI!setup_signal_handler, At
<1>2. CLI!connect_to_server => Delivering'
  BY <1>0, CLICalls, ReaderConnects DEF CLI!connect_to_server, At
<1>3. CLI!set_non_canon_mode => Delivering'
  <2>1. pc[r] = "raw" => Moves(pc[r], "rembash")
    BY <1>0 DEF Moves
  <2> QED
    BY <2>1, CLICalls, ReaderCalls DEF CLI!set_non_canon_mode, At
<1>4. CLI!handle_protocol => Delivering'
  <2>1. At(r, "rembash") /\ Read(r, "sock", "secret", "secret", "dying") => Delivering'
    BY ReaderReads DEF At, Away, Read
  <2>2. At(r, "secret") /\ Say(r, CLI!SECRET, "ok", "dying") => Delivering'
    BY ReaderSays DEF At, Away
  <2>3. At(r, "ok") /\ Read(r, "sock", "print", "print", "dying") => Delivering'
    BY ReaderReads DEF At, Away, Read
  <2>4. At(r, "print") /\ Show(r, "fork") => Delivering'
    BY ReaderShows DEF At
  <2> QED
    BY <2>1, <2>2, <2>3, <2>4, CLICalls DEF CLI!handle_protocol
<1>5. CLI!main_fork => Delivering'
  BY <1>0, CLICalls, ReaderForks, ReaderCalls DEF CLI!main_fork, At
<1>6. CLI!ReaderLoop => Delivering'
  <2>1. At(r, "read") /\ Read(r, "sock", "write", "leave", "leave") => Delivering'
    BY <1>0, ReaderReads DEF At, Read
  <2>2. At(r, "write") /\ Show(r, "read") => Delivering'
    BY ReaderShows DEF At
  <2>3. Terminate(r, {"writer"}, "exit") \/ Terminate(r, Ppid(r), "exit") => Delivering'
    BY <1>0, ReaderCalls, Parents
  <2>4. Read(r, "stdin", "write_stdin", "leave_stdin", "leave_stdin") => Delivering'
    BY ReaderCalls DEF Away
  <2>5. PassOn(r, "sock", "read_stdin", "leave_stdin") => Delivering'
    BY ReaderCalls DEF Away
  <2>6. Jump(r, "dying") => Delivering'
    BY <1>0, ReaderCalls
  <2>7. CLI!handle_data_transfer(r, "sock", {"writer"}, "read", "write", "leave") => Delivering'
    BY <2>1, <2>2, <2>3, CLICalls DEF CLI!handle_data_transfer
  <2>8. CLI!handle_data_transfer(r, "stdin", CLI!Ppid(r),
                                 "read_stdin", "write_stdin", "leave_stdin") => Delivering'
    BY <2>3, <2>4, <2>5, CLICalls DEF CLI!handle_data_transfer
  <2> QED
    BY <2>6, <2>7, <2>8, CLICalls DEF CLI!ReaderLoop
<1>7. CLI!sigchld_handler \/ CLI!exit_gracefully => Delivering'
  BY <1>0, CLICalls, ReaderCalls DEF CLI!sigchld_handler, CLI!exit_gracefully
<1> QED
  BY <1>1, <1>2, <1>3, <1>4, <1>5, <1>6, <1>7 DEF CLI!Reader

\* A step that leaves the reader where it is, or kills it.
LEMMA ReaderUndisturbed ==
  ASSUME SessionInv, Delivering, UNCHANGED fixed, Quiet, WiresOK', UNCHANGED conn,
         pc'["reader"] \in {pc["reader"], "dying"},
         holds'["reader"] = holds["reader"], buf'["reader"] = buf["reader"],
         log'.seen = log.seen,
         "sock" \in holds["reader"] => chan'["to_client"] = chan["to_client"],
         NotAsked => pc'["writer"] = "none" /\ chan'["to_server"] = <<>>
  PROVE  Delivering'
<1>1. CASE pc'["reader"] # pc["reader"]
  BY <1>1, ReaderLeaves DEF Away
<1>2. CASE pc'["reader"] = pc["reader"]
  <2>1. ReaderOK'
    BY <1>2, ReaderAside DEF Delivering
  <2>2. NotAsked' => NotAsked
    BY <1>2, ProgramsStay DEF NotAsked
  <2>3. pc'["reader"] \in {"start", "connect"} => conn' = "none"
    BY <1>2 DEF Delivering, AskOK
  <2>4. Listening' => Listening
    BY <1>2 DEF Listening
  <2>5. Listening => Given' = Given
    BY DEF Listening, Given, Items
  <2> QED
    BY <2>1, <2>2, <2>3, <2>4, <2>5, ClientAdvances
<1> QED
  BY <1>1, <1>2

\* The writers.
LEMMA WriterDelivers ==
  ASSUME SessionInv, Delivering, UNCHANGED fixed, ~Client({"lab1"}), WriterSteps
  PROVE  Delivering'
<1> DEFINE w == "writer"
<1>0. w \in Procs /\ w \in ClientSide /\ "reader" \in Procs /\ Typed /\ Wires \subseteq Channels
  BY Sides DEF SessionInv, Wires, Channels
<1>1. ASSUME pc[w] # "none", Quiet, WiresOK', UNCHANGED conn,
             pc'["reader"] \in {pc["reader"], "dying"},
             holds'["reader"] = holds["reader"], buf'["reader"] = buf["reader"],
             log'.seen = log.seen,
             "sock" \in holds["reader"] => chan'["to_client"] = chan["to_client"]
      PROVE  Delivering'
  <2>1. ~NotAsked
    BY <1>1 DEF Delivering, AskOK
  <2> QED
    BY <1>1, <2>1, ReaderUndisturbed
<1>2. ASSUME pc[w] # "none", NEW got, NEW eof, NEW err, Read(w, "stdin", got, eof, err)
      PROVE  Delivering'
  <2>1. Reads(w, "stdin", got, eof, err)
    BY <1>0, <1>2, Reading
  <2>2. Quiet /\ WiresOK'
    BY <1>0, <2>1, ClientCalls
  <2>3. /\ pc'["reader"] = pc["reader"] /\ Alone(w) /\ holds' = holds /\ log'.seen = log.seen
        /\ chan'["to_client"] = chan["to_client"]
    BY <1>0, <2>1 DEF Reads, Goes, In, Wires
  <2> QED
    BY <1>0, <1>1, <1>2, <2>2, <2>3 DEF Alone
<1>3. ASSUME pc[w] # "none", NEW next, NEW err, PassOn(w, "sock", next, err)
      PROVE  Delivering'
  <2>1. Writes(w, "sock", buf[w], next, err)
    BY <1>0, <1>3, Writing
  <2>2. Quiet /\ WiresOK'
    BY <1>0, <2>1, ClientCalls
  <2>3. /\ pc'["reader"] = pc["reader"] /\ Alone(w) /\ holds' = holds /\ log'.seen = log.seen
    BY <1>0, <2>1 DEF Writes, Goes
  <2>4. chan'["to_client"] = chan["to_client"]
    BY <1>0, <2>1 DEF Writes, Out, Wires, Typed, CargoOK
  <2> QED
    BY <1>0, <1>1, <1>3, <2>2, <2>3, <2>4 DEF Alone
<1>4. ASSUME pc[w] # "none", NEW D, NEW l, Close(w, D, l)
      PROVE  Delivering'
  <2>1. Closes(w, D) /\ Goes(w, l)
    BY <1>0, <1>4, Closing
  <2>2. Quiet /\ WiresOK'
    BY <1>0, <2>1, ClientCalls
  <2>3. /\ pc'["reader"] = pc["reader"] /\ Alone(w) /\ log'.seen = log.seen
        /\ "sock" \in holds["reader"] => chan'["to_client"] = chan["to_client"]
    BY <1>0, <2>1, Sides DEF Closes, Goes
  <2> QED
    BY <1>0, <1>1, <1>4, <2>2, <2>3 DEF Alone
<1>5. ASSUME pc[w] # "none", NEW l, Terminate(w, Ppid(w), l)
      PROVE  Delivering'
  <2>1. /\ Rests /\ pc'[w] = l
        /\ \A q \in Procs \ {w} : pc'[q] # pc[q] => q = "reader" /\ pc'[q] = "dying"
    BY <1>0, <1>5, RestingCalls, Parents
  <2>2. \A q \in ServerSide : pc'[q] = pc[q]
    BY <2>1, Sides
  <2>3. Quiet /\ WiresOK'
    BY <1>0, <2>1, <2>2, ClientCalls
  <2>4. pc'["reader"] \in {pc["reader"], "dying"}
    BY <1>0, <2>1
  <2> QED
    BY <1>1, <1>5, <2>1, <2>3, <2>4 DEF Rests, Wires
<1>6. ASSUME pc[w] # "none", NEW l, Jump(w, l)
      PROVE  Delivering'
  <2>1. Rests /\ Goes(w, l)
    BY <1>0, <1>6, RestingCalls
  <2>2. (\A q \in ServerSide : pc'[q] = pc[q]) /\ pc'["reader"] = pc["reader"]
    BY <2>1, Sides DEF Goes
  <2>3. Quiet /\ WiresOK'
    BY <1>0, <2>1, <2>2, ClientCalls
  <2> QED
    BY <1>1, <1>6, <2>1, <2>2, <2>3 DEF Rests, Wires
<1>7. Client({"lab2"}) /\ L2C!Writer => Delivering'
  BY <1>2, <1>3, <1>4, <1>5, L2CCalls DEF L2C!Writer, L2C!handle_stdin_to_sock, At
<1>8. Client({"refactor"}) /\ RFC!Writer => Delivering'
  BY <1>2, <1>3, <1>4, <1>5, RFCCalls DEF RFC!Writer, RFC!handle_stdin_to_sock, At
<1>9. Client({"carver"}) /\ CVC!Writer => Delivering'
  BY <1>2, <1>3, CVCCalls DEF CVC!Writer, CVC!transfer_data, At
<1>10. Client({"client"}) /\ CLI!Writer => Delivering'
  BY <1>2, <1>3, <1>5, <1>6, CLICalls DEF CLI!Writer, CLI!handle_data_transfer, At
<1> QED
  BY <1>7, <1>8, <1>9, <1>10 DEF WriterSteps

\* The end of a process.
LEMMA GoneDelivers ==
  ASSUME SessionInv, Lab2, Delivering, UNCHANGED fixed, NEW p \in Procs, Gone(p)
  PROVE  Delivering'
<1> USE DEF SessionInv
<1>1. Closes(p, holds[p]) /\ Goes(p, "gone") /\ pc[p] = "dying" /\ pc'[p] = "gone"
  BY Closing DEF Gone, Goes
<1>2. /\ \A q \in Procs \ {p} : pc'[q] = pc[q] /\ holds'[q] = holds[q] /\ buf'[q] = buf[q]
      /\ UNCHANGED <<conn, slave>> /\ log'.printed = log.printed /\ log'.seen = log.seen
      /\ holds'[p] = {} /\ buf'[p] \in {buf[p], <<>>}
  BY <1>1 DEF Closes, Alone, Goes
<1>3. CASE p = "server"
  BY <1>1, <1>3 DEF ServerPart, ServerStays, Lab2, Server
<1>4. CASE p \in {"bash", "relay"}
  BY <1>1, <1>4, OthersClose
<1>5. CASE p = "handler"
  <2>1. /\ chan'["to_client"] = chan["to_client"]
        /\ chan'["to_server"] \in {chan["to_server"], <<>>}
        /\ chan'["from_shell"] \in {chan["from_shell"], <<>>}
    BY <1>1, <1>5, Sides DEF Closes, Wires
  <2>2. WiresOK'
    <3>1. "listen" \in holds'["server"]
      BY <1>2, <1>5, Sides DEF Delivering, WiresOK
    <3> QED
      BY <1>1, <3>1, WiresStay DEF Delivering
  <2> QED
    BY <1>1, <1>2, <1>5, <2>1, <2>2, Sides, OverStays DEF Over
<1>6. CASE p = "reader"
  <2>1. Quiet /\ WiresOK'
    BY <1>1, <1>6, Sides, ClientCalls
  <2> QED
    BY <1>1, <1>6, <2>1, ReaderLeaves DEF Away
<1>7. CASE p = "writer"
  <2>1. Quiet /\ WiresOK'
    BY <1>1, <1>7, Sides, ClientCalls
  <2>2. "sock" \in holds["reader"] => chan'["to_client"] = chan["to_client"]
    BY <1>1, <1>7, Sides DEF Closes
  <2>3. ~NotAsked
    BY <1>1, <1>7 DEF Delivering, AskOK
  <2> QED
    BY <1>2, <1>7, <2>1, <2>2, <2>3, Sides, ReaderUndisturbed
<1>8. CASE p = "login"
  <2>1. holds[p] = {}
    BY <1>8 DEF Delivering, WiresOK
  <2>2. holds'[p] = holds[p] /\ \A q \in Procs : holds'[q] = holds[q]
    BY <1>2, <2>1
  <2>3. /\ chan'["to_client"] = chan["to_client"] /\ chan'["from_shell"] = chan["from_shell"]
        /\ chan'["to_server"] \in {chan["to_server"], <<>>}
        /\ \A s \in {"client", "server"} : fault'[s] = fault[s]
    BY <1>1, <2>1 DEF Closes, Wires
  <2>4. WiresOK'
    <3>1. "listen" \in holds'["server"]
      BY <1>2, <1>8, Sides DEF Delivering, WiresOK
    <3> QED
      BY <1>1, <3>1, WiresStay DEF Delivering
  <2>5. Quiet
    BY <1>2, <1>8, <2>3, Sides DEF Quiet
  <2>6. NotAsked => pc'["writer"] = "none" /\ chan'["to_server"] = <<>>
    BY <1>2, <1>8, <2>3, Sides DEF Delivering, AskOK
  <2> QED
    BY <1>2, <1>8, <2>3, <2>4, <2>5, <2>6, Sides, ReaderUndisturbed
<1> QED
  BY <1>3, <1>4, <1>5, <1>6, <1>7, <1>8 DEF Procs, ClientSide, ServerSide

\* Only the shell's process is a shell, and it prints to the terminal.
LEMMA OneShell ==
  ASSUME SessionInv, Delivering, NEW p \in Procs, IsShell(p)
  PROVE  /\ p = "bash" /\ pc["bash"] = "shell" /\ slave = "opened" /\ "slave" \in holds["bash"]
         /\ Out(p, ShellFd(p)) = "from_shell" /\ In(p, ShellFd(p)) = "to_shell"
<1>1. pc[p] = "shell"
  BY DEF IsShell
<1>2. p = "bash"
  BY <1>1 DEF Procs, ClientSide, ServerSide, SessionInv, PlacesOK, LoginPC, ServerPC,
     RelayPC, ReaderPC, WriterPC, Delivering, StagesOK, BeforeBash, Copying, Over
<1>3. slave = "opened" /\ "slave" \in holds["bash"]
  BY <1>1, <1>2 DEF Delivering, ShellOK
<1> QED
  BY <1>1, <1>2, <1>3 DEF ShellFd, Out, In

\* What the shell prints goes into the terminal, and is held there.
LEMMA ShellDelivers ==
  ASSUME SessionInv, Lab2, Delivering, UNCHANGED fixed, NEW p \in Procs,
         ShellPrints(p) \/ ShellEnds(p)
  PROVE  Delivering'
<1> USE DEF SessionInv
<1>0. /\ p = "bash" /\ p \in Procs /\ pc[p] = "shell" /\ slave = "opened" /\ "slave" \in holds[p]
      /\ Out(p, ShellFd(p)) = "from_shell" /\ In(p, ShellFd(p)) = "to_shell"
  BY OneShell DEF ShellPrints, ShellEnds
<1>1. CASE ShellEnds(p)
  <2>1. Rests /\ Goes(p, "dying") /\ pc'[p] = "dying"
    BY <1>0, <1>1, RestingCalls DEF ShellEnds, Goes
  <2>2. WiresOK'
    BY <2>1, WiresStay DEF Delivering
  <2>3. ShellOK'
    <3>1. /\ Items(chan'["from_shell"]) \subseteq Printed /\ slave' = "opened"
      BY <1>0, <2>1 DEF Rests, Wires, Delivering, ShellOK
    <3> QED
      BY <1>0, <2>1, <3>1 DEF ShellOK, Items, Printed, Outputs
  <2>4. ~Silent
    BY <1>0 DEF Silent
  <2> QED
    BY <1>0, <2>1, <2>2, <2>3, <2>4, BashAside DEF Rests, BashPC
<1>2. CASE ShellPrints(p)
  <2> DEFINE out == Outputs[log.printed + 1]
  <2>1. /\ UNCHANGED <<holds, buf, fault, conn, slave>>
        /\ log'.printed = log.printed + 1 /\ log'.seen = log.seen
        /\ log.printed + 1 \in 1 .. Len(Outputs)
    <3>1. log.printed \in Nat /\ log.printed < Len(Outputs) /\ Len(Outputs) \in Nat
      BY <1>2 DEF ShellPrints, Typed, SystemOK, Outputs
    <3> QED
      BY <1>2, <3>1 DEF ShellPrints, Typed, SystemOK
  <2>2. /\ pc'[p] \in {"shell", "dying"} /\ \A q \in Procs \ {p} : pc'[q] = pc[q]
    BY <1>0, <1>2 DEF ShellPrints, Move, Typed
  <2>3. /\ chan'["from_shell"] = Append(chan["from_shell"], out)
        /\ chan'["to_client"] = chan["to_client"]
    <3>1. {"from_shell", "to_client", "to_shell"} \subseteq DOMAIN chan
      BY DEF Typed, CargoOK, Channels
    <3>2. PICK says : /\ says = [chan EXCEPT !["from_shell"] = Append(@, out)]
                      /\ chan' = says \/ chan' = [says EXCEPT !["to_shell"] = Tail(@)]
      BY <1>0, <1>2 DEF ShellPrints
    <3> QED
      BY <3>1, <3>2
  <2>4. Items(chan'["from_shell"]) = Items(chan["from_shell"]) \cup {out}
    <3>1. chan["from_shell"] \in Seq(Harmless)
      BY DEF Typed, CargoOK, Channels
    <3>2. Items(Append(chan["from_shell"], out)) = Items(chan["from_shell"]) \cup {out}
      BY <3>1, AddedOne
    <3> QED
      BY <2>3, <3>2
  <2>5. Said' = Said \cup {out} /\ out \in Printed
    <3>1. 1 .. log.printed + 1 = (1 .. log.printed) \cup {log.printed + 1}
      BY <2>1 DEF Typed, SystemOK
    <3>2. Said' = {Outputs[i] : i \in 1 .. log.printed + 1}
      BY <2>1 DEF Said, Outputs
    <3> QED
      BY <2>1, <3>1, <3>2 DEF Said, Printed
  <2>6. WiresOK'
    BY <2>1 DEF Delivering, WiresOK, Hung
  <2>7. StagesOK'
    BY <1>0, <2>1, <2>2, Sides DEF Delivering, StagesOK, BeforeBash
  <2>8. HandlerOK'
    BY <1>0, <2>1, <2>2, Sides DEF Delivering, HandlerOK
  <2>9. ShellOK'
    <3>1. Items(chan'["from_shell"]) \subseteq Printed
      BY <2>4, <2>5 DEF Delivering, ShellOK
    <3> QED
      BY <1>0, <2>1, <2>2, <3>1 DEF ShellOK, Items, Printed, Outputs
  <2>10. ReaderOK'
    BY <1>0, <2>1, <2>2, Sides, ReaderAside DEF Delivering
  <2>11. AskOK'
    <3>1. ~NotAsked
      BY <1>0 DEF Delivering, AskOK
    <3> QED
      BY <1>0, <2>1, <2>2, <3>1, Sides, AskAside DEF Delivering
  <2>12. Conserved'
    <3> SUFFICES ASSUME Listening', ~Lost'
                 PROVE  pc'["handler"] \notin Over /\ Said' \subseteq Given' \cup Held'
      BY DEF Conserved
    <3>1. Listening /\ ~Lost /\ pc'["handler"] = pc["handler"]
      BY <1>0, <2>1, <2>2, Sides DEF Listening, Lost
    <3>2. ~Silent
      BY <1>0 DEF Silent
    <3>3. pc["handler"] \notin Over /\ Said \subseteq Given \cup Held
      BY <3>1, <3>2 DEF Delivering, Conserved
    <3>4. Given' = Given /\ Held' = Held \cup {out}
      <4>1. Given' = Given
        BY <2>1, <2>3 DEF Given, Items
      <4>2. Held' = Items(chan'["from_shell"]) \cup Items(buf["handler"])
        BY <2>1 DEF Held, Items
      <4> QED
        BY <2>4, <4>1, <4>2 DEF Held
    <3> QED
      BY <2>5, <3>1, <3>3, <3>4
  <2> QED
    BY <2>6, <2>7, <2>8, <2>9, <2>10, <2>11, <2>12 DEF Delivering
<1> QED
  BY <1>1, <1>2

\* What the user does, and nothing at all.
LEMMA UserDelivers ==
  ASSUME SessionInv, Delivering, UNCHANGED fixed, User \/ UNCHANGED vars
  PROVE  Delivering'
<1> USE DEF SessionInv
<1>1. /\ UNCHANGED <<holds, buf, fault, conn, slave>>
      /\ \A c \in Wires : chan'[c] = chan[c]
      /\ log'.printed = log.printed /\ log'.seen = log.seen
      /\ \A q \in Procs : pc'[q] = pc[q] \/ (q \in ClientSide /\ pc'[q] = "dying" /\ Alive(q))
  <2>1. CASE \E item \in {"line", "exit", "eof"} : Type(item)
    BY <2>1 DEF Type, Wires, Typed, SystemOK, CargoOK, Channels
  <2>2. CASE TypeInterrupt
    BY <2>2 DEF TypeInterrupt, Typed, SystemOK, bytes
  <2>3. CASE UNCHANGED vars
    BY <2>3 DEF vars, bytes, tail
  <2> QED
    BY <2>1, <2>2, <2>3 DEF User
<1>2. Rests
  BY <1>1 DEF Rests
<1>3. Quiet /\ WiresOK'
  BY <1>1, <1>2, Sides, ClientCalls
<1>4. NotAsked => pc'["writer"] = "none" /\ chan'["to_server"] = <<>>
  BY <1>1, Sides DEF Delivering, AskOK, Alive, Wires
<1>5. pc'["reader"] \in {pc["reader"], "dying"}
  BY <1>1, Sides
<1> QED
  BY <1>1, <1>3, <1>4, <1>5, ReaderUndisturbed DEF Wires

------------------------------------------------------------------------------
(* The theorems *)

\* Nothing has been said at the start, and nobody is connected.
LEMMA InitDelivers == ASSUME Init PROVE Delivering
<1>0. \A p \in Procs : pc[p] = CASE p = "login"  -> "waiting"
                                [] p = "server" -> "accept"
                                [] p = "reader" -> "start"
                                [] OTHER        -> "none"
  BY DEF Init
<1>1. /\ pc["server"] = "accept" /\ pc["reader"] = "start"
      /\ \A q \in {"handler", "bash", "relay", "writer"} : pc[q] = "none"
  BY <1>0 DEF Procs, ClientSide, ServerSide
<1>2. /\ holds["server"] = {"listen"} /\ holds["login"] = {} /\ holds["handler"] = {}
      /\ \A q \in Procs : holds[q] \subseteq {"listen", "stdin"}
      /\ \A q \in Procs : buf[q] = <<>>
      /\ \A c \in Channels : chan[c] = <<>>
      /\ conn = "none" /\ slave = "new" /\ log.printed = 0
      /\ fault["client"] = "none" /\ fault["server"] = "none"
  BY Sides DEF Init
<1>3. Items(<<>>) = {}
  BY DEF Items
<1>4. WiresOK
  BY <1>2 DEF WiresOK
<1>5. StagesOK
  BY <1>1, <1>2 DEF StagesOK, BeforeBash, Copying, Over
<1>6. HandlerOK
  BY <1>1, <1>2, Sides DEF HandlerOK, Copying, Over
<1>7. ShellOK
  BY <1>1, <1>2, <1>3 DEF ShellOK, Channels
<1>8. AskOK
  BY <1>1, <1>2, Sides DEF AskOK, Early, Channels
<1>9. ReaderOK
  BY <1>2, <1>3, Sides DEF ReaderOK
<1>10. Conserved
  <2>1. Said = {}
    BY <1>2 DEF Said
  <2> QED
    BY <1>1, <2>1 DEF Conserved, Over
<1> QED
  BY <1>4, <1>5, <1>6, <1>7, <1>8, <1>9, <1>10 DEF Delivering

\* Every step of a session keeps the invariant.
LEMMA StepDelivers ==
  ASSUME SessionInv, Lab2, Delivering, UNCHANGED fixed, [Next]_vars
  PROVE  Delivering'
<1>1. Server({"lab2"}) /\ ~Server({"lab1"}) /\ ~Server({"refactor"}) /\ ~Server({"carver"})
      /\ ~Client({"lab1"})
  BY DEF Lab2, Server
<1>2. ServerSteps => Delivering'
  BY <1>1, MainDelivers DEF ServerSteps
<1>3. HandlerSteps => Delivering'
  BY <1>1, HandlerDelivers DEF HandlerSteps
<1>4. BashSteps => Delivering'
  BY <1>1, BashDelivers DEF BashSteps
<1>5. RelaySteps => Delivering'
  BY <1>1, RelayDelivers DEF RelaySteps
<1>6. ReaderSteps => Delivering'
  BY <1>1, Lab2ReaderDelivers, Lab2RefactorReaderDelivers, CarverReaderDelivers,
     ClientReaderDelivers DEF ReaderSteps
<1>7. WriterSteps => Delivering'
  BY <1>1, WriterDelivers
<1>8. (\E p \in Procs : Gone(p) \/ ShellPrints(p) \/ ShellEnds(p)) => Delivering'
  BY GoneDelivers, ShellDelivers
<1>9. User \/ UNCHANGED vars => Delivering'
  BY UserDelivers
<1> QED
  BY <1>2, <1>3, <1>4, <1>5, <1>6, <1>7, <1>8, <1>9 DEF Next, Progress

\* The programs of a session stay the same.
LEMMA FixedStays == ASSUME SessionInv, [Next]_vars PROVE UNCHANGED fixed
<1>1. ServerSteps => UNCHANGED fixed
  <2>1. ServerSteps => \/ ServerGoes({"accept", "fork", "close"})
                       \/ ServerGoes({"accept", "fork", "close", "dying"})
    BY Lab1ServerSteps, Lab2ServerSteps, Lab2RefactorServerSteps, CarverServerSteps
       DEF SessionInv, ServerSteps
  <2> QED
    BY <2>1 DEF ServerGoes, Plain, Step, Forks, TypedNext
<1>2. HandlerSteps => UNCHANGED fixed
  <2>1. HandlerSteps => \/ HandlerGoes({}) \/ HandlerGoes({"bash", "relay"})
                        \/ HandlerGoes(ServerSide)
    BY Lab1ServerSteps, Lab2ServerSteps, Lab2RefactorServerSteps, CarverServerSteps
       DEF SessionInv, HandlerSteps
  <2> QED
    BY <2>1 DEF HandlerGoes, Plain, Step, Forks, TypedNext
<1>3. BashSteps \/ RelaySteps => UNCHANGED fixed
  <2>1. BashSteps \/ RelaySteps => BashGoes \/ RelayGoes
    BY Lab2ServerSteps, Lab2RefactorServerSteps, CarverServerSteps
       DEF SessionInv, BashSteps, RelaySteps
  <2> QED
    BY <2>1 DEF BashGoes, RelayGoes, Plain, Step, TypedNext
<1>4. ReaderSteps => UNCHANGED fixed
  <2>1. ReaderSteps => ReaderGoes
    BY Lab1ClientSteps, Lab2ClientSteps, Lab2RefactorClientSteps, CarverClientSteps,
       ClientSteps DEF SessionInv, ReaderSteps
  <2> QED
    BY <2>1 DEF ReaderGoes, Plain, Step, Forks, TypedNext
<1>5. WriterSteps => UNCHANGED fixed
  <2>1. WriterSteps => WriterGoes({}) \/ WriterGoes({"reader"})
    BY Lab1ClientSteps, Lab2ClientSteps, Lab2RefactorClientSteps, CarverClientSteps,
       ClientSteps DEF SessionInv, WriterSteps
  <2> QED
    BY <2>1 DEF WriterGoes, Plain, Step, TypedNext
<1>6. ASSUME NEW p \in Procs, Gone(p) \/ ShellPrints(p) \/ ShellEnds(p)
      PROVE  UNCHANGED fixed
  <2>1. Gone(p) => UNCHANGED fixed
    BY ClosingCalls DEF SessionInv, TypedNext
  <2>2. ShellPrints(p) \/ ShellEnds(p) => UNCHANGED fixed
    BY DEF ShellPrints, ShellEnds, Jump, tail
  <2> QED
    BY <1>6, <2>1, <2>2
<1>7. User => UNCHANGED fixed
  BY UserSteps DEF SessionInv, User, TypedNext
<1>8. UNCHANGED vars => UNCHANGED fixed
  BY DEF vars, tail
<1> QED
  BY <1>1, <1>2, <1>3, <1>4, <1>5, <1>6, <1>7, <1>8 DEF Next, Progress

\* When the reader finds the connection closed in order, the handler has passed
\* everything on, and the reader has shown it.
LEMMA DeliveredAtEnd ==
  ASSUME SessionInv, Lab2 => Delivering
  PROVE  ~Client({"lab1"}) => Lab2DeliversOutput
<1> SUFFICES ASSUME Lab2, Delivering, pc["relay"] = "gone",
                    At("reader", "read"), AtEof("reader", "sock")
             PROVE  Said \subseteq log.seen
  BY DEF Lab2DeliversOutput, OutputDelivered, Lab2, Said
<1>1. /\ pc["reader"] = "read" /\ "sock" \in holds["reader"] /\ chan["to_client"] = <<>>
      /\ fault["client"] = "broken" \/ (fault["client"] = "none" /\ ~EndOpen("server"))
  BY Sides DEF At, AtEof, In
<1>2. Listening /\ ~Lost
  BY <1>1 DEF Listening, Lost
<1>3. Hung("server")
  <2>1. conn # "none"
    BY <1>1, Sides DEF Delivering, WiresOK
  <2>2. CASE fault["client"] = "broken"
    BY <2>2, Sides DEF Delivering, WiresOK
  <2>3. CASE ~EndOpen("server")
    BY <2>1, <2>3, EndsHung DEF SessionInv, Delivering
  <2> QED
    BY <1>1, <2>2, <2>3
<1>4. pc["handler"] \in Over
  <2>1. pc["handler"] \in Copying \cup Over
    BY DEF Delivering, StagesOK
  <2>2. "sock" \notin holds["handler"]
    BY <1>3, Sides DEF Hung
  <2>3. fault["server"] = "none"
    <3>1. ~Hung("client")
      BY <1>1, Sides DEF Hung
    <3> QED
      BY <3>1, Sides DEF Delivering, WiresOK
  <2> QED
    BY <2>1, <2>2, <2>3 DEF Delivering, HandlerOK
<1>5. Said \subseteq Given
  BY <1>2, <1>4 DEF Delivering, Conserved
<1>6. Items(buf["reader"]) \cap Printed = {} /\ Items(chan["to_client"]) = {}
  BY <1>1 DEF Delivering, ReaderOK, Items
<1> QED
  BY <1>5, <1>6, SaidIsPrinted DEF Given, SessionInv

\* In every session with lab 2's server, whichever of the other clients it serves, what
\* the shell printed is on its way to the user or shown until the session fails or the
\* client stops reading.
THEOREM OutputConserved == Spec => [](Lab2 => Delivering)
<1>1. Init => (Lab2 => Delivering)
  BY InitDelivers
<1>2. SessionInv /\ (Lab2 => Delivering) /\ [Next]_vars => (Lab2 => Delivering)'
  BY FixedStays, StepDelivers, ProgramsStay
<1> QED
  BY <1>1, <1>2, SessionKept, PTL DEF Spec

\* lab2-server.c reads the terminal to its end before it leaves, whatever ends
\* first: a client that finds the connection closed in order has shown all of it.
THEOREM EverythingIsShown == Spec => [](~Client({"lab1"}) => Lab2DeliversOutput)
<1>1. SessionInv /\ (Lab2 => Delivering) => (~Client({"lab1"}) => Lab2DeliversOutput)
  BY DeliveredAtEnd
<1> QED
  BY <1>1, SessionKept, OutputConserved, PTL
==============================================================================
