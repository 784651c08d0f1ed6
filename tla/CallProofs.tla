----------------------------- MODULE CallProofs -----------------------------
(***************************************************************************)
(* Call: its safety properties for any number of requests and responses,   *)
(* any metadata that application code may set, and every fault.            *)
(***************************************************************************)
EXTENDS Call, TLAPS

LEMMA Bounds == MaxReqs \in Nat /\ MaxResps \in Nat
BY CallAssumption

USE Bounds

-----------------------------------------------------------------------------
(* Metadata maps.                                                          *)

\* A map the library builds over another has the keys of both.
LEMMA OverMDs ==
  ASSUME NEW md \in MDs, NEW old \in MDs
  PROVE  /\ Over(md, old) \in MDs
         /\ DOMAIN Over(md, old) = DOMAIN md \cup DOMAIN old
<1>1. DOMAIN md \subseteq Keys /\ DOMAIN old \subseteq Keys
  BY DEF MDs, Keys
<1>2. \A k \in DOMAIN md : md[k] \in Values
  BY DEF MDs, Keys
<1>3. \A k \in DOMAIN old : old[k] \in Values
  BY DEF MDs, Keys
<1> DEFINE D == DOMAIN md \cup DOMAIN old
<1>4. D \in {{}, {"a"}, {"b"}, Keys}
  BY <1>1 DEF Keys
<1>5. Over(md, old) \in [D -> Values]
  BY <1>2, <1>3 DEF Over
<1> QED
  BY <1>4, <1>5 DEF MDs

LEMMA NilMD == Nil \in MDs /\ DOMAIN Nil = {}
BY DEF Nil, MDs

\* What one setter gives, flattened for a frame: its one key with its one value.
LEMMA OneSetter ==
  ASSUME NEW k \in Keys, NEW who \in Setters, NEW late
  PROVE  /\ MD(k, who) \in [Keys -> Values]
         /\ FlattenMD(MD(k, who)) \in MDs
         /\ Carries(FlattenMD(MD(k, who)), {<<k, who, late>>})
<1>1. MD(k, who) = [x \in Keys |-> IF x = k THEN <<who>> ELSE <<>>]
  BY DEF MD, NoMD
<1>2. <<who>> \in Values /\ <<>> \in Values /\ <<who>> # <<>>
  BY DEF Values
<1>3. {x \in Keys : MD(k, who)[x] # <<>>} = {k}
  BY <1>1, <1>2
<1>4. FlattenMD(MD(k, who)) = [x \in {k} |-> <<who>>]
  BY <1>1, <1>3 DEF FlattenMD
<1>5. FlattenMD(MD(k, who)) \in MDs
  BY <1>2, <1>4 DEF MDs, Keys
<1>6. Carries(FlattenMD(MD(k, who)), {<<k, who, late>>})
  BY <1>4 DEF Carries
<1> QED
  BY <1>1, <1>2, <1>5, <1>6

LEMMA JoinMD ==
  ASSUME NEW md \in [Keys -> Values], NEW more \in [Keys -> Values]
  PROVE  Join(md, more) \in [Keys -> Values]
BY DEF Join, Values

LEMMA FlattenMDs ==
  ASSUME NEW md \in [Keys -> Values]
  PROVE  FlattenMD(md) \in MDs
<1> DEFINE D == {x \in Keys : md[x] # <<>>}
<1>1. D \in {{}, {"a"}, {"b"}, Keys}
  BY DEF Keys
<1>2. FlattenMD(md) \in [D -> Values]
  BY DEF FlattenMD
<1> QED
  BY SMTT(20), <1>1, <1>2 DEF MDs

LEMMA NoMDType == NoMD \in [Keys -> Values]
BY DEF NoMD, Values

\* Later keys win: the merged map carries what both were asked to carry.
LEMMA CarriesOver ==
  ASSUME NEW md \in MDs, NEW old \in MDs, NEW P, NEW Q, Carries(old, P), Carries(md, Q)
  PROVE  Carries(merge(old, md), P \cup Q)
<1>1. DOMAIN merge(old, md) = {p[1] : p \in P \cup Q}
  BY OverMDs DEF merge, Carries
<1>2. \A k \in DOMAIN merge(old, md) :
          \E p \in P \cup Q : p[1] = k /\ merge(old, md)[k] = <<p[2]>>
  BY OverMDs DEF merge, Carries, Over
<1> QED
  BY <1>1, <1>2 DEF Carries

LEMMA CarriesNone == Carries(Nil, {})
BY NilMD DEF Carries

\* The handler sees the last call option of a key, and the interceptor's over both.
LEMMA OpenHeaders ==
  ASSUME NEW ms \in BOOLEAN
  PROVE  /\ OpenHeader(ms) \in {OpenHeader(FALSE), OpenHeader(TRUE)}
         /\ OpenHeader(ms)["a"] = <<"opt2">> /\ OpenHeader(ms)["b"] = <<"auth">>
<1> DEFINE o == CallOpts[2]
           c == CallHeaders(CallOpts)
           h == InterceptorHeader(c)
<1>1. DOMAIN o = Keys /\ o["a"] = <<"opt2">>
  BY DEF CallOpts, Keys
<1>2. Keys \subseteq DOMAIN c /\ c["a"] = <<"opt2">>
  BY <1>1 DEF CallHeaders, WithCallHeaders, Over, Keys
<1>3. DOMAIN [b |-> <<"auth">>] = {"b"} /\ [b |-> <<"auth">>]["b"] = <<"auth">>
  OBVIOUS
<1> HIDE DEF c
<1>4. Keys \subseteq DOMAIN h /\ h["a"] = <<"opt2">> /\ h["b"] = <<"auth">>
  BY <1>2, <1>3 DEF InterceptorHeader, WithCallHeaders, Over, Keys
<1>5. OpenHeader(ms) = WithTimeout(h, ms)
  BY DEF OpenHeader, c
<1> HIDE DEF h
<1>6. OpenHeader(ms)["a"] = <<"opt2">> /\ OpenHeader(ms)["b"] = <<"auth">>
  BY <1>4, <1>5 DEF WithTimeout, Over, Keys, timeoutHeader
<1> QED
  BY <1>6

-----------------------------------------------------------------------------
(* Frames and what routing them does.                                      *)

Leading == {NoFrame} \cup {Frame("HEADER", md, "OK") : md \in MDs}
Messages == {NoFrame, Plain("MSG")}

\* What the server's frames, other than END, leave of the client's state.
Calm(c, d) ==
    /\ d \in CliStates
    /\ d.pc = c.pc /\ d.sends = c.sends /\ d.got = c.got /\ d.trailer = c.trailer
    /\ d.endFrame = c.endFrame /\ d.failed = c.failed /\ d.res = c.res

LEMMA RouteLeading ==
  ASSUME NEW c \in CliStates, NEW h \in Leading
  PROVE  /\ Calm(c, clientRoute(c, h))
         /\ clientRoute(c, h).buf = c.buf
         /\ h = NoFrame => clientRoute(c, h).header = c.header
         /\ h # NoFrame /\ ~c.failed /\ c.endFrame = NoFrame => clientRoute(c, h).header = h.md
<1>1. CASE h = NoFrame
  BY <1>1 DEF clientRoute, NoFrame, Plain, Frame, Calm
<1>2. CASE h # NoFrame
  <2>1. PICK md \in MDs : h = Frame("HEADER", md, "OK")
    BY <1>2 DEF Leading
  <2> QED
    BY <1>2, <2>1 DEF clientRoute, Frame, CliStates, Calm
<1> QED
  BY <1>1, <1>2

LEMMA RouteMessage ==
  ASSUME NEW c \in CliStates, NEW m \in Messages
  PROVE  /\ Calm(c, clientRoute(c, m))
         /\ clientRoute(c, m).header = c.header
         /\ clientRoute(c, m).buf \in {c.buf, c.buf + 1}
         /\ m = NoFrame => clientRoute(c, m).buf = c.buf
BY DEF clientRoute, NoFrame, Plain, Frame, CliStates, Calm, Messages

\* The server's writes: what the client has afterwards, and what the server notes.
LEMMA Emits ==
  ASSUME TypeOK, EndInv, srv.pc # "done",
         NEW s \in SrvStates, NEW h \in Leading, NEW m \in Messages, Emit(s, h, m)
  PROVE  /\ Calm(cli, cli')
         /\ h = NoFrame => cli'.header = cli.header
         /\ cli'.buf \in {cli.buf, cli.buf + 1}
         /\ m = NoFrame => cli'.buf = cli.buf
         /\ srv' \in SrvStates
         /\ \E l \in BOOLEAN : srv' = [s EXCEPT !.lost = l] /\ (s.lost => l)
         /\ ~srv'.lost /\ h # NoFrame => cli'.header = h.md
<1>1. PICK hh \in {h, NoFrame}, mm \in {m, NoFrame} :
          /\ <<hh, mm>> # <<h, m>> => WriteFails(srv.ctx)
          /\ ~conn => hh = NoFrame /\ mm = NoFrame
          /\ cli' = clientRoute(clientRoute(cli, hh), mm)
          /\ srv' = [s EXCEPT !.lost = @ \/ <<hh, mm>> # <<h, m>>]
  BY DEF Emit
<1>2. hh \in Leading /\ mm \in Messages
  BY DEF Leading, Messages
<1>3. cli \in CliStates /\ cli.endFrame = NoFrame /\ (cli.failed => ~conn)
  BY DEF TypeOK, EndInv
<1> DEFINE c == clientRoute(cli, hh)
           l == s.lost \/ <<hh, mm>> # <<h, m>>
<1>4. /\ Calm(cli, c) /\ c.buf = cli.buf
      /\ hh = NoFrame => c.header = cli.header
      /\ hh # NoFrame /\ ~cli.failed => c.header = hh.md
  BY <1>2, <1>3, RouteLeading
<1>5. c \in CliStates
  BY <1>4 DEF Calm
<1>6. /\ Calm(c, cli') /\ cli'.header = c.header /\ cli'.buf \in {c.buf, c.buf + 1}
      /\ mm = NoFrame => cli'.buf = c.buf
  BY <1>1, <1>2, <1>5, RouteMessage
<1> HIDE DEF c
<1>7. Calm(cli, cli')
  BY <1>4, <1>6 DEF Calm
<1>8. l \in BOOLEAN /\ srv' = [s EXCEPT !.lost = l] /\ (s.lost => l)
  BY <1>1 DEF SrvStates
<1>9. srv' \in SrvStates /\ srv'.lost = l
  BY <1>8 DEF SrvStates
<1>10. ~srv'.lost /\ h # NoFrame => cli'.header = h.md
  <2> SUFFICES ASSUME ~srv'.lost, h # NoFrame PROVE cli'.header = h.md
    OBVIOUS
  <2>1. hh = h /\ mm = m
    BY <1>9
  <2>2. ~cli.failed
    BY <2>1, <1>1, <1>3
  <2> QED
    BY <2>1, <2>2, <1>4, <1>6
<1> QED
  BY <1>4, <1>6, <1>7, <1>8, <1>9, <1>10

-----------------------------------------------------------------------------
(* Steps of the server's goroutine between the writes.                     *)

\* What such a step leaves of the server's state.
Kept(s, t) ==
    /\ t.header = s.header /\ t.outTrailer = s.outTrailer /\ t.sink = s.sink
    /\ t.headerSent = s.headerSent /\ t.msgSent = s.msgSent /\ t.resps = s.resps
    /\ t.stat = s.stat /\ t.lost = s.lost /\ t.inner = s.inner

\* Until the registered handler has returned there is no error of it.
LEMMA NotReturned ==
  ASSUME IInv, ~Left
  PROVE  NextErr = NotYet /\ NextErr # NoErr /\ srv.inner = NotYet
BY DEF IInv, ReplyInv, NextErr, Left, NotYet, NoErr, Err

\* A step from one layer to the next, before the handler chain has returned.
\* A unary handler with a sink returns without flushing it only with an error.
LEMMA Moves ==
  ASSUME IInv, UNCHANGED <<cfg, cli, asked, conn>>,
         srv' \in SrvStates, Kept(srv, srv'), srv'.reqs <= srv.reqs,
         srv.pc # "none", ~Left, srv'.pc \notin {"none", "lookup", "done"},
         srv'.pc = "unknown" => srv.pc = "lookup",
         srv'.pc = "unknown" <=> cfg.path = "none",
         srv'.pc = "mw" => srv.pc = "lookup",
         srv'.pc = "reg" => srv.pc = "mw",
         srv'.pc = "ret" => srv'.err # NoErr \/ ~UnarySink,
         srv'.sts = srv.sts \/ srv.pc = "reg"
  PROVE  IInv'
<1> USE DEF Kept
<1>0. /\ NextErr # NoErr /\ srv'.inner = NotYet /\ srv.pc \notin {"ret", "fin", "panic", "done"}
      /\ NextErr' # NoErr \/ ~UnarySink
  BY NotReturned DEF NextErr, Left, NotYet, NoErr, Err
<1>1. TypeOK'
  BY DEF IInv, TypeOK, RespBound
<1>2. OpenInv'
  <2>1. srv.reqs \in Int /\ srv'.reqs \in Int /\ cli.sends \in Int
    BY DEF IInv, TypeOK, SrvStates, CliStates
  <2> QED
    BY <2>1 DEF IInv, OpenInv, Sent
<1>3. EndInv'
  BY <1>0 DEF IInv, EndInv, StatusDue
<1>4. ReplyInv'
  BY <1>0 DEF IInv, ReplyInv, ReplyOnce, UnarySink
<1>5. OnTrailer' = OnTrailer
  BY DEF OnTrailer, OnStream
<1>6. OnSink' = OnSink
  BY DEF OnSink, IInv, TrailerInv
<1>7. TrailerDue' = OnTrailer
  <2>1. CASE NextErr' # NoErr
    BY <2>1 DEF TrailerDue, OnTrailer, OnStream
  <2>2. CASE ~UnarySink
    BY <2>2 DEF TrailerDue, OnTrailer, OnStream, UnarySink
  <2> QED
    BY <1>0, <2>1, <2>2
<1>8. TrailerInv'
  <2>1. srv'.pc # "done" /\ cli'.endFrame = NoFrame
    BY <1>0 DEF IInv, EndInv
  <2>2. srv'.pc \in {"none", "lookup", "unknown"} => asked' = {}
    BY DEF IInv, TrailerInv
  <2>3. srv'.pc \in {"mw", "reg"} => \A p \in asked' : p[2] = "mw"
    BY DEF IInv, TrailerInv
  <2>4. ~srv'.lost => Carries(srv'.outTrailer, IF Left' THEN TrailerDue' ELSE OnTrailer')
    BY <1>0, <1>5, <1>7 DEF IInv, TrailerInv
  <2>5. UnarySink' => Carries(srv'.sink.trailer, OnSink')
    BY <1>6 DEF IInv, TrailerInv, UnarySink
  <2> QED
    BY <2>1, <2>2, <2>3, <2>4, <2>5 DEF TrailerInv
<1>9. HeaderInv'
  <2>1. UnarySink' = UnarySink
    BY DEF UnarySink
  <2> QED
    BY <1>0, <1>6, <2>1 DEF IInv, HeaderInv
<1> QED
  BY <1>1, <1>2, <1>3, <1>4, <1>8, <1>9 DEF IInv

\* The stream's context ends, or the connection fails it: nothing else moves.
LEMMA Stops ==
  ASSUME IInv, UNCHANGED <<cfg, cli, asked, conn>>, NEW e \in BOOLEAN, srv.ended => e,
         srv' = [srv EXCEPT !.ended = e, !.ctx = TRUE]
  PROVE  IInv'
<1>1. /\ srv' \in SrvStates /\ Kept(srv, srv') /\ srv'.reqs = srv.reqs /\ srv'.pc = srv.pc
      /\ srv'.err = srv.err /\ srv'.sts = srv.sts /\ srv'.ended = e
  BY DEF IInv, TypeOK, SrvStates, Kept
<1> USE DEF Kept
<1>2. TypeOK'
  BY <1>1 DEF IInv, TypeOK, RespBound
<1>3. OpenInv'
  BY <1>1 DEF IInv, OpenInv, Sent
<1>4. EndInv'
  BY <1>1 DEF IInv, EndInv, StatusDue
<1>5. ReplyInv'
  BY <1>1 DEF IInv, ReplyInv, ReplyOnce, UnarySink, NextErr
<1>6. OnTrailer' = OnTrailer /\ OnSink' = OnSink /\ TrailerDue' = TrailerDue /\ Left' = Left
      /\ HeaderDue' = HeaderDue /\ UnarySink' = UnarySink /\ NextErr' = NextErr
  BY <1>1 DEF OnTrailer, OnSink, TrailerDue, HeaderDue, OnStream, UnarySink, NextErr, Left
<1>7. TrailerInv'
  BY <1>1, <1>6 DEF IInv, TrailerInv
<1>8. HeaderInv'
  BY <1>1, <1>6 DEF IInv, HeaderInv
<1> QED
  BY <1>2, <1>3, <1>4, <1>5, <1>7, <1>8 DEF IInv

LEMMA InitInv == Init => IInv
<1> SUFFICES ASSUME Init PROVE IInv
  OBVIOUS
<1>1. NoMD \in [Keys -> Values] /\ Nil \in MDs /\ NoErr \in Errors
  BY NoMDType, NilMD DEF Errors
<1>2. NoFrame \in [kind: {"NONE", "END"}, md: MDs, st: Codes]
  BY NilMD DEF NoFrame, Plain, Frame, Codes
<1>3. cli \in CliStates
  BY <1>1, <1>2 DEF Init, CliStates, CliPcs, Codes
<1>4. srv \in SrvStates
  BY <1>1 DEF Init, SrvStates, SrvPcs
<1>0. ~Left /\ NextErr # NoErr
  BY DEF Init, Left, NextErr, NotYet, NoErr, Err
<1>5. TypeOK
  BY <1>3, <1>4 DEF Init, TypeOK, RespBound
<1>6. OpenInv
  BY DEF Init, OpenInv, Sent
<1>7. EndInv
  BY DEF Init, EndInv
<1>8. ReplyInv
  BY DEF Init, ReplyInv
<1>9. OnTrailer = {} /\ OnSink = {}
  BY DEF Init, OnTrailer, OnSink
<1>10. TrailerInv
  BY <1>0, <1>9, CarriesNone DEF Init, TrailerInv
<1>11. HeaderInv
  BY <1>0, <1>9, NilMD DEF Init, HeaderInv
<1> QED
  BY <1>5, <1>6, <1>7, <1>8, <1>10, <1>11 DEF IInv

LEMMA Requests ==
  ASSUME NEW s \in SrvStates
  PROVE  s.reqs \in Int /\ s.reqs >= 0 /\ s.reqs <= MaxReqs + 1
BY DEF SrvStates

-----------------------------------------------------------------------------
(* Steps of the client.                                                    *)

\* What a client that has returned from END has read of it.
Learnt(c) ==
    c.res.by = "END" =>
        /\ c.endFrame # NoFrame
        /\ c.res.code = c.endFrame.st /\ c.trailer = c.endFrame.md
        /\ c.res.ok => c.res.code = "OK"

\* The handler and the middleware around it succeeded, and serveStream is done.
Succeeded == srv.pc = "done" /\ NextErr = NoErr /\ srv.err = NoErr

\* A step of the client after OPEN, or one the server does not see.
LEMMA ClientMoves ==
  ASSUME IInv, UNCHANGED <<cfg, asked, conn>>, cli' \in CliStates, srv' \in SrvStates,
         Kept(srv, srv'), srv'.pc = srv.pc, srv'.err = srv.err, srv'.sts = srv.sts,
         srv'.ended = srv.ended, cli'.pc = "new" => cli.pc = "new", srv'.reqs <= Sent(cli'),
         cli'.header = cli.header, cli'.endFrame = cli.endFrame, cli'.failed => ~conn,
         cli'.buf + cli'.got = cli.buf + cli.got, cli'.pc = "drain" => cli'.got > 0,
         Learnt(cli'), UnarySink /\ cli'.res.ok => Succeeded
  PROVE  IInv'
<1> USE DEF Kept
<1>1. TypeOK'
  BY DEF IInv, TypeOK, RespBound
<1>2. OpenInv'
  BY DEF IInv, OpenInv, Sent
<1>3. EndInv'
  BY DEF IInv, EndInv, StatusDue, Learnt
<1>4. ReplyInv'
  BY DEF IInv, ReplyInv, ReplyOnce, UnarySink, NextErr, Succeeded
<1>5. OnTrailer' = OnTrailer /\ OnSink' = OnSink /\ TrailerDue' = TrailerDue /\ Left' = Left
      /\ HeaderDue' = HeaderDue /\ UnarySink' = UnarySink /\ NextErr' = NextErr
  BY DEF OnTrailer, OnSink, TrailerDue, HeaderDue, OnStream, UnarySink, NextErr, Left
<1>6. TrailerInv'
  BY <1>5 DEF IInv, TrailerInv
<1>7. HeaderInv'
  BY <1>5 DEF IInv, HeaderInv
<1> QED
  BY <1>1, <1>2, <1>3, <1>4, <1>6, <1>7 DEF IInv

\* What a write leaves of the client: it moves on, or returns the write's error.
Writes(c, d) ==
    /\ d \in CliStates /\ d.pc \notin {"new", "drain"}
    /\ d.header = c.header /\ d.endFrame = c.endFrame /\ d.failed = c.failed
    /\ d.buf = c.buf /\ d.got = c.got /\ d.trailer = c.trailer
    /\ d.res = c.res \/ (d.res.by = "write" /\ ~d.res.ok)

\* A request or a half-close is routed, or not, and the client moves on.
LEMMA ClientWrites ==
  ASSUME IInv, UNCHANGED <<cfg, asked, conn>>,
         NEW f \in {Plain("MSG"), Plain("HALF_CLOSE")}, NEW next, NEW failed,
         ClientWrite(f, next, failed), Writes(cli, next), Writes(cli, failed),
         srv.reqs <= Sent(next), srv.reqs <= Sent(failed),
         f = Plain("MSG") => srv.reqs + 1 <= Sent(next) /\ Sent(next) <= MaxReqs + 1
  PROVE  IInv'
<1>0. srv \in SrvStates
  BY DEF IInv, TypeOK
<1>1. srv \in SrvStates /\ srv.reqs \in Int /\ srv.reqs >= 0
  BY <1>0, Requests
<1>2. cli' \in {next, failed} /\ Writes(cli, cli')
  BY DEF ClientWrite
<1>3. \/ srv' = srv
      \/ srv' = serverRoute(srv, f) /\ cli' = next
  BY DEF ClientWrite
<1>4. /\ srv' \in SrvStates /\ Kept(srv, srv') /\ srv'.pc = srv.pc /\ srv'.err = srv.err
      /\ srv'.sts = srv.sts /\ srv'.ended = srv.ended /\ srv'.reqs <= Sent(cli')
  <2>1. CASE srv' = srv
    BY <1>1, <1>2, <2>1 DEF Kept
  <2>2. CASE f = Plain("MSG") /\ srv' = serverRoute(srv, f) /\ cli' = next
    <3>1. srv' \in {srv, [srv EXCEPT !.reqs = @ + 1]}
      BY <2>2 DEF serverRoute, Plain, Frame
    <3>2. srv.reqs + 1 \in 0..(MaxReqs + 1)
      <4>1. Sent(next) \in Int
        BY <1>2, <2>2 DEF Sent, Writes, CliStates
      <4> QED
        BY <1>1, <2>2, <4>1
    <3>3. srv.reqs <= Sent(cli') /\ srv.reqs + 1 <= Sent(cli')
      BY <2>2
    <3> QED
      BY <1>1, <3>1, <3>2, <3>3 DEF SrvStates, Kept
  <2>3. CASE f = Plain("HALF_CLOSE") /\ srv' = serverRoute(srv, f) /\ cli' = next
    <3>1. srv' \in {srv, [srv EXCEPT !.halfClosed = TRUE]}
      BY <2>3 DEF serverRoute, Plain, Frame
    <3> QED
      BY <1>1, <2>3, <3>1 DEF SrvStates, Kept
  <2> QED
    BY <1>3, <2>1, <2>2, <2>3
<1>5. cli'.failed => ~conn
  BY <1>2 DEF Writes, IInv, EndInv
<1>6. Learnt(cli') /\ (UnarySink /\ cli'.res.ok => Succeeded)
  BY <1>2 DEF Writes, Learnt, IInv, EndInv, ReplyInv, Succeeded
<1>7. /\ cli' \in CliStates /\ cli'.pc # "new" /\ cli'.pc # "drain"
      /\ cli'.header = cli.header /\ cli'.endFrame = cli.endFrame
      /\ cli'.buf + cli'.got = cli.buf + cli.got
  BY <1>2 DEF Writes
<1> QED
  BY <1>4, <1>5, <1>6, <1>7, ClientMoves

\* A call is opened, or fails before it is.
LEMMA ClientOpens ==
  ASSUME IInv, UNCHANGED <<cfg, asked, conn>>, cli.pc = "new",
         NEW pc \in {"send", "stream"}, chainStreaming(At(pc))
  PROVE  IInv'
<1>1. /\ cli \in CliStates /\ srv \in SrvStates /\ srv.pc = "none" /\ cfg.fault \in Faults
      /\ cfg.kind \in Kinds
  BY DEF IInv, TypeOK, OpenInv
<1> DEFINE h == OpenHeader(cfg.fault = "ms")
           f == Frame("OPEN", h, "OK")
           s == serverRoute(srv, f)
           lost == Done(cli, "write", "OK", FALSE)
           rejected == Done(cli, "interceptor", "App", FALSE)
<1>2. \/ cli' = At(pc) /\ srv' = s
      \/ cli' \in {At(pc), lost, rejected} /\ srv' = srv
  BY DEF chainStreaming, newClientStream, ClientWrite, WriteError, OpenHeader
<1>3. /\ h \in {OpenHeader(FALSE), OpenHeader(TRUE)}
      /\ h["a"] = <<"opt2">> /\ h["b"] = <<"auth">>
  BY OpenHeaders
<1> HIDE DEF h
<1>4. /\ cli' \in CliStates /\ cli'.pc \notin {"new", "drain"} /\ cli'.header = cli.header
      /\ cli'.endFrame = cli.endFrame /\ cli'.failed = cli.failed /\ cli'.sends = cli.sends
      /\ cli'.buf = cli.buf /\ cli'.got = cli.got /\ cli'.trailer = cli.trailer
      /\ cli'.res = cli.res \/ (cli'.res.by \in {"write", "interceptor"} /\ ~cli'.res.ok)
  <2>1. At(pc) \in CliStates /\ lost \in CliStates /\ rejected \in CliStates
    BY <1>1 DEF At, Done, CliStates, CliPcs, Codes
  <2>2. CASE cli' = At(pc)
    BY <1>1, <2>1, <2>2 DEF At, CliStates
  <2>3. CASE cli' = lost
    BY <1>1, <2>1, <2>3 DEF Done, CliStates
  <2>4. CASE cli' = rejected
    BY <1>1, <2>1, <2>4 DEF Done, CliStates
  <2> QED
    BY <1>2, <2>2, <2>3, <2>4
<1>5. srv.reqs <= Sent(cli')
  BY <1>1, <1>4 DEF IInv, OpenInv, Sent, CliStates, SrvStates
<1>6. Learnt(cli') /\ (UnarySink /\ cli'.res.ok => Succeeded)
  BY <1>4 DEF Learnt, IInv, EndInv, ReplyInv, Succeeded
<1>7. cli'.failed => ~conn
  BY <1>4 DEF IInv, EndInv
<1>8. CASE srv' = srv
  BY <1>1, <1>4, <1>5, <1>6, <1>7, <1>8, ClientMoves DEF Kept
<1>9. CASE srv' = s /\ srv' # srv
  <2>1. PICK d \in BOOLEAN : srv' = [srv EXCEPT !.pc = "lookup", !.header = h, !.timeout = d]
    <3> DEFINE d == timeoutHeader \in DOMAIN h
    <3>0. srv' = [srv EXCEPT !.pc = "lookup", !.header = h, !.timeout = d]
      BY <1>9 DEF serverRoute, Frame
    <3>1. CASE d
      <4>1. d = TRUE
        BY <3>1
      <4> QED
        BY <3>0, <4>1, Zenon
    <3>2. CASE ~d
      <4>1. d = FALSE
        BY <3>2
      <4> QED
        BY <3>0, <4>1, Zenon
    <3> QED
      BY <3>1, <3>2
  <2>2. srv' \in SrvStates
    BY <1>1, <1>3, <2>1 DEF SrvStates, SrvPcs
  <2>3. /\ srv'.pc = "lookup" /\ srv'.header = h /\ srv'.outTrailer = srv.outTrailer
        /\ srv'.sink = srv.sink /\ srv'.headerSent = srv.headerSent /\ srv'.reqs = srv.reqs
        /\ srv'.msgSent = srv.msgSent /\ srv'.resps = srv.resps /\ srv'.stat = srv.stat
        /\ srv'.lost = srv.lost /\ srv'.err = srv.err /\ srv'.sts = srv.sts
        /\ srv'.inner = srv.inner
    BY <1>1, <2>1 DEF SrvStates
  <2>0. ~Left /\ NextErr # NoErr /\ ~Left' /\ NextErr' = NextErr
    <3>1. ~Left
      BY <1>1 DEF Left
    <3> QED
      BY <1>1, <2>3, <3>1, NotReturned DEF Left, NextErr
  <2>4. TypeOK'
    BY <1>4, <2>2, <2>3 DEF IInv, TypeOK, RespBound
  <2>5. OpenInv'
    BY <1>3, <1>4, <1>5, <2>3 DEF OpenInv, Sent
  <2>6. srv.stat = "none" /\ cli.endFrame = NoFrame
    BY <1>1 DEF IInv, EndInv
  <2>7. EndInv'
    BY <1>4, <1>6, <1>7, <2>3, <2>6 DEF EndInv, Learnt
  <2>8. ReplyInv'
    BY <1>1, <1>4, <1>6, <2>0, <2>3 DEF IInv, ReplyInv, ReplyOnce, UnarySink, Succeeded
  <2>9. OnTrailer' = OnTrailer /\ OnSink' = OnSink /\ UnarySink' = UnarySink
    BY <2>3 DEF OnTrailer, OnSink, OnStream, UnarySink
  <2>10. TrailerInv'
    BY <1>1, <1>4, <2>0, <2>3, <2>6, <2>9 DEF IInv, TrailerInv
  <2>11. HeaderInv'
    BY <1>1, <1>4, <2>0, <2>3, <2>6, <2>9 DEF IInv, HeaderInv
  <2> QED
    BY <2>4, <2>5, <2>7, <2>8, <2>10, <2>11 DEF IInv
<1> QED
  BY <1>2, <1>8, <1>9

\* A message is received; only a call that is not unary may return with it.
LEMMA ReceivesMsg ==
  ASSUME IInv, UNCHANGED <<cfg, srv, asked, conn>>, NEW next \in CliStates, RecvMsg(next),
         cli.pc \notin {"new", "send"}, next.pc \notin {"new", "send"}, next.sends = cli.sends,
         next.buf = cli.buf, next.got = cli.got, next.header = cli.header,
         next.trailer = cli.trailer, next.endFrame = cli.endFrame, next.failed = cli.failed,
         next.res = cli.res \/ (next.res.by = "MSG" /\ ~UnarySink)
  PROVE  IInv'
<1>1. cli.buf > 0 /\ cli' = [next EXCEPT !.buf = cli.buf - 1, !.got = cli.got + 1]
  BY DEF RecvMsg
<1>2. cli \in CliStates /\ srv \in SrvStates
  BY DEF IInv, TypeOK
<1>3. cli.buf \in Nat /\ cli.got \in Nat
  BY <1>2 DEF CliStates
<1>4. /\ cli' \in CliStates /\ cli'.buf = cli.buf - 1 /\ cli'.got = cli.got + 1
      /\ cli'.pc = next.pc /\ cli'.sends = next.sends /\ cli'.header = next.header
      /\ cli'.trailer = next.trailer /\ cli'.endFrame = next.endFrame
      /\ cli'.failed = next.failed /\ cli'.res = next.res
  <2>1. PICK b \in Nat, g \in Nat : b = cli.buf - 1 /\ g = cli.got + 1
    BY <1>1, <1>3
  <2>2. cli' = [next EXCEPT !.buf = b, !.got = g]
    BY <1>1, <2>1
  <2> QED
    BY <2>1, <2>2 DEF CliStates
<1>5. srv.reqs <= Sent(cli')
  BY <1>4 DEF IInv, OpenInv, Sent
<1>6. cli'.failed => ~conn
  BY <1>4 DEF IInv, EndInv
<1>7. Learnt(cli') /\ (UnarySink /\ cli'.res.ok => Succeeded)
  BY <1>4 DEF Learnt, IInv, EndInv, ReplyInv, Succeeded
<1>8. cli'.buf + cli'.got = cli.buf + cli.got /\ cli'.got > 0
  BY <1>3, <1>4
<1> QED
  BY <1>2, <1>4, <1>5, <1>6, <1>7, <1>8, ClientMoves DEF Kept

\* Only the success of the handler makes a status OK.
LEMMA SuccessCode ==
  ASSUME NEW err \in Errors
  PROVE  CodeOf(err) \in Codes /\ (CodeOf(err) = "OK" => err = NoErr)
BY DEF CodeOf, Errors, AppErrors, Err, NoErr, Codes

\* An empty backlog: the call returns with END, the lost connection or its context.
LEMMA ReceivesEnd ==
  ASSUME IInv, UNCHANGED <<cfg, srv, asked, conn>>, NEW eofOK \in BOOLEAN, RecvEnd(eofOK),
         cli.pc \notin {"new", "send"}, eofOK /\ UnarySink => cli.pc = "drain"
  PROVE  IInv'
<1>1. cli \in CliStates /\ srv \in SrvStates /\ srv.err \in Errors
  BY DEF IInv, TypeOK, SrvStates
<1>2. /\ cli.endFrame.md \in MDs /\ cli.endFrame.st \in Codes
      /\ cli.ctx \in {"live", "Canceled", "DeadlineExceeded"}
  BY <1>1 DEF CliStates
<1>3. PICK by \in {"END", "conn", "ctx"}, code \in Codes, ok \in BOOLEAN, md \in MDs :
          /\ cli' = [cli EXCEPT !.pc = "returned", !.trailer = md,
                                !.res = [by |-> by, code |-> code, ok |-> ok]]
          /\ ok => by = "END" /\ code = "OK" /\ eofOK
          /\ by = "END" =>
                cli.endFrame # NoFrame /\ code = cli.endFrame.st /\ md = cli.endFrame.md
  <2>1. CASE cli.endFrame # NoFrame
    <3>1. PICK ok \in BOOLEAN :
              /\ ok => cli.endFrame.st = "OK" /\ eofOK
              /\ cli' = [cli EXCEPT !.pc = "returned", !.trailer = cli.endFrame.md,
                                    !.res = [by |-> "END", code |-> cli.endFrame.st, ok |-> ok]]
      <4>1. CASE eofOK /\ cli.endFrame.st = "OK"
        <5>1. cli' = Done(applyEnd(cli), "END", cli.endFrame.st, TRUE)
          BY <2>1, <4>1 DEF RecvEnd, recvEnded
        <5> QED
          BY <4>1, <5>1 DEF Done, applyEnd
      <4>2. CASE ~(eofOK /\ cli.endFrame.st = "OK")
        <5>1. cli' = Done(applyEnd(cli), "END", cli.endFrame.st, FALSE)
          BY <2>1, <4>2 DEF RecvEnd, recvEnded
        <5> QED
          BY <4>2, <5>1 DEF Done, applyEnd
      <4> QED
        BY <4>1, <4>2
    <3> QED
      BY <1>2, <2>1, <3>1
  <2>2. CASE cli.endFrame = NoFrame
    <3>0. cli.trailer \in MDs
      BY SMTT(20), <1>1 DEF CliStates
    <3>1. CASE cli.failed
      <4>1. cli' = Done(cli, "conn", "Unavailable", FALSE)
        BY <2>2, <3>1 DEF RecvEnd, recvEnded
      <4>2. cli' = [cli EXCEPT !.pc = "returned", !.trailer = cli.trailer,
                               !.res = [by |-> "conn", code |-> "Unavailable", ok |-> FALSE]]
        BY <1>1, <4>1 DEF Done, CliStates
      <4> QED
        BY <4>2, <3>0 DEF Codes
    <3>2. CASE ~cli.failed
      <4>1. cli' = Done(cli, "ctx", cli.ctx, FALSE) /\ cli.ctx # "live"
        BY <2>2, <3>2 DEF RecvEnd
      <4>2. cli' = [cli EXCEPT !.pc = "returned", !.trailer = cli.trailer,
                               !.res = [by |-> "ctx", code |-> cli.ctx, ok |-> FALSE]]
        BY <1>1, <4>1 DEF Done, CliStates
      <4> QED
        BY <1>2, <4>1, <4>2, <3>0 DEF Codes
    <3> QED
      BY <3>1, <3>2
  <2> QED
    BY <2>1, <2>2
<1>4. /\ cli' \in CliStates /\ cli'.pc = "returned" /\ cli'.sends = cli.sends
      /\ cli'.buf = cli.buf /\ cli'.got = cli.got /\ cli'.header = cli.header
      /\ cli'.endFrame = cli.endFrame /\ cli'.failed = cli.failed /\ cli'.trailer = md
      /\ cli'.res.by = by /\ cli'.res.code = code /\ cli'.res.ok = ok
  BY <1>1, <1>3 DEF CliStates, CliPcs
<1>5. srv.reqs <= Sent(cli')
  BY <1>4 DEF IInv, OpenInv, Sent
<1>6. cli'.failed => ~conn
  BY <1>4 DEF IInv, EndInv
<1>7. Learnt(cli')
  BY <1>3, <1>4 DEF Learnt
<1>8. UnarySink /\ cli'.res.ok => Succeeded
  <2> SUFFICES ASSUME UnarySink, ok PROVE Succeeded
    BY <1>4
  <2>1. cli.endFrame # NoFrame /\ cli.endFrame.st = "OK"
    BY <1>3
  <2>2. srv.pc = "done" /\ StatusDue = "OK"
    BY <2>1 DEF IInv, EndInv
  <2>3. CodeOf(srv.err) = "OK"
    BY <2>2 DEF StatusDue
  <2>4. cli.buf \in Nat /\ cli.got \in Nat /\ cli.got > 0
    BY <1>1, <1>3 DEF CliStates, IInv, ReplyInv
  <2>5. NextErr = NoErr
    BY <2>4 DEF IInv, ReplyInv, ReplyOnce, UnarySink
  <2> QED
    BY <1>1, <2>2, <2>3, <2>5, SuccessCode DEF Succeeded
<1> QED
  BY <1>1, <1>4, <1>5, <1>6, <1>7, <1>8, ClientMoves DEF Kept

LEMMA MovesOn ==
  ASSUME IInv, NEW pc \in {"close", "recv", "stream"}
  PROVE  /\ Writes(cli, At(pc)) /\ At(pc).pc = pc /\ At(pc).sends = cli.sends
         /\ Writes(cli, WriteError) /\ WriteError.pc = "returned" /\ WriteError.sends = cli.sends
<1>1. cli \in CliStates
  BY DEF IInv, TypeOK
<1>2. Writes(cli, At(pc)) /\ At(pc).pc = pc /\ At(pc).sends = cli.sends
  BY <1>1 DEF Writes, At, CliStates, CliPcs
<1>3. Writes(cli, WriteError) /\ WriteError.pc = "returned" /\ WriteError.sends = cli.sends
  BY <1>1 DEF Writes, WriteError, Done, CliStates, CliPcs, Codes
<1> QED
  BY <1>2, <1>3

LEMMA Counters ==
  ASSUME TypeOK
  PROVE  srv.reqs \in Nat /\ cli.sends \in Nat /\ cli.sends <= MaxReqs
BY DEF TypeOK, SrvStates, CliStates

\* The stubs that send one request: it, and then the half-close.
LEMMA SendsOne ==
  ASSUME IInv, UNCHANGED <<cfg, asked, conn>>, cfg.kind \in {"unary", "server"},
         NEW pc \in {"recv", "stream"},
         \/ cli.pc = "send" /\ ClientWrite(Plain("MSG"), At("close"), WriteError)
         \/ cli.pc = "close" /\ ClientWrite(Plain("HALF_CLOSE"), At(pc), WriteError)
  PROVE  IInv'
<1>1. srv.reqs \in Nat /\ cli.sends \in Nat /\ cli.sends <= MaxReqs
  BY Counters DEF IInv
<1>2. CASE cli.pc = "send" /\ ClientWrite(Plain("MSG"), At("close"), WriteError)
  <2>1. srv.reqs <= cli.sends
    BY <1>1, <1>2 DEF IInv, OpenInv, Sent
  <2>2. Sent(At("close")) = cli.sends + 1 /\ Sent(WriteError) = cli.sends + 1
    BY MovesOn DEF Sent
  <2>3. /\ srv.reqs <= Sent(WriteError) /\ srv.reqs <= Sent(At("close"))
        /\ srv.reqs + 1 <= Sent(At("close")) /\ Sent(At("close")) <= MaxReqs + 1
    BY <1>1, <2>1, <2>2
  <2>4. Writes(cli, At("close")) /\ Writes(cli, WriteError)
    BY MovesOn
  <2> QED
    BY <1>2, <2>3, <2>4, ClientWrites
<1>3. CASE cli.pc = "close" /\ ClientWrite(Plain("HALF_CLOSE"), At(pc), WriteError)
  <2>1. srv.reqs <= cli.sends + 1
    BY <1>1, <1>3 DEF IInv, OpenInv, Sent
  <2>2. Sent(At(pc)) = cli.sends + 1 /\ Sent(WriteError) = cli.sends + 1
    BY MovesOn DEF Sent
  <2>3. srv.reqs <= Sent(WriteError) /\ srv.reqs <= Sent(At(pc))
    BY <2>1, <2>2
  <2>4. Writes(cli, At(pc)) /\ Writes(cli, WriteError)
    BY MovesOn
  <2>5. Plain("HALF_CLOSE") # Plain("MSG")
    BY DEF Plain, Frame
  <2> QED
    BY <1>3, <2>3, <2>4, <2>5, ClientWrites
<1> QED
  BY <1>2, <1>3

LEMMA InvInvokeUnary == ASSUME IInv, InvokeUnary PROVE IInv'
<1>0. UNCHANGED <<cfg, asked, conn>> /\ cfg.kind = "unary" /\ cli \in CliStates
  BY DEF InvokeUnary, IInv, TypeOK
<1>1. CASE cli.pc = "new" /\ chainStreaming(At("send"))
  BY <1>0, <1>1, ClientOpens
<1>2. CASE \/ cli.pc = "send" /\ ClientWrite(Plain("MSG"), At("close"), WriteError)
           \/ cli.pc = "close" /\ ClientWrite(Plain("HALF_CLOSE"), At("recv"), WriteError)
  BY <1>0, <1>2, SendsOne
<1>3. CASE cli.pc = "recv" /\ RecvMsg(At("drain")) /\ UNCHANGED srv
  <2>1. /\ At("drain") \in CliStates /\ At("drain").pc = "drain" /\ At("drain").sends = cli.sends
        /\ At("drain").buf = cli.buf /\ At("drain").got = cli.got
        /\ At("drain").header = cli.header /\ At("drain").trailer = cli.trailer
        /\ At("drain").endFrame = cli.endFrame /\ At("drain").failed = cli.failed
        /\ At("drain").res = cli.res
    BY <1>0 DEF At, CliStates, CliPcs
  <2> QED
    BY <1>0, <1>3, <2>1, ReceivesMsg
<1>4. CASE cli.pc = "recv" /\ RecvEnd(FALSE) /\ UNCHANGED srv
  BY <1>0, <1>4, ReceivesEnd
<1>5. CASE Drain /\ UNCHANGED srv
  <2>1. cli.pc = "drain"
    BY <1>5 DEF Drain
  <2>2. CASE RecvMsg(Done(cli, "MSG", "OK", TRUE))
    <3>1. cli.buf \in Nat /\ cli.got \in Nat
      BY <1>0 DEF CliStates
    <3>2. cli.buf > 0 /\ cli.got > 0
      BY <2>1, <2>2 DEF RecvMsg, IInv, ReplyInv
    <3>3. ~ReplyOnce
      BY <3>1, <3>2 DEF IInv, ReplyInv
    <3>4. cfg.path = "raw"
      BY <1>0, <3>3 DEF ReplyOnce
    <3> DEFINE d == Done(cli, "MSG", "OK", TRUE)
    <3>5. /\ d \in CliStates /\ d.pc = "returned" /\ d.sends = cli.sends
          /\ d.buf = cli.buf /\ d.got = cli.got /\ d.header = cli.header
          /\ d.trailer = cli.trailer /\ d.endFrame = cli.endFrame /\ d.failed = cli.failed
          /\ d.res.by = "MSG"
      BY <1>0 DEF Done, CliStates, CliPcs, Codes
    <3>6. ~UnarySink
      BY <3>4 DEF UnarySink
    <3> HIDE DEF d
    <3>7. RecvMsg(d)
      BY <2>2 DEF d
    <3> QED
      BY <1>0, <1>5, <2>1, <3>5, <3>6, <3>7, ReceivesMsg
  <2>3. CASE RecvEnd(TRUE)
    BY <1>0, <1>5, <2>1, <2>3, ReceivesEnd
  <2> QED
    BY <1>5, <2>2, <2>3 DEF Drain
<1> QED
  BY <1>1, <1>2, <1>3, <1>4, <1>5 DEF InvokeUnary

LEMMA InvOpenStreamingClient == ASSUME IInv, OpenStreamingClient PROVE IInv'
<1>1. PICK pc \in {"send", "stream"} : chainStreaming(At(pc))
  BY DEF OpenStreamingClient
<1> QED
  BY <1>1, ClientOpens DEF OpenStreamingClient

LEMMA InvServerStreamStub == ASSUME IInv, ServerStreamStub PROVE IInv'
BY SendsOne DEF ServerStreamStub

LEMMA InvClientSend == ASSUME IInv, ClientSend PROVE IInv'
<1> DEFINE c == [cli EXCEPT !.sends = @ + 1]
<1>1. /\ cli \in CliStates /\ cli.pc = "stream" /\ cfg.kind \in {"client", "bidi"}
      /\ cli.sends < MaxReqs /\ ClientWrite(Plain("MSG"), c, c) /\ UNCHANGED <<cfg, asked, conn>>
  BY DEF ClientSend, IInv, TypeOK
<1>2. srv.reqs \in Nat /\ cli.sends \in Nat
  BY Counters DEF IInv
<1>3. PICK n \in 0..MaxReqs : n = cli.sends + 1
  BY <1>1, <1>2
<1>4. c = [cli EXCEPT !.sends = n]
  BY <1>3
<1>5. Writes(cli, c) /\ c.sends = n
  BY <1>1, <1>4 DEF Writes, CliStates
<1> HIDE DEF c
<1>6. Sent(c) = n /\ srv.reqs <= cli.sends
  BY <1>1, <1>2, <1>5 DEF Sent, IInv, OpenInv
<1>7. srv.reqs <= Sent(c) /\ srv.reqs + 1 <= Sent(c) /\ Sent(c) <= MaxReqs + 1
  BY <1>2, <1>3, <1>6
<1> QED
  BY <1>1, <1>5, <1>7, ClientWrites

LEMMA InvCloseSend == ASSUME IInv, CloseSend PROVE IInv'
<1> DEFINE c == [cli EXCEPT !.sendDone = TRUE]
<1>1. /\ cli \in CliStates /\ cli.pc = "stream" /\ ClientWrite(Plain("HALF_CLOSE"), c, c)
      /\ UNCHANGED <<cfg, asked, conn>>
  BY DEF CloseSend, IInv, TypeOK
<1>2. Writes(cli, c) /\ c.sends = cli.sends /\ c.pc = cli.pc
  BY <1>1 DEF Writes, CliStates
<1> HIDE DEF c
<1>3. srv.reqs <= Sent(c)
  BY <1>2 DEF Sent, IInv, OpenInv
<1>4. Plain("HALF_CLOSE") # Plain("MSG")
  BY DEF Plain, Frame
<1> QED
  BY <1>1, <1>2, <1>3, <1>4, ClientWrites

LEMMA InvClientRecv == ASSUME IInv, ClientRecv PROVE IInv'
<1>1. cli \in CliStates /\ cli.pc = "stream" /\ UNCHANGED <<cfg, srv, asked, conn>>
  BY DEF ClientRecv, IInv, TypeOK
<1>2. CASE RecvMsg(cli)
  BY <1>1, <1>2, ReceivesMsg
<1>3. CASE RecvEnd(TRUE)
  BY <1>1, <1>3, ReceivesEnd DEF ClientRecv, UnarySink
<1> QED
  BY <1>2, <1>3 DEF ClientRecv

LEMMA InvCloseAndRecv == ASSUME IInv, CloseAndRecv PROVE IInv'
<1>1. cli \in CliStates /\ cfg.kind = "client" /\ UNCHANGED <<cfg, asked, conn>>
  BY DEF CloseAndRecv, IInv, TypeOK
<1>2. CASE cli.pc = "stream" /\ ClientWrite(Plain("HALF_CLOSE"), At("recv"), WriteError)
  <2>1. /\ Writes(cli, At("recv")) /\ Sent(At("recv")) = Sent(cli)
        /\ Writes(cli, WriteError) /\ Sent(WriteError) = Sent(cli)
    BY <1>1, MovesOn DEF Sent
  <2>2. srv.reqs <= Sent(cli) /\ Plain("HALF_CLOSE") # Plain("MSG")
    BY DEF IInv, OpenInv, Plain, Frame
  <2> QED
    BY <1>1, <1>2, <2>1, <2>2, ClientWrites
<1>3. CASE cli.pc = "recv" /\ RecvMsg(Done(cli, "MSG", "OK", TRUE)) /\ UNCHANGED srv
  <2> DEFINE d == Done(cli, "MSG", "OK", TRUE)
  <2>1. /\ d \in CliStates /\ d.pc = "returned" /\ d.sends = cli.sends
        /\ d.buf = cli.buf /\ d.got = cli.got /\ d.header = cli.header
        /\ d.trailer = cli.trailer /\ d.endFrame = cli.endFrame /\ d.failed = cli.failed
        /\ d.res.by = "MSG"
    BY <1>1 DEF Done, CliStates, CliPcs, Codes
  <2>2. ~UnarySink
    BY <1>1 DEF UnarySink
  <2> HIDE DEF d
  <2>3. RecvMsg(d) /\ cli.pc = "recv" /\ UNCHANGED srv
    BY <1>3 DEF d
  <2> QED
    BY <1>1, <2>1, <2>2, <2>3, ReceivesMsg
<1>4. CASE cli.pc = "recv" /\ RecvEnd(FALSE) /\ UNCHANGED srv
  BY <1>1, <1>4, ReceivesEnd
<1> QED
  BY <1>2, <1>3, <1>4 DEF CloseAndRecv

\* The context of the call ends, or failAll reaches its stream.
LEMMA ClientHears ==
  ASSUME IInv, UNCHANGED <<cfg, srv, asked, conn>>,
         NEW how \in {"live", "Canceled", "DeadlineExceeded"}, NEW failed \in BOOLEAN,
         failed => ~conn, cli' = [cli EXCEPT !.ctx = how, !.failed = failed]
  PROVE  IInv'
<1>1. cli \in CliStates /\ srv \in SrvStates
  BY DEF IInv, TypeOK
<1>2. /\ cli' \in CliStates /\ cli'.pc = cli.pc /\ cli'.sends = cli.sends /\ cli'.buf = cli.buf
      /\ cli'.got = cli.got /\ cli'.header = cli.header /\ cli'.trailer = cli.trailer
      /\ cli'.endFrame = cli.endFrame /\ cli'.failed = failed /\ cli'.res = cli.res
  BY <1>1 DEF CliStates
<1>3. srv'.reqs <= Sent(cli')
  BY <1>2 DEF Sent, IInv, OpenInv
<1>4. /\ cli'.pc = "drain" => cli'.got > 0
      /\ UnarySink /\ cli'.res.ok => Succeeded
  BY <1>2 DEF IInv, ReplyInv, Succeeded
<1>5. Learnt(cli')
  BY <1>2 DEF Learnt, IInv, EndInv
<1> QED
  BY <1>1, <1>2, <1>3, <1>4, <1>5, ClientMoves DEF Kept

LEMMA InvClientLost == ASSUME IInv, clientLost PROVE IInv'
<1>1. cli \in CliStates /\ cli.ctx \in {"live", "Canceled", "DeadlineExceeded"}
  BY DEF IInv, TypeOK, CliStates
<1>2. cli' = [cli EXCEPT !.ctx = cli.ctx, !.failed = TRUE]
  BY <1>1 DEF clientLost, CliStates
<1> QED
  BY <1>1, <1>2, ClientHears DEF clientLost

LEMMA InvCtxEnds ==
  ASSUME IInv, NEW how \in {"Canceled", "DeadlineExceeded"}, CtxEnds(how) PROVE IInv'
<1>1. cli \in CliStates /\ cli.failed \in BOOLEAN /\ (cli.failed => ~conn)
  BY DEF IInv, TypeOK, CliStates, EndInv
<1>2. cli' = [cli EXCEPT !.ctx = how, !.failed = cli.failed]
  BY <1>1 DEF CtxEnds, CliStates
<1> QED
  BY <1>1, <1>2, ClientHears DEF CtxEnds

LEMMA InvConnDrop == ASSUME IInv, ConnDrop PROVE IInv'
<1>1. UNCHANGED <<cfg, cli, srv, asked>> /\ conn' = FALSE
  BY DEF ConnDrop
<1>2. TypeOK' /\ OpenInv' /\ EndInv' /\ ReplyInv'
  BY <1>1 DEF IInv, TypeOK, RespBound, OpenInv, Sent, EndInv, StatusDue, ReplyInv, ReplyOnce,
              UnarySink, NextErr
<1>3. OnTrailer' = OnTrailer /\ OnSink' = OnSink /\ TrailerDue' = TrailerDue /\ Left' = Left
      /\ HeaderDue' = HeaderDue /\ UnarySink' = UnarySink /\ NextErr' = NextErr
  BY <1>1 DEF OnTrailer, OnSink, TrailerDue, HeaderDue, OnStream, UnarySink, NextErr, Left
<1>4. TrailerInv' /\ HeaderInv'
  BY <1>1, <1>3 DEF IInv, TrailerInv, HeaderInv
<1> QED
  BY <1>2, <1>4 DEF IInv

-----------------------------------------------------------------------------
(* The layers of the server.                                               *)

\* Where the layers up to the registered handler, and those under it, are.
Inner == SrvPcs \ {"none", "lookup", "unknown", "ret", "fin", "panic", "done"}

LEMMA InvLookup == ASSUME IInv, Lookup PROVE IInv'
<1> DEFINE pc == IF cfg.path = "none" THEN "unknown" ELSE "mw"
<1>1. srv \in SrvStates /\ srv.pc = "lookup" /\ srv' = [srv EXCEPT !.pc = pc]
  BY DEF Lookup, Goto, IInv, TypeOK
<1>2. /\ srv' \in SrvStates /\ Kept(srv, srv') /\ srv'.reqs = srv.reqs /\ srv'.pc = pc
      /\ srv'.sts = srv.sts
  BY <1>1 DEF SrvStates, SrvPcs, Kept
<1>3. srv'.reqs <= srv.reqs
  BY <1>1, <1>2, Requests
<1>4. ~Left
  BY <1>1 DEF Left
<1> QED
  BY <1>1, <1>2, <1>3, <1>4, Moves DEF Lookup

\* A layer calls the next one, or returns err to the one around it.
LEMMA Passes ==
  ASSUME IInv, UNCHANGED <<cfg, cli, asked, conn>>, srv.pc \in Inner,
         NEW pc \in (Inner \ {"mw"}) \cup {"ret", "fin", "panic"}, NEW err \in Errors,
         srv' = Return(pc, err), pc = "reg" => srv.pc = "mw", pc = "ret" => err # NoErr \/ ~UnarySink
  PROVE  IInv'
<1>1. srv \in SrvStates /\ cfg.path # "none"
  BY DEF IInv, TypeOK, EndInv, Inner
<1>2. /\ srv' \in SrvStates /\ Kept(srv, srv') /\ srv'.reqs = srv.reqs /\ srv'.pc = pc
      /\ srv'.sts = srv.sts /\ srv'.err = err
  BY <1>1 DEF SrvStates, SrvPcs, Kept, Return, Inner
<1>3. srv'.reqs <= srv.reqs
  BY <1>1, <1>2, Requests
<1>4. srv.pc # "none" /\ ~Left /\ pc \notin {"none", "lookup", "done", "unknown", "mw"}
  BY DEF Inner, Left
<1> QED
  BY <1>1, <1>2, <1>3, <1>4, Moves

LEMMA Gotos ==
  ASSUME IInv, UNCHANGED <<cfg, cli, asked, conn>>, srv.pc \in Inner,
         NEW pc \in (Inner \ {"mw"}) \cup {"ret", "fin", "panic"}, srv' = Goto(pc),
         pc = "reg" => srv.pc = "mw", pc = "ret" => srv.err # NoErr \/ ~UnarySink
  PROVE  IInv'
<1>1. srv.err \in Errors /\ srv' = Return(pc, srv.err)
  BY DEF IInv, TypeOK, SrvStates, Goto, Return
<1> QED
  BY <1>1, Passes

\* The handler that is registered receives its request, or goes on without.
LEMMA Enters ==
  ASSUME IInv, UNCHANGED <<cfg, cli, asked, conn>>, srv.pc = "reg",
         NEW pc \in {"icpt", "grpcRecv", "impl"}, NEW sts \in BOOLEAN, NEW next,
         next = [srv EXCEPT !.pc = pc, !.sts = sts], RecvRequest(next) \/ srv' = next
  PROVE  IInv'
<1>1. srv \in SrvStates /\ srv.pc \in Inner /\ cfg.path # "none" /\ ~Left
  BY DEF IInv, TypeOK, EndInv, Inner, SrvPcs, Left
<1>2. srv.reqs \in Int /\ srv.reqs >= 0 /\ srv.reqs <= MaxReqs + 1
  BY <1>1, Requests
<1>3. CASE \/ srv' = next
           \/ srv.reqs > 0 /\ srv' = [next EXCEPT !.reqs = @ - 1]
  <2>1. PICK n \in 0..(MaxReqs + 1) :
            n <= srv.reqs /\ srv' = [srv EXCEPT !.pc = pc, !.sts = sts, !.reqs = n]
    <3>1. CASE srv' = next
      <4>1. srv' = [srv EXCEPT !.pc = pc, !.sts = sts, !.reqs = srv.reqs]
        BY <1>1, <3>1 DEF SrvStates
      <4>2. srv.reqs \in 0..(MaxReqs + 1) /\ srv.reqs <= srv.reqs
        BY <1>2
      <4> QED
        BY <4>1, <4>2
    <3>2. CASE srv.reqs > 0 /\ srv' = [next EXCEPT !.reqs = @ - 1]
      <4>1. srv' = [srv EXCEPT !.pc = pc, !.sts = sts, !.reqs = srv.reqs - 1]
        BY <1>1, <3>2 DEF SrvStates
      <4>2. srv.reqs - 1 \in 0..(MaxReqs + 1) /\ srv.reqs - 1 <= srv.reqs
        BY <1>2, <3>2
      <4> QED
        BY <4>1, <4>2
    <3> QED
      BY <1>3, <3>1, <3>2
  <2>2. srv' \in SrvStates /\ Kept(srv, srv') /\ srv'.reqs = n /\ srv'.pc = pc
    BY <1>1, <2>1 DEF SrvStates, SrvPcs, Kept
  <2> QED
    BY SMTT(20), <1>1, <2>1, <2>2, Moves
<1>4. CASE srv' = Return("ret", IF srv.ended THEN Err("Status", "Unavailable")
                                ELSE Err("other", "Unknown"))
  <2>1. PICK err \in Errors \ {NoErr} : srv' = Return("ret", err)
    BY <1>4 DEF Errors, AppErrors, Err, NoErr
  <2> QED
    BY <1>1, <2>1, Passes
<1> QED
  BY <1>3, <1>4 DEF RecvRequest

LEMMA AppErrs ==
  /\ Err("Status", "App") \in Errors \ {NoErr} /\ Err("grpc", "App") \in Errors \ {NoErr}
  /\ Err("Status", "Unavailable") \in Errors \ {NoErr}
  /\ Err("Status", "Internal") \in Errors \ {NoErr}
  /\ Err("other", "Unknown") \in Errors \ {NoErr}
  /\ AppErrors \cup {NoErr} \subseteq Errors /\ NoErr \in Errors
BY DEF Errors, AppErrors, Err, NoErr

\* Middleware leaves next with an error of its own: what next returned stays known.
LEMMA Leaves ==
  ASSUME IInv, UNCHANGED <<cfg, cli, asked, conn>>, srv.pc = "ret", NEW pc \in {"fin", "panic"},
         NEW err \in Errors, srv' = LeaveNext(pc, err)
  PROVE  IInv'
<1>0. srv \in SrvStates
  BY DEF IInv, TypeOK
<1>1. srv \in SrvStates /\ srv.err \in Errors /\ RespBound \in Nat
  BY <1>0, Zenon DEF SrvStates, RespBound
<1>2. /\ srv' \in SrvStates /\ srv'.pc = pc /\ srv'.err = err /\ srv'.inner = srv.err
      /\ srv'.header = srv.header /\ srv'.reqs = srv.reqs /\ srv'.ended = srv.ended
      /\ srv'.headerSent = srv.headerSent /\ srv'.msgSent = srv.msgSent /\ srv'.resps = 0
      /\ srv'.outTrailer = srv.outTrailer /\ srv'.sts = srv.sts /\ srv'.stat = srv.stat
      /\ srv'.lost = srv.lost
  <2> DEFINE t == Return(pc, err)
             z == [header |-> Nil, trailer |-> Nil]
  <2>1. /\ t \in SrvStates /\ t.pc = pc /\ t.err = err /\ t.header = srv.header
        /\ t.reqs = srv.reqs /\ t.ended = srv.ended /\ t.headerSent = srv.headerSent
        /\ t.msgSent = srv.msgSent /\ t.outTrailer = srv.outTrailer /\ t.sts = srv.sts
        /\ t.stat = srv.stat /\ t.lost = srv.lost
    <3>1. pc \in SrvPcs /\ t = [srv EXCEPT !.pc = pc, !.err = err]
      BY DEF SrvPcs, Return
    <3> HIDE DEF t
    <3> QED
      BY <1>1, <3>1, Zenon DEF SrvStates
  <2>2. z \in [header: MDs, trailer: MDs] /\ NoMD \in [Keys -> Values]
    BY NilMD, NoMDType
  <2>3. srv' = [t EXCEPT !.inner = srv.err, !.resps = 0, !.pending = NoMD, !.captured = FALSE,
                         !.sink = z]
    BY DEF LeaveNext
  <2> HIDE DEF t, z
  <2>4. srv' \in SrvStates
    <3>1. PICK q \in SrvStates, e \in Errors \cup {NotYet} : q = t /\ e = srv.err
      BY <1>1, <2>1
    <3> DEFINE u == [q EXCEPT !.inner = e]
               v == [u EXCEPT !.pending = NoMD, !.captured = FALSE]
    <3>2. u \in SrvStates
      BY Zenon DEF SrvStates
    <3>3. srv' = [v EXCEPT !.resps = 0, !.sink = z] /\ 0 \in Nat
      BY <2>3, <3>1, <3>2, Zenon DEF SrvStates
    <3> HIDE DEF u
    <3>4. v \in SrvStates
      BY <2>2, <3>2, Zenon DEF SrvStates
    <3> HIDE DEF v
    <3> QED
      BY <2>2, <3>3, <3>4, Zenon DEF SrvStates
  <2>5. /\ srv'.pc = t.pc /\ srv'.err = t.err /\ srv'.inner = srv.err /\ srv'.header = t.header
        /\ srv'.reqs = t.reqs /\ srv'.ended = t.ended /\ srv'.headerSent = t.headerSent
    BY <2>1, <2>3 DEF SrvStates
  <2>6. /\ srv'.msgSent = t.msgSent /\ srv'.resps = 0 /\ srv'.outTrailer = t.outTrailer
        /\ srv'.sts = t.sts /\ srv'.stat = t.stat /\ srv'.lost = t.lost
    BY <2>1, <2>3 DEF SrvStates
  <2> QED
    BY <2>1, <2>4, <2>5, <2>6
<1>3. NextErr' = NextErr /\ Left /\ Left'
  BY <1>2 DEF NextErr, Left
<1>4. TypeOK'
  BY <1>1, <1>2 DEF IInv, TypeOK, RespBound
<1>5. OpenInv'
  BY <1>2 DEF IInv, OpenInv, Sent
<1>6. EndInv'
  BY <1>2 DEF IInv, EndInv, StatusDue
<1>7. UnarySink' = UnarySink /\ ReplyOnce' = ReplyOnce
  BY DEF UnarySink, ReplyOnce
<1>8. ReplyInv'
  BY <1>2, <1>3, <1>7 DEF IInv, ReplyInv
<1>9. TrailerDue' = TrailerDue /\ HeaderDue' = HeaderDue
  BY <1>2, <1>3 DEF TrailerDue, HeaderDue, OnStream
<1>10. TrailerInv'
  BY <1>2, <1>3, <1>6, <1>9 DEF IInv, TrailerInv, EndInv
<1>11. HeaderInv'
  BY <1>2, <1>3, <1>7, <1>9 DEF IInv, HeaderInv
<1> QED
  BY <1>4, <1>5, <1>6, <1>8, <1>10, <1>11 DEF IInv

LEMMA InvMiddleware == ASSUME IInv, Middleware PROVE IInv'
<1>1. "mw" \in Inner /\ "reg" \in Inner \ {"mw"} /\ UNCHANGED <<cfg, cli, asked, conn>>
  BY DEF Middleware, Inner, SrvPcs
<1>2. CASE srv.pc = "mw" /\ srv' = Goto("reg")
  BY <1>1, <1>2, Gotos
<1>3. CASE srv.pc = "mw" /\ srv' = Return("fin", Err("Status", "App"))
  BY <1>1, <1>3, AppErrs, Passes
<1>4. CASE srv.pc = "ret" /\ \E e \in {srv.err, NoErr, Err("Status", "App")} : srv' = LeaveNext("fin", e)
  <2>1. PICK e \in {srv.err, NoErr, Err("Status", "App")} : srv' = LeaveNext("fin", e)
    BY <1>4
  <2>2. e \in Errors
    BY AppErrs DEF IInv, TypeOK, SrvStates
  <2> QED
    BY <1>1, <1>4, <2>1, <2>2, Leaves
<1> QED
  BY <1>2, <1>3, <1>4 DEF Middleware

LEMMA InvServerInterceptor == ASSUME IInv, ServerInterceptor PROVE IInv'
<1>1. /\ {"icpt", "icptOut", "wrap", "impl", "grpcRecv"} \subseteq Inner \ {"mw", "reg"}
      /\ srv.pc \in {"icpt", "icptOut"}
  BY DEF ServerInterceptor, Inner, SrvPcs
<1>2. CASE srv' = Goto(ImplPc)
  <2>1. ImplPc \in {"grpcRecv", "impl"}
    BY DEF ImplPc
  <2> QED
    BY <1>1, <1>2, <2>1, Gotos DEF ServerInterceptor
<1>3. CASE srv' = Goto("wrap")
  BY <1>1, <1>3, Gotos DEF ServerInterceptor
<1>4. CASE \E e \in {NoErr, Err("grpc", "App")} : srv' = Return("wrap", e)
  <2>1. PICK e \in Errors : srv' = Return("wrap", e)
    BY <1>4, AppErrs
  <2> QED
    BY <1>1, <2>1, Passes DEF ServerInterceptor
<1> QED
  BY <1>2, <1>3, <1>4 DEF ServerInterceptor

LEMMA InvImplRecv == ASSUME IInv, ImplRecv PROVE IInv'
<1>1. /\ srv \in SrvStates /\ srv.pc = "impl" /\ srv.reqs > 0 /\ UNCHANGED <<cfg, cli, asked, conn>>
      /\ srv' = [srv EXCEPT !.reqs = srv.reqs - 1] /\ cfg.path # "none"
  BY DEF ImplRecv, IInv, TypeOK, EndInv
<1>2. srv.reqs \in Int /\ srv.reqs >= 0 /\ srv.reqs <= MaxReqs + 1
  BY <1>1, Requests
<1>3. PICK n \in 0..(MaxReqs + 1) : n = srv.reqs - 1
  BY <1>1, <1>2
<1>4. srv' = [srv EXCEPT !.reqs = n]
  BY <1>1, <1>3
<1>5. /\ srv' \in SrvStates /\ Kept(srv, srv') /\ srv'.reqs = n /\ srv'.pc = "impl"
      /\ srv'.sts = srv.sts
  BY <1>1, <1>4 DEF SrvStates, Kept
<1>6. n <= srv.reqs /\ ~Left
  BY <1>1, <1>2, <1>3 DEF Left
<1> QED
  BY <1>1, <1>5, <1>6, Moves

LEMMA InvImplReturn == ASSUME IInv, ImplReturn PROVE IInv'
<1>1. PICK err \in AppErrors \cup {NoErr} :
          srv' = Return(IF cfg.icpt THEN "icptOut" ELSE "wrap", err)
  BY DEF ImplReturn
<1>2. "impl" \in Inner /\ {"icptOut", "wrap"} \subseteq Inner \ {"mw"}
  BY DEF Inner, SrvPcs
<1> QED
  BY <1>1, <1>2, AppErrs, Passes DEF ImplReturn

LEMMA InvAppPanic == ASSUME IInv, AppPanic PROVE IInv'
<1>1. {"mw", "icpt", "impl", "icptOut"} \subseteq Inner /\ UNCHANGED <<cfg, cli, asked, conn>>
  BY DEF Inner, SrvPcs, AppPanic
<1>2. CASE srv.pc \in {"mw", "icpt", "impl", "icptOut"} /\ srv' = Goto("panic")
  BY <1>1, <1>2, Gotos
<1>3. CASE srv.pc = "ret" /\ srv' = LeaveNext("panic", srv.err)
  <2>1. srv.err \in Errors
    BY DEF IInv, TypeOK, SrvStates
  <2> QED
    BY <1>1, <1>3, <2>1, Leaves
<1> QED
  BY <1>2, <1>3 DEF AppPanic

LEMMA Entering ==
  ASSUME IInv
  PROVE  /\ srv.sts \in BOOLEAN
         /\ Goto("impl") = [srv EXCEPT !.pc = "impl", !.sts = srv.sts]
         /\ \E pc \in {"icpt", "grpcRecv", "impl"} :
                EnterImpl(srv) = [srv EXCEPT !.pc = pc, !.sts = srv.sts]
         /\ \E pc \in {"icpt", "grpcRecv", "impl"} :
                EnterImpl([srv EXCEPT !.sts = TRUE]) = [srv EXCEPT !.pc = pc, !.sts = TRUE]
<1>1. srv \in SrvStates
  BY DEF IInv, TypeOK
<1> DEFINE pc == IF cfg.icpt THEN "icpt" ELSE ImplPc
<1>2. pc \in {"icpt", "grpcRecv", "impl"}
  BY DEF ImplPc
<1>3. EnterImpl(srv) = [srv EXCEPT !.pc = pc]
      /\ EnterImpl([srv EXCEPT !.sts = TRUE]) = [[srv EXCEPT !.sts = TRUE] EXCEPT !.pc = pc]
  BY DEF EnterImpl
<1> HIDE DEF pc
<1>4. [srv EXCEPT !.pc = pc] = [srv EXCEPT !.pc = pc, !.sts = srv.sts]
  BY <1>1 DEF SrvStates
<1>5. [[srv EXCEPT !.sts = TRUE] EXCEPT !.pc = pc] = [srv EXCEPT !.pc = pc, !.sts = TRUE]
  BY <1>1 DEF SrvStates
<1>6. srv.sts \in BOOLEAN /\ Goto("impl") = [srv EXCEPT !.pc = "impl", !.sts = srv.sts]
  BY <1>1 DEF SrvStates, Goto
<1> QED
  BY <1>2, <1>3, <1>4, <1>5, <1>6

LEMMA InvRegisterServerStream == ASSUME IInv, RegisterServerStream PROVE IInv'
<1>1. UNCHANGED <<cfg, cli, asked, conn>> /\ cfg.kind = "server"
  BY DEF RegisterServerStream
<1>2. CASE srv.pc = "reg" /\ RecvRequest(bridgeServerStream(srv))
  BY <1>1, <1>2, Entering, Enters DEF bridgeServerStream
<1>3. CASE srv.pc = "reg" /\ RecvRequest(Goto("impl"))
  BY <1>1, <1>3, Entering, Enters
<1>4. CASE srv.pc = "wrap" /\ srv' = Goto("ret")
  BY <1>1, <1>4, Gotos DEF Inner, SrvPcs, UnarySink
<1> QED
  BY <1>2, <1>3, <1>4 DEF RegisterServerStream

LEMMA InvRegisterBidi == ASSUME IInv, RegisterBidi PROVE IInv'
<1>1. UNCHANGED <<cfg, cli, asked, conn>> /\ cfg.kind = "bidi"
  BY SMTT(20) DEF RegisterBidi
<1>2. CASE srv.pc = "reg" /\ srv' = bridgeBidi(srv)
  BY <1>1, <1>2, Entering, Enters DEF bridgeBidi
<1>3. CASE srv.pc = "wrap" /\ srv' = Goto("ret")
  BY <1>1, <1>3, Gotos DEF Inner, SrvPcs, UnarySink
<1> QED
  BY <1>2, <1>3 DEF RegisterBidi

LEMMA InvRegistrarStream == ASSUME IInv, registrarStream PROVE IInv'
<1>1. UNCHANGED <<cfg, cli, asked, conn>> /\ cfg.kind # "unary"
  BY SMTT(20) DEF registrarStream
<1>2. CASE srv.pc = "reg" /\ srv' = EnterImpl(srv)
  BY <1>1, <1>2, Entering, Enters
<1>3. CASE srv.pc = "wrap" /\ srv' = Goto("ret")
  BY <1>1, <1>3, Gotos DEF Inner, SrvPcs, UnarySink
<1> QED
  BY <1>2, <1>3 DEF registrarStream

LEMMA InvRawHandler == ASSUME IInv, rawHandler PROVE IInv'
<1>1. UNCHANGED <<cfg, cli, asked, conn>> /\ cfg.path = "raw"
  BY SMTT(20) DEF rawHandler
<1>2. CASE srv.pc = "reg" /\ srv' = Goto("impl")
  BY <1>1, <1>2, Entering, Enters
<1>3. CASE srv.pc = "wrap" /\ srv' = Goto("ret")
  BY <1>1, <1>3, Gotos DEF Inner, SrvPcs, UnarySink
<1> QED
  BY <1>2, <1>3 DEF rawHandler

LEMMA InvGrpcServerStreamHandler == ASSUME IInv, grpcServerStreamHandler PROVE IInv'
<1>1. /\ srv \in SrvStates /\ srv.pc = "grpcRecv" /\ UNCHANGED <<cfg, cli, asked, conn>>
      /\ cfg.path # "none"
  BY DEF grpcServerStreamHandler, IInv, TypeOK, EndInv
<1>2. CASE srv.reqs > 0 /\ srv' = [Goto("impl") EXCEPT !.reqs = @ - 1]
  <2>1. srv.reqs \in Int /\ srv.reqs >= 0 /\ srv.reqs <= MaxReqs + 1
    BY <1>1, Requests
  <2>2. PICK n \in 0..(MaxReqs + 1) : n = srv.reqs - 1
    BY <1>2, <2>1
  <2>3. srv' = [srv EXCEPT !.pc = "impl", !.reqs = n]
    BY <1>1, <1>2, <2>2 DEF Goto, SrvStates
  <2>4. /\ srv' \in SrvStates /\ Kept(srv, srv') /\ srv'.reqs = n /\ srv'.pc = "impl"
        /\ srv'.sts = srv.sts
    BY <1>1, <2>3 DEF SrvStates, SrvPcs, Kept
  <2>5. n <= srv.reqs /\ ~Left
    BY <1>1, <2>1, <2>2 DEF Left
  <2> QED
    BY <1>1, <2>4, <2>5, Moves
<1>3. CASE srv' = Return(IF cfg.icpt THEN "icptOut" ELSE "wrap",
                         IF srv.ended THEN Err("Status", "Unavailable")
                         ELSE Err("other", "Unknown"))
  <2>1. PICK pc \in {"icptOut", "wrap"}, err \in Errors : srv' = Return(pc, err)
    BY <1>3, AppErrs
  <2>2. "grpcRecv" \in Inner /\ {"icptOut", "wrap"} \subseteq Inner \ {"mw"}
    BY DEF Inner, SrvPcs
  <2> QED
    BY <1>1, <2>1, <2>2, Passes
<1> QED
  BY <1>2, <1>3 DEF grpcServerStreamHandler

LEMMA InvServerLost == ASSUME IInv, serverLost PROVE IInv'
BY Stops DEF serverLost

LEMMA InvServerDeadline == ASSUME IInv, serverDeadline PROVE IInv'
<1>1. srv.ended \in BOOLEAN /\ srv' = [srv EXCEPT !.ended = srv.ended, !.ctx = TRUE]
  BY DEF serverDeadline, IInv, TypeOK, SrvStates
<1> QED
  BY <1>1, Stops DEF serverDeadline

-----------------------------------------------------------------------------
(* Headers, trailers and messages.                                         *)

\* What setting and sending leading headers leaves of the server's state.
Leads(s, t) ==
    /\ t \in SrvStates /\ t.pc = s.pc /\ t.header = s.header /\ t.reqs = s.reqs
    /\ t.ended = s.ended /\ t.msgSent = s.msgSent /\ t.outTrailer = s.outTrailer
    /\ t.sink = s.sink /\ t.sts = s.sts /\ t.resps = s.resps /\ t.err = s.err
    /\ t.stat = s.stat /\ t.lost = s.lost /\ t.inner = s.inner

LEMMA SendsHeader ==
  ASSUME NEW s \in SrvStates, NEW md \in MDs
  PROVE  LET r == SendHeader(s, md)
         IN  /\ Leads(s, r.s) /\ r.h \in Leading /\ r.m = NoFrame
             /\ s.msgSent => r.h = NoFrame
             /\ ~s.msgSent /\ ~s.headerSent => r.h = Frame("HEADER", md, "OK")
<1>1. CASE s.headerSent \/ s.msgSent
  BY <1>1 DEF SendHeader, Quiet, Out, Leading, Leads
<1>2. CASE ~s.headerSent /\ ~s.msgSent
  <2>1. [s EXCEPT !.headerSent = TRUE] \in SrvStates /\ Leads(s, [s EXCEPT !.headerSent = TRUE])
    BY DEF SrvStates, Leads
  <2>2. SendHeader(s, md) = Out([s EXCEPT !.headerSent = TRUE], Frame("HEADER", md, "OK"), NoFrame)
    BY <1>2 DEF SendHeader
  <2> QED
    BY <1>2, <2>1, <2>2 DEF Out, Leading
<1> QED
  BY <1>1, <1>2

\* The shims buffer headers, and send what they have buffered.
LEMMA Buffers ==
  ASSUME NEW s \in SrvStates, NEW md \in [Keys -> Values]
  PROVE  [s EXCEPT !.pending = md] \in SrvStates /\ Leads(s, [s EXCEPT !.pending = md])
BY DEF SrvStates, Leads

LEMMA LeadsOn ==
  ASSUME NEW s, NEW t, NEW u, Leads(s, t), Leads(t, u)
  PROVE  Leads(s, u)
BY DEF Leads

LEMMA SendsBuffered ==
  ASSUME NEW s \in SrvStates, NEW md \in [Keys -> Values]
  PROVE  LET r == SendHeader([s EXCEPT !.pending = NoMD], FlattenMD(md))
         IN  /\ Leads(s, r.s) /\ r.h \in Leading /\ r.m = NoFrame
             /\ s.msgSent => r.h = NoFrame
<1> DEFINE t == [s EXCEPT !.pending = NoMD]
           r == SendHeader(t, FlattenMD(md))
<1>1. t \in SrvStates /\ Leads(s, t)
  BY NoMDType, Buffers
<1>2. FlattenMD(md) \in MDs
  BY FlattenMDs
<1> HIDE DEF t
<1>3. Leads(t, r.s) /\ r.h \in Leading /\ r.m = NoFrame /\ (t.msgSent => r.h = NoFrame)
  BY <1>1, <1>2, SendsHeader
<1>4. t.msgSent = s.msgSent
  BY <1>1 DEF Leads
<1>5. Leads(s, r.s)
  BY <1>1, <1>3, LeadsOn
<1> QED
  BY <1>3, <1>4, <1>5 DEF t

LEMMA Pending ==
  ASSUME NEW s \in SrvStates
  PROVE  s.pending \in [Keys -> Values]
BY DEF SrvStates

LEMMA Flushes ==
  ASSUME NEW s \in SrvStates
  PROVE  LET r == FlushPending(s)
         IN  /\ Leads(s, r.s) /\ r.h \in Leading /\ r.m = NoFrame
             /\ s.msgSent => r.h = NoFrame
<1>1. CASE s.pending = NoMD
  BY <1>1 DEF FlushPending, Quiet, Out, Leading, Leads
<1>2. CASE s.pending # NoMD
  BY <1>2, Pending, SendsBuffered DEF FlushPending
<1> QED
  BY <1>1, <1>2

\* A write by application code: of middleware after next too.  Where one reply is
\* typed it is no message.
LEMMA Emitted ==
  ASSUME IInv, UNCHANGED <<cfg, conn>>, asked' \subseteq Keys \X Setters \X BOOLEAN,
         srv.pc \in Inner \cup {"ret"}, NEW s \in SrvStates, NEW h \in Leading, NEW m \in Messages,
         Emit(s, h, m), s.pc = srv.pc, s.header = srv.header, s.reqs = srv.reqs,
         s.ended = srv.ended, s.err = srv.err, s.stat = srv.stat, s.lost = srv.lost,
         s.inner = srv.inner, s.resps <= RespBound, srv.msgSent => s.msgSent, m # NoFrame => s.msgSent,
         ReplyOnce => m = NoFrame
  PROVE  /\ TypeOK' /\ OpenInv' /\ EndInv' /\ ReplyInv'
         /\ srv'.pc = s.pc /\ srv'.outTrailer = s.outTrailer /\ srv'.sink = s.sink
         /\ srv'.sts = s.sts /\ srv'.err = s.err /\ srv'.stat = "none" /\ srv'.msgSent = s.msgSent
         /\ srv'.headerSent = s.headerSent /\ cli'.endFrame = NoFrame
         /\ srv.lost => srv'.lost
         /\ NextErr' = NextErr /\ Left' = Left
         /\ h = NoFrame => cli'.header = cli.header
<1>1. TypeOK /\ EndInv /\ srv.pc \notin {"done", "none", "lookup", "unknown", "fin", "panic"}
  BY DEF IInv, Inner
<1>2. /\ Calm(cli, cli') /\ (h = NoFrame => cli'.header = cli.header)
      /\ cli'.buf \in {cli.buf, cli.buf + 1} /\ (m = NoFrame => cli'.buf = cli.buf)
      /\ srv' \in SrvStates
      /\ \E l \in BOOLEAN : srv' = [s EXCEPT !.lost = l] /\ (s.lost => l)
  BY <1>1, Emits
<1>3. /\ srv'.pc = s.pc /\ srv'.outTrailer = s.outTrailer /\ srv'.sink = s.sink
      /\ srv'.sts = s.sts /\ srv'.err = s.err /\ srv'.stat = s.stat /\ srv'.msgSent = s.msgSent
      /\ srv'.headerSent = s.headerSent /\ srv'.header = s.header /\ srv'.reqs = s.reqs
      /\ srv'.ended = s.ended /\ srv'.resps = s.resps /\ (s.lost => srv'.lost)
      /\ srv'.inner = s.inner
  BY <1>2 DEF SrvStates
<1>0. NextErr' = NextErr /\ Left' = Left
  BY <1>3 DEF NextErr, Left
<1>4. /\ cli' \in CliStates /\ cli'.pc = cli.pc /\ cli'.sends = cli.sends /\ cli'.got = cli.got
      /\ cli'.trailer = cli.trailer /\ cli'.endFrame = cli.endFrame
      /\ cli'.failed = cli.failed /\ cli'.res = cli.res
  BY <1>2 DEF Calm
<1>5. srv.stat = "none" /\ cli.endFrame = NoFrame
  BY <1>1 DEF EndInv
<1>6. TypeOK'
  BY <1>2, <1>3, <1>4 DEF IInv, TypeOK, RespBound
<1>7. OpenInv'
  BY SMTT(20), <1>3, <1>4 DEF IInv, OpenInv, Sent
<1>8. EndInv'
  BY SMTT(20), <1>1, <1>3, <1>4, <1>5 DEF EndInv
<1>9. ReplyInv'
  <2>1. cli.buf \in Nat /\ cli.got \in Nat
    BY DEF IInv, TypeOK, CliStates
  <2>2. cli'.buf = cli.buf \/ srv'.msgSent
    BY <1>2, <1>3
  <2>3. ReplyOnce => cli'.buf = cli.buf
    BY <1>2
  <2>4. cli'.buf + cli'.got > 0 => srv'.msgSent
    <3>1. CASE srv'.msgSent
      BY <3>1
    <3>2. CASE ~srv'.msgSent
      BY <1>3, <1>4, <2>2, <3>2 DEF IInv, ReplyInv
    <3> QED
      BY <3>1, <3>2
  <2>5. ReplyOnce => cli'.buf + cli'.got <= 1 /\ (cli'.buf + cli'.got > 0 => NextErr' = NoErr)
    BY SMTT(20), <1>0, <1>4, <2>1, <2>3 DEF IInv, ReplyInv
  <2>6. /\ ~(UnarySink /\ cli.res.ok) /\ (cli.pc = "drain" => cli.got > 0)
        /\ srv'.inner = NotYet
    BY <1>1, <1>3 DEF IInv, ReplyInv
  <2>7. ReplyOnce' = ReplyOnce /\ UnarySink' = UnarySink
    BY DEF ReplyOnce, UnarySink
  <2> QED
    BY <1>4, <2>4, <2>5, <2>6, <2>7 DEF ReplyInv
<1> QED
  BY <1>0, <1>2, <1>3, <1>4, <1>5, <1>6, <1>7, <1>8, <1>9

\* A message of a handler, with the headers the shims have buffered before it.
LEMMA SendsRaw ==
  ASSUME NEW s \in SrvStates, NEW r, Leads(s, r.s), r.h \in Leading
  PROVE  LET q == SendRaw(r)
         IN  /\ q.s \in SrvStates /\ q.h = r.h /\ q.m = Plain("MSG") /\ q.s.msgSent
             /\ q.s.pc = s.pc /\ q.s.header = s.header /\ q.s.reqs = s.reqs
             /\ q.s.ended = s.ended /\ q.s.err = s.err /\ q.s.stat = s.stat
             /\ q.s.lost = s.lost /\ q.s.resps = s.resps /\ q.s.outTrailer = s.outTrailer
             /\ q.s.sink = s.sink /\ q.s.sts = s.sts /\ q.s.inner = s.inner
BY DEF SendRaw, Out, Leads, SrvStates

LEMMA InvImplSend == ASSUME IInv, ImplSend PROVE IInv'
<1> DEFINE s == [srv EXCEPT !.resps = @ + 1]
           r == CASE cfg.path \in {"raw", "native"} -> SendRaw(Quiet(s))
                  [] cfg.path = "bridge" -> bridgeSendMsg(s)
                  [] cfg.path = "registrar" -> grpcSendMsg(s)
<1>1. /\ srv.pc = "impl" /\ srv.resps < RespBound /\ UNCHANGED <<cfg, asked, conn>>
      /\ cfg.path = "raw" \/ cfg.kind # "unary"
      /\ Emit(r.s, r.h, r.m)
  BY DEF ImplSend
<1>2. srv \in SrvStates /\ srv.resps \in Nat /\ RespBound \in Nat /\ cfg.path \in Paths
  BY DEF IInv, TypeOK, SrvStates, RespBound
<1>3. PICK n \in Nat : n = srv.resps + 1
  BY <1>2
<1>4. n <= RespBound /\ s = [srv EXCEPT !.resps = n]
  BY <1>1, <1>2, <1>3
<1>5. /\ s \in SrvStates /\ s.pc = srv.pc /\ s.header = srv.header /\ s.reqs = srv.reqs
      /\ s.ended = srv.ended /\ s.err = srv.err /\ s.stat = srv.stat /\ s.lost = srv.lost
      /\ s.resps = n /\ s.outTrailer = srv.outTrailer /\ s.sink = srv.sink
      /\ s.sts = srv.sts /\ s.msgSent = srv.msgSent /\ s.inner = srv.inner
  BY <1>2, <1>4 DEF SrvStates
<1>6. cfg.path # "none"
  BY <1>1 DEF IInv, EndInv
<1> HIDE DEF s
<1>7. /\ r.s \in SrvStates /\ r.h \in Leading /\ r.m \in Messages
      /\ srv.msgSent => r.s.msgSent
      /\ r.m # NoFrame => r.s.msgSent
      /\ ReplyOnce => r.m = NoFrame
      /\ r.s.pc = s.pc /\ r.s.header = s.header /\ r.s.reqs = s.reqs
      /\ r.s.ended = s.ended /\ r.s.err = s.err /\ r.s.stat = s.stat
      /\ r.s.lost = s.lost /\ r.s.resps = s.resps /\ r.s.outTrailer = s.outTrailer
      /\ r.s.sink = s.sink /\ r.s.sts = s.sts /\ r.s.inner = s.inner
  <2>1. Leads(s, Quiet(s).s) /\ Quiet(s).h \in Leading
    BY <1>5 DEF Leads, Quiet, Out, Leading
  <2>2. Leads(s, FlushPending(s).s) /\ FlushPending(s).h \in Leading
    BY <1>5, Flushes
  <2>3. Plain("MSG") \in Messages
    BY DEF Messages
  <2>4. CASE cfg.path \in {"raw", "native"}
    <3>1. r = SendRaw(Quiet(s)) /\ ~ReplyOnce
      BY <1>1, <2>4 DEF ReplyOnce
    <3> HIDE DEF r
    <3> QED
      BY <1>5, <2>1, <2>3, <3>1, SendsRaw
  <2>5. CASE cfg.path \in {"bridge", "registrar"} /\ ~ReplyOnce
    <3>1. r = SendRaw(FlushPending(s))
      BY <2>5 DEF bridgeSendMsg, grpcSendMsg, ReplyOnce
    <3> HIDE DEF r
    <3> QED
      BY <1>5, <2>2, <2>3, <2>5, <3>1, SendsRaw
  <2>6. CASE cfg.path = "bridge" /\ cfg.kind = "client"
    <3>1. r = Quiet([s EXCEPT !.captured = TRUE])
      BY <2>6 DEF bridgeSendMsg
    <3> HIDE DEF r
    <3>2. r.s = [s EXCEPT !.captured = TRUE] /\ r.h = NoFrame /\ r.m = NoFrame
      BY <3>1 DEF Quiet, Out
    <3>3. NoFrame \in Leading /\ NoFrame \in Messages
      BY DEF Leading, Messages
    <3> QED
      BY <1>5, <3>2, <3>3 DEF SrvStates
  <2> QED
    BY <1>1, <1>2, <1>6, <2>4, <2>5, <2>6 DEF ReplyOnce, Paths
<1> HIDE DEF r
<1>8. asked' \subseteq Keys \X Setters \X BOOLEAN /\ srv.pc \in Inner \cup {"ret"}
  BY <1>1 DEF IInv, TypeOK, Inner, SrvPcs
<1>9. r.s.resps <= RespBound
  BY <1>4, <1>5, <1>7
<1>10. /\ TypeOK' /\ OpenInv' /\ EndInv' /\ ReplyInv'
       /\ srv'.pc = r.s.pc /\ srv'.outTrailer = r.s.outTrailer /\ srv'.sink = r.s.sink
       /\ srv'.sts = r.s.sts /\ srv'.stat = "none" /\ cli'.endFrame = NoFrame
       /\ srv.lost => srv'.lost
       /\ Left' = Left
  BY <1>1, <1>5, <1>7, <1>8, <1>9, Emitted
<1>11. ~UnarySink /\ ~UnarySink'
  BY <1>1 DEF UnarySink
<1>12. OnTrailer' = OnTrailer
  BY <1>1 DEF OnTrailer, OnStream
<1>13. TrailerInv'
  <2>1. ~Left
    BY <1>1 DEF Left
  <2> QED
    BY <1>1, <1>5, <1>7, <1>10, <1>11, <1>12, <2>1 DEF IInv, TrailerInv
<1>14. HeaderInv'
  BY <1>11 DEF HeaderInv
<1> QED
  BY <1>10, <1>13, <1>14 DEF IInv

\* A trailer on the Stream, with or without a HEADER frame before it.
LEMMA MetadataOnStream ==
  ASSUME IInv, UNCHANGED <<cfg, conn>>, NEW k \in Keys, NEW who \in Setters, NEW late \in BOOLEAN,
         asked' = asked \cup {<<k, who, late>>}, srv.pc \in (Inner \ {"reg"}) \cup {"ret"},
         srv.pc \in {"mw", "ret"} => who = "mw", OnStream(who) \/ cfg.kind # "unary",
         NEW r, Leads(srv, r.s), r.h \in Leading,
         Emit(SetTrailer(r.s, FlattenMD(MD(k, who))), r.h, NoFrame)
  PROVE  IInv'
<1> DEFINE new == <<k, who, late>>
           F == FlattenMD(MD(k, who))
           s == SetTrailer(r.s, F)
<1>1. F \in MDs /\ Carries(F, {new})
  BY OneSetter
<1> HIDE DEF F
<1>2. srv \in SrvStates /\ srv.outTrailer \in MDs /\ srv.resps <= RespBound
  BY DEF IInv, TypeOK, SrvStates
<1>3. merge(srv.outTrailer, F) \in MDs
  BY <1>1, <1>2, OverMDs DEF merge
<1>4. s = [r.s EXCEPT !.outTrailer = merge(srv.outTrailer, F)]
  BY DEF SetTrailer, Leads
<1>5. /\ s \in SrvStates /\ s.pc = srv.pc /\ s.header = srv.header /\ s.reqs = srv.reqs
      /\ s.ended = srv.ended /\ s.err = srv.err /\ s.stat = srv.stat /\ s.lost = srv.lost
      /\ s.resps = srv.resps /\ s.outTrailer = merge(srv.outTrailer, F) /\ s.sink = srv.sink
      /\ s.sts = srv.sts /\ s.msgSent = srv.msgSent /\ s.inner = srv.inner
  <2>1. PICK t \in SrvStates : t = r.s /\ Leads(srv, t)
    BY DEF Leads
  <2>2. s = [t EXCEPT !.outTrailer = merge(srv.outTrailer, F)]
    BY <1>4, <2>1
  <2> HIDE DEF s
  <2> QED
    BY <1>3, <2>1, <2>2 DEF SrvStates, Leads
<1>6. Emit(s, r.h, NoFrame)
  BY DEF F
<1> HIDE DEF s
<1>7. /\ asked' \subseteq Keys \X Setters \X BOOLEAN /\ srv.pc \in Inner \cup {"ret"}
      /\ NoFrame \in Messages
  BY SMTT(20) DEF IInv, TypeOK, Messages
<1>8. /\ TypeOK' /\ OpenInv' /\ EndInv' /\ ReplyInv'
      /\ srv'.pc = s.pc /\ srv'.outTrailer = s.outTrailer /\ srv'.sink = s.sink
      /\ srv'.sts = s.sts /\ srv'.stat = "none" /\ srv'.msgSent = s.msgSent
      /\ cli'.endFrame = NoFrame
      /\ srv.lost => srv'.lost
      /\ NextErr' = NextErr /\ Left' = Left
  BY <1>2, <1>5, <1>6, <1>7, Emitted
<1> DEFINE Due == IF Left THEN TrailerDue ELSE OnTrailer
<1>9. Due' = Due \cup {new}
  <2>1. CASE Left
    <3>1. TrailerDue' = TrailerDue \cup {new}
      BY SMTT(20), <1>5, <1>8 DEF TrailerDue, OnStream
    <3> QED
      BY SMTT(20), <1>8, <2>1, <3>1
  <2>2. CASE ~Left
    <3>1. OnTrailer' = OnTrailer \cup {new}
      BY DEF OnTrailer, OnStream
    <3> QED
      BY <1>8, <2>2, <3>1
  <2> QED
    BY <2>1, <2>2
<1>10. srv.pc \notin {"none", "lookup", "unknown", "panic", "done", "reg"}
  BY SMTT(20) DEF Inner
<1>11. ~srv'.lost => Carries(srv'.outTrailer, Due')
  <2> SUFFICES ASSUME ~srv'.lost PROVE Carries(srv'.outTrailer, Due')
    BY SMTT(20)
  <2>1. Carries(srv.outTrailer, Due)
    BY <1>8, <1>10 DEF IInv, TrailerInv
  <2> QED
    BY <1>1, <1>2, <1>5, <1>8, <1>9, <2>1, CarriesOver
<1> HIDE DEF Due
<1>12. UnarySink => who = "mw"
  BY DEF UnarySink, OnStream
<1>13. UnarySink' = UnarySink
  BY SMTT(20) DEF UnarySink
<1>14. UnarySink => OnSink' = OnSink
  BY SMTT(20), <1>5, <1>8, <1>12 DEF OnSink
<1>15. srv'.pc \in {"mw", "reg"} => \A p \in asked' : p[2] = "mw"
  <2> SUFFICES ASSUME srv'.pc \in {"mw", "reg"}, NEW p \in asked' PROVE p[2] = "mw"
    BY SMTT(20)
  <2>1. srv.pc = "mw" /\ who = "mw"
    BY <1>5, <1>8, <1>10
  <2>2. CASE p = new
    BY <2>1, <2>2
  <2>3. CASE p \in asked
    BY SMTT(20), <2>1, <2>3 DEF IInv, TrailerInv
  <2> QED
    BY <2>2, <2>3
<1>16. TrailerInv'
  BY <1>5, <1>8, <1>10, <1>11, <1>13, <1>14, <1>15 DEF IInv, TrailerInv, Due
<1>17. UnarySink => \E p \in asked' : p[2] = "mw"
  <2>1. new \in asked' /\ new[2] = who
    OBVIOUS
  <2> QED
    BY <1>12, <2>1
<1>18. HeaderInv'
  BY <1>5, <1>8, <1>10, <1>13, <1>14, <1>17 DEF IInv, HeaderInv
<1> QED
  BY <1>8, <1>16, <1>18 DEF IInv

\* Metadata in the sink of a unary call; dropped where none is installed.
LEMMA MetadataOnSink ==
  ASSUME IInv, UNCHANGED <<cfg, conn>>, NEW k \in Keys, NEW who \in Setters, NEW late \in BOOLEAN,
         asked' = asked \cup {<<k, who, late>>}, srv.pc \in Inner \ {"reg", "mw"},
         ~OnStream(who), cfg.kind = "unary", NEW s \in SrvStates, Emit(s, NoFrame, NoFrame),
         LET F == FlattenMD(MD(k, who))
         IN  IF cfg.path = "native" \/ srv.sts
             THEN s = [srv EXCEPT !.sink = [header |-> merge(srv.sink.header, F),
                                            trailer |-> merge(srv.sink.trailer, F)]]
             ELSE s = srv
  PROVE  IInv'
<1> DEFINE new == <<k, who, late>>
           F == FlattenMD(MD(k, who))
           on == cfg.path = "native" \/ srv.sts
<1>1. F \in MDs /\ Carries(F, {new})
  BY OneSetter
<1>2. IF on THEN s = [srv EXCEPT !.sink = [header |-> merge(srv.sink.header, F),
                                           trailer |-> merge(srv.sink.trailer, F)]]
      ELSE s = srv
  OBVIOUS
<1> HIDE DEF F
<1>3. /\ srv \in SrvStates /\ srv.sink.header \in MDs /\ srv.sink.trailer \in MDs
      /\ srv.resps <= RespBound
  BY DEF IInv, TypeOK, SrvStates
<1>4. /\ s.pc = srv.pc /\ s.header = srv.header /\ s.reqs = srv.reqs
      /\ s.ended = srv.ended /\ s.err = srv.err /\ s.stat = srv.stat /\ s.lost = srv.lost
      /\ s.resps = srv.resps /\ s.outTrailer = srv.outTrailer /\ s.sts = srv.sts
      /\ s.msgSent = srv.msgSent /\ s.headerSent = srv.headerSent /\ s.inner = srv.inner
      /\ on => s.sink.header = merge(srv.sink.header, F)
               /\ s.sink.trailer = merge(srv.sink.trailer, F)
      /\ ~on => s.sink = srv.sink
  BY <1>2, <1>3 DEF SrvStates
<1>5. /\ asked' \subseteq Keys \X Setters \X BOOLEAN /\ srv.pc \in Inner \cup {"ret"}
      /\ NoFrame \in Messages /\ NoFrame \in Leading
  BY DEF IInv, TypeOK, Messages, Leading
<1>6. /\ TypeOK' /\ OpenInv' /\ EndInv' /\ ReplyInv'
      /\ srv'.pc = s.pc /\ srv'.outTrailer = s.outTrailer /\ srv'.sink = s.sink
      /\ srv'.sts = s.sts /\ srv'.stat = "none" /\ srv'.msgSent = s.msgSent
      /\ srv'.headerSent = s.headerSent /\ cli'.endFrame = NoFrame
      /\ srv.lost => srv'.lost
      /\ cli'.header = cli.header
      /\ NextErr' = NextErr /\ Left' = Left
  BY <1>3, <1>4, <1>5, Emitted
<1>7. srv.pc \notin {"none", "lookup", "unknown", "done", "reg", "mw"} /\ ~Left
  BY DEF Inner, Left
<1>8. UnarySink /\ UnarySink' /\ who # "mw" /\ OnTrailer' = OnTrailer
  BY DEF UnarySink, OnStream, OnTrailer
<1>9. OnSink' = IF on THEN OnSink \cup {new} ELSE OnSink
  BY <1>4, <1>6, <1>8 DEF OnSink
<1>10. Carries(srv.sink.trailer, OnSink) /\ DOMAIN srv.sink.header = {p[1] : p \in OnSink}
  BY <1>7, <1>8 DEF IInv, TrailerInv, HeaderInv
<1>11. Carries(srv'.sink.trailer, OnSink')
  BY <1>1, <1>3, <1>4, <1>6, <1>9, <1>10, CarriesOver
<1>12. DOMAIN srv'.sink.header = {p[1] : p \in OnSink'}
  <2>1. CASE on
    <3>1. DOMAIN F = {k}
      BY <1>1 DEF Carries
    <3>2. DOMAIN Over(F, srv.sink.header) = DOMAIN srv.sink.header \cup {k}
      BY <1>1, <1>3, <3>1, OverMDs
    <3>3. srv'.sink.header = Over(F, srv.sink.header)
      BY <1>4, <1>6, <2>1 DEF merge
    <3>4. {p[1] : p \in OnSink \cup {new}} = {p[1] : p \in OnSink} \cup {k}
      <4>1. new[1] = k
        OBVIOUS
      <4> HIDE DEF new
      <4> QED
        BY <4>1
    <3> QED
      BY <1>9, <1>10, <2>1, <3>2, <3>3, <3>4
  <2>2. CASE ~on
    BY <1>4, <1>6, <1>9, <1>10, <2>2
  <2> QED
    BY <2>1, <2>2
<1>13. TrailerInv'
  BY <1>4, <1>6, <1>7, <1>8, <1>11 DEF IInv, TrailerInv
<1>14. HeaderInv'
  BY <1>4, <1>6, <1>7, <1>8, <1>12, NotReturned DEF IInv, HeaderInv
<1> QED
  BY <1>6, <1>13, <1>14 DEF IInv

LEMMA SinkSets ==
  ASSUME NEW s \in SrvStates, NEW md \in MDs
  PROVE  sinkSetTrailer(sinkSetHeader(s, md), md)
           = [s EXCEPT !.sink = [header |-> merge(s.sink.header, md),
                                 trailer |-> merge(s.sink.trailer, md)]]
<1>1. s.sink \in [header: MDs, trailer: MDs]
  BY DEF SrvStates
<1> DEFINE h == merge(s.sink.header, md)
           t == merge(s.sink.trailer, md)
           one == [header |-> h, trailer |-> s.sink.trailer]
<1>2. sinkSetHeader(s, md) = [s EXCEPT !.sink = [s.sink EXCEPT !.header = h]]
  BY DEF sinkSetHeader
<1> HIDE DEF h
<1>3. [s.sink EXCEPT !.header = h] = one
  BY <1>1
<1>4. sinkSetHeader(s, md) = [s EXCEPT !.sink = one]
  BY <1>2, <1>3
<1> DEFINE q == [s EXCEPT !.sink = one]
<1>5. q.sink = one /\ one.trailer = s.sink.trailer
  BY DEF SrvStates
<1>6. sinkSetTrailer(q, md) = [q EXCEPT !.sink = [q.sink EXCEPT !.trailer = merge(q.sink.trailer, md)]]
  BY DEF sinkSetTrailer
<1>7. sinkSetTrailer(q, md) = [q EXCEPT !.sink = [one EXCEPT !.trailer = t]]
  BY <1>5, <1>6
<1> HIDE DEF t
<1>8. [one EXCEPT !.trailer = t] = [header |-> h, trailer |-> t]
  OBVIOUS
<1>9. [q EXCEPT !.sink = [header |-> h, trailer |-> t]]
        = [s EXCEPT !.sink = [header |-> h, trailer |-> t]]
  BY DEF SrvStates
<1> QED
  BY <1>4, <1>7, <1>8, <1>9 DEF h, t

\* Headers on the Stream, or on a streaming gRPC shim: buffered, or sent unless a
\* message went out before.
LEMMA HeaderOpsLead ==
  ASSUME TypeOK, NEW who, NEW md \in [Keys -> Values], NEW r \in HeaderOps(who, md),
         OnStream(who) \/ cfg.kind # "unary"
  PROVE  /\ Leads(srv, r.s) /\ r.h \in Leading /\ r.m = NoFrame
         /\ srv.msgSent => r.h = NoFrame
<1> DEFINE F == FlattenMD(md)
<1>1. F \in MDs /\ srv \in SrvStates /\ srv.pending \in [Keys -> Values]
  BY FlattenMDs, Pending DEF TypeOK
<1> HIDE DEF F
<1>2. CASE r = SendHeader(srv, F)
  BY <1>1, <1>2, SendsHeader
<1>3. CASE r = Quiet([srv EXCEPT !.pending = Join(srv.pending, md)])
  <2>1. r.s = [srv EXCEPT !.pending = Join(srv.pending, md)] /\ r.h = NoFrame /\ r.m = NoFrame
    BY <1>3 DEF Quiet, Out
  <2>2. Leads(srv, r.s)
    BY <1>1, <2>1, JoinMD, Buffers
  <2> QED
    BY <2>1, <2>2 DEF Leading
<1>4. CASE r = SendHeader([srv EXCEPT !.pending = NoMD], FlattenMD(Join(srv.pending, md)))
  BY <1>1, <1>4, JoinMD, SendsBuffered
<1>5. bridgeSendHeader(srv, md)
        = SendHeader([srv EXCEPT !.pending = NoMD], FlattenMD(Join(srv.pending, md)))
  <2> DEFINE j == Join(srv.pending, md)
             q == [srv EXCEPT !.pending = j]
  <2>1. bridgeSendHeader(srv, md) = SendHeader([q EXCEPT !.pending = NoMD], FlattenMD(q.pending))
    BY DEF bridgeSendHeader, bridgeSetHeader
  <2> HIDE DEF j
  <2>2. q.pending = j /\ [q EXCEPT !.pending = NoMD] = [srv EXCEPT !.pending = NoMD]
    BY <1>1 DEF SrvStates
  <2> QED
    BY <2>1, <2>2 DEF j
<1>6. r \in {SendHeader(srv, F), Quiet([srv EXCEPT !.pending = Join(srv.pending, md)]),
             SendHeader([srv EXCEPT !.pending = NoMD], FlattenMD(Join(srv.pending, md)))}
  <2>1. CASE OnStream(who)
    BY <2>1 DEF HeaderOps, F
  <2>2. CASE ~OnStream(who)
    <3>1. cfg.kind # "unary"
      BY <2>2
    <3>2. CASE cfg.path = "bridge"
      BY <1>5, <2>2, <3>1, <3>2 DEF HeaderOps, bridgeSetHeader
    <3>3. CASE cfg.path = "registrar"
      BY <2>2, <3>1, <3>3 DEF HeaderOps, grpcSetHeader, grpcSendHeader
    <3>4. CASE cfg.path \notin {"bridge", "registrar"}
      BY <2>2, <3>1, <3>4 DEF HeaderOps
    <3> QED
      BY <3>2, <3>3, <3>4
  <2> QED
    BY <2>1, <2>2
<1> QED
  BY <1>2, <1>3, <1>4, <1>6

LEMMA InvAppMetadata ==
  ASSUME IInv, NEW k \in Keys, NEW who \in Setters, AppMetadata(who, k) PROVE IInv'
<1> DEFINE md == MD(k, who)
           F == FlattenMD(md)
<1>1. PICK late \in BOOLEAN : asked' = asked \cup {<<k, who, late>>}
  <2>1. CASE srv.headerSent \/ srv.msgSent
    BY <2>1 DEF AppMetadata
  <2>2. CASE ~(srv.headerSent \/ srv.msgSent)
    BY <2>2 DEF AppMetadata
  <2> QED
    BY <2>1, <2>2
<1>2. PICK r \in HeaderOps(who, md) : Emit(TrailerOp(r.s, who, md), r.h, r.m)
  BY DEF AppMetadata
<1>3. /\ UNCHANGED <<cfg, conn>> /\ srv.pc \in (Inner \ {"reg"}) \cup {"ret"}
      /\ srv.pc \in {"mw", "ret"} <=> who = "mw"
  BY DEF AppMetadata, Runs, Inner, SrvPcs, Setters
<1>4. md \in [Keys -> Values] /\ F \in MDs
  BY OneSetter
<1>5. srv \in SrvStates /\ srv.pending \in [Keys -> Values] /\ cfg.path \in Paths /\ cfg.path # "none"
  BY <1>3, Pending DEF IInv, TypeOK, EndInv, Inner
<1> HIDE DEF F, md
<1>6. CASE OnStream(who) \/ cfg.kind # "unary"
  <2>1. TrailerOp(r.s, who, md) = SetTrailer(r.s, F)
    BY <1>6 DEF TrailerOp, F
  <2>2. Leads(srv, r.s) /\ r.h \in Leading /\ r.m = NoFrame
    BY <1>2, <1>4, <1>6, HeaderOpsLead DEF IInv
  <2>3. Emit(SetTrailer(r.s, FlattenMD(MD(k, who))), r.h, NoFrame)
    BY <1>2, <2>1, <2>2 DEF F, md
  <2> QED
    BY <1>1, <1>3, <1>6, <2>2, <2>3, MetadataOnStream
<1>7. CASE ~OnStream(who) /\ cfg.kind = "unary"
  <2> DEFINE s == TrailerOp(r.s, who, md)
             sunk == [srv EXCEPT !.sink = [header |-> merge(srv.sink.header, F),
                                           trailer |-> merge(srv.sink.trailer, F)]]
  <2>1. r = Quiet(IF cfg.path = "native" THEN sinkSetHeader(srv, F) ELSE stsSetHeader(srv, md))
    BY <1>2, <1>7 DEF HeaderOps, F
  <2>2. r.h = NoFrame /\ r.m = NoFrame
        /\ r.s = IF cfg.path = "native" THEN sinkSetHeader(srv, F) ELSE stsSetHeader(srv, md)
    BY <2>1 DEF Quiet, Out
  <2>3. IF cfg.path = "native" \/ srv.sts THEN s = sunk ELSE s = srv
    <3>1. CASE cfg.path = "native"
      BY <1>4, <1>5, <1>7, <2>2, <3>1, SinkSets DEF TrailerOp, F
    <3>2. CASE cfg.path # "native" /\ srv.sts
      <4>1. r.s = sinkSetHeader(srv, F) /\ sinkSetHeader(srv, F).sts = srv.sts
        BY <1>5, <2>2, <3>2 DEF stsSetHeader, sinkSetHeader, SrvStates, F
      <4>2. s = sinkSetTrailer(r.s, F)
        BY <1>7, <3>2, <4>1 DEF TrailerOp, stsSetTrailer, F
      <4> QED
        BY <1>4, <1>5, <3>2, <4>1, <4>2, SinkSets
    <3>3. CASE cfg.path # "native" /\ ~srv.sts
      BY <1>7, <2>2, <3>3 DEF TrailerOp, stsSetHeader, stsSetTrailer
    <3> QED
      BY <3>1, <3>2, <3>3
  <2>4. sunk \in SrvStates
    <3>1. srv.sink.header \in MDs /\ srv.sink.trailer \in MDs
      BY <1>5 DEF SrvStates
    <3>2. merge(srv.sink.header, F) \in MDs /\ merge(srv.sink.trailer, F) \in MDs
      BY <1>4, <3>1, OverMDs DEF merge
    <3> QED
      BY <1>5, <3>2 DEF SrvStates
  <2>5. s \in SrvStates
    BY <1>5, <2>3, <2>4
  <2>6. Emit(s, NoFrame, NoFrame) /\ srv.pc \in Inner \ {"reg", "mw"}
    BY <1>2, <1>3, <1>7, <2>2 DEF OnStream
  <2>7. IF cfg.path = "native" \/ srv.sts
        THEN s = [srv EXCEPT !.sink = [header |-> merge(srv.sink.header, FlattenMD(MD(k, who))),
                                       trailer |-> merge(srv.sink.trailer, FlattenMD(MD(k, who)))]]
        ELSE s = srv
    BY <2>3 DEF F, md
  <2> HIDE DEF s
  <2> QED
    BY <1>1, <1>3, <1>7, <2>5, <2>6, <2>7, MetadataOnSink
<1> QED
  BY <1>6, <1>7

-----------------------------------------------------------------------------
(* Replies, and the end of serveStream.                                    *)

\* The trailers due of a handler that succeeds.
DueOnSuccess ==
    {p \in asked : OnStream(p[2]) \/ cfg.kind # "unary" \/ cfg.path = "native" \/ srv.sts}

\* The response is the last thing a handler sends: it goes out and the handler
\* has succeeded, or its error is the handler's.
LEMMA Replies ==
  ASSUME IInv, UNCHANGED <<cfg, asked, conn>>, srv.pc = "wrap", NEW r, ReplyLast(r),
         r.s \in SrvStates, r.h \in Leading, r.m = Plain("MSG"), r.s.msgSent,
         r.s.header = srv.header, r.s.reqs = srv.reqs, r.s.ended = srv.ended,
         r.s.stat = srv.stat, r.s.lost = srv.lost, r.s.resps = srv.resps, r.s.sts = srv.sts,
         r.s.inner = srv.inner, ~srv.lost => Carries(r.s.outTrailer, DueOnSuccess),
         UnarySink /\ (\A p \in asked : p[2] # "mw") =>
            (IF r.h = NoFrame THEN DOMAIN cli.header ELSE DOMAIN r.h.md)
              = {p[1] : p \in HeaderDue}
  PROVE  IInv'
<1>1. PICK s \in SrvStates, m \in Messages :
          /\ Emit(s, r.h, m)
          /\ s.pc = "ret" /\ s.msgSent /\ s.header = srv.header /\ s.reqs = srv.reqs
          /\ s.ended = srv.ended /\ s.stat = srv.stat /\ s.resps = srv.resps /\ s.sts = srv.sts
          /\ s.outTrailer = r.s.outTrailer /\ s.inner = srv.inner /\ (srv.lost => s.lost)
          /\ s.err = NoErr \/ (m = NoFrame /\ s.lost)
  <2>1. PICK q \in SrvStates : q = r.s
    OBVIOUS
  <2>2. NoErr \in Errors /\ Err("other", "Unknown") \in Errors
    BY AppErrs
  <2>3. Plain("MSG") \in Messages /\ NoFrame \in Messages
    BY DEF Messages
  <2>4. CASE Emit([q EXCEPT !.pc = "ret", !.err = NoErr], r.h, Plain("MSG"))
    <3> DEFINE s == [q EXCEPT !.pc = "ret", !.err = NoErr]
    <3>1. /\ s \in SrvStates /\ s.pc = "ret" /\ s.err = NoErr /\ s.msgSent = q.msgSent
          /\ s.header = q.header /\ s.reqs = q.reqs /\ s.ended = q.ended /\ s.stat = q.stat
          /\ s.resps = q.resps /\ s.sts = q.sts /\ s.outTrailer = q.outTrailer /\ s.lost = q.lost
          /\ s.inner = q.inner
      BY <2>2 DEF SrvStates, SrvPcs
    <3> HIDE DEF s
    <3> QED
      BY <2>1, <2>3, <2>4, <3>1 DEF s
  <2>5. CASE Emit([q EXCEPT !.pc = "ret", !.err = Err("other", "Unknown"), !.lost = TRUE],
                  r.h, NoFrame)
    <3> DEFINE s == [q EXCEPT !.pc = "ret", !.err = Err("other", "Unknown"), !.lost = TRUE]
    <3>1. /\ s \in SrvStates /\ s.pc = "ret" /\ s.msgSent = q.msgSent
          /\ s.header = q.header /\ s.reqs = q.reqs /\ s.ended = q.ended /\ s.stat = q.stat
          /\ s.resps = q.resps /\ s.sts = q.sts /\ s.outTrailer = q.outTrailer /\ s.lost
          /\ s.inner = q.inner
      BY <2>2 DEF SrvStates, SrvPcs
    <3> HIDE DEF s
    <3> QED
      BY <2>1, <2>3, <2>5, <3>1 DEF s
  <2> QED
    BY <2>1, <2>4, <2>5 DEF ReplyLast
<1>2. TypeOK /\ EndInv /\ srv.pc # "done" /\ srv.stat = "none" /\ cli.endFrame = NoFrame
      /\ cfg.path # "none"
  BY DEF IInv, EndInv
<1>3. /\ Calm(cli, cli') /\ (r.h = NoFrame => cli'.header = cli.header)
      /\ cli'.buf \in {cli.buf, cli.buf + 1} /\ (m = NoFrame => cli'.buf = cli.buf)
      /\ srv' \in SrvStates
      /\ \E l \in BOOLEAN : srv' = [s EXCEPT !.lost = l] /\ (s.lost => l)
      /\ ~srv'.lost /\ r.h # NoFrame => cli'.header = r.h.md
  BY <1>1, <1>2, Emits
<1>4. /\ srv'.pc = "ret" /\ srv'.outTrailer = s.outTrailer /\ srv'.sts = s.sts
      /\ srv'.err = s.err /\ srv'.stat = s.stat /\ srv'.msgSent = s.msgSent
      /\ srv'.header = s.header /\ srv'.reqs = s.reqs /\ srv'.ended = s.ended
      /\ srv'.resps = s.resps /\ srv'.inner = s.inner /\ (s.lost => srv'.lost)
  <2>1. PICK l \in BOOLEAN : srv' = [s EXCEPT !.lost = l] /\ (s.lost => l)
    BY <1>3
  <2>2. s.pc = "ret"
    BY <1>1
  <2> QED
    BY <2>1, <2>2 DEF SrvStates
<1>5. /\ cli' \in CliStates /\ cli'.pc = cli.pc /\ cli'.sends = cli.sends /\ cli'.got = cli.got
      /\ cli'.trailer = cli.trailer /\ cli'.endFrame = cli.endFrame
      /\ cli'.failed = cli.failed /\ cli'.res = cli.res
  BY <1>3 DEF Calm
<1>0. /\ ~Left /\ Left' /\ NextErr # NoErr /\ srv'.inner = NotYet /\ NextErr' = srv'.err
  <2>1. ~Left
    BY DEF Left
  <2> QED
    BY <1>1, <1>4, <2>1, NotReturned DEF Left, NextErr
<1>6. TypeOK'
  BY SMTT(20), <1>1, <1>3, <1>4, <1>5 DEF IInv, TypeOK, RespBound
<1>7. OpenInv'
  BY SMTT(20), <1>1, <1>4, <1>5 DEF IInv, OpenInv, Sent
<1>8. EndInv'
  BY SMTT(20), <1>1, <1>2, <1>4, <1>5 DEF EndInv
<1>9. UnarySink' = UnarySink /\ ReplyOnce' = ReplyOnce
  BY SMTT(20) DEF UnarySink, ReplyOnce
<1>10. ReplyInv'
  <2>1. cli.buf \in Nat /\ cli.got \in Nat
    BY DEF IInv, TypeOK, CliStates
  <2>2. ReplyOnce => cli.buf = 0 /\ cli.got = 0
    BY <1>0, <2>1 DEF IInv, ReplyInv
  <2>3. ReplyOnce => cli'.buf + cli'.got <= 1 /\ (cli'.buf + cli'.got > 0 => srv'.err = NoErr)
    <3>1. CASE m = NoFrame
      BY <1>3, <1>5, <2>1, <2>2, <3>1
    <3>2. CASE m # NoFrame
      BY <1>1, <1>3, <1>4, <1>5, <2>1, <2>2, <3>2
    <3> QED
      BY <3>1, <3>2
  <2>4. ~(UnarySink /\ cli.res.ok) /\ (cli.pc = "drain" => cli.got > 0)
    BY SMTT(20) DEF IInv, ReplyInv
  <2> QED
    BY SMTT(20), <1>0, <1>1, <1>4, <1>5, <1>9, <2>3, <2>4 DEF ReplyInv
<1>11. srv'.err = NoErr => TrailerDue' = DueOnSuccess
  BY SMTT(20), <1>0, <1>1, <1>4 DEF TrailerDue, DueOnSuccess, OnStream
<1>12. ~srv'.lost => srv'.err = NoErr /\ ~srv.lost
  BY SMTT(20), <1>1, <1>4
<1>13. TrailerInv'
  BY SMTT(20), <1>0, <1>1, <1>2, <1>4, <1>5, <1>11, <1>12 DEF TrailerInv
<1>14. HeaderDue' = HeaderDue
  BY SMTT(20), <1>1, <1>4 DEF HeaderDue
<1>15. HeaderInv'
  <2>1. UnarySink /\ ~srv'.lost /\ (\A p \in asked : p[2] # "mw") =>
          DOMAIN cli'.header = {p[1] : p \in HeaderDue}
    BY <1>3
  <2> QED
    BY <1>0, <1>4, <1>9, <1>14, <2>1 DEF HeaderInv
<1> QED
  BY <1>6, <1>7, <1>8, <1>10, <1>13, <1>15 DEF IInv

\* A unary handler returned: its error, or the sink and the response.
LEMMA FlushesUnary ==
  ASSUME IInv, UNCHANGED <<cfg, asked, conn>>, srv.pc = "wrap", UnarySink, FlushUnary
  PROVE  IInv'
<1> DEFINE s == SetTrailer(srv, srv.sink.trailer)
           q == IF srv.sink.header = Nil THEN Quiet(s) ELSE SendHeader(s, srv.sink.header)
<1>1. /\ srv \in SrvStates /\ srv.outTrailer \in MDs /\ srv.sink.trailer \in MDs
      /\ srv.sink.header \in MDs
  BY DEF IInv, TypeOK, SrvStates
<1>2. CASE srv.err # NoErr /\ srv' = Goto("ret") /\ UNCHANGED cli
  <2>1. "wrap" \in Inner
    BY DEF Inner, SrvPcs
  <2> QED
    BY <1>2, <2>1, Gotos
<1>4. CASE srv' = Return("ret", unexpectedType) /\ UNCHANGED cli
  <2>1. "wrap" \in Inner /\ unexpectedType \in Errors \ {NoErr}
    BY AppErrs DEF Inner, SrvPcs, unexpectedType
  <2> QED
    BY <1>4, <2>1, Passes
<1>3. CASE srv.err = NoErr /\ ReplyLast(SendRaw(q))
  <2>0. ~Left
    BY DEF Left
  <2>1. merge(srv.outTrailer, srv.sink.trailer) \in MDs
    BY <1>1, OverMDs DEF merge
  <2>2. s = [srv EXCEPT !.outTrailer = merge(srv.outTrailer, srv.sink.trailer)]
    BY DEF SetTrailer
  <2>3. /\ s \in SrvStates /\ s.pc = srv.pc /\ s.header = srv.header /\ s.reqs = srv.reqs
        /\ s.ended = srv.ended /\ s.stat = srv.stat /\ s.lost = srv.lost /\ s.resps = srv.resps
        /\ s.sts = srv.sts /\ s.outTrailer = merge(srv.outTrailer, srv.sink.trailer)
        /\ s.headerSent = srv.headerSent /\ s.msgSent = srv.msgSent /\ s.inner = srv.inner
    BY <1>1, <2>1, <2>2 DEF SrvStates
  <2> HIDE DEF s
  <2>4. /\ ~srv.msgSent /\ DOMAIN srv.sink.header = {p[1] : p \in OnSink}
        /\ (\A p \in asked : p[2] # "mw") => ~srv.headerSent /\ DOMAIN cli.header = {}
    BY <2>0 DEF IInv, HeaderInv
  <2>5. /\ Leads(s, q.s) /\ q.h \in Leading
        /\ srv.sink.header = Nil => q.h = NoFrame
        /\ srv.sink.header # Nil /\ ~srv.headerSent => q.h = Frame("HEADER", srv.sink.header, "OK")
    <3>1. CASE srv.sink.header = Nil
      BY SMTT(20), <2>3, <3>1 DEF Quiet, Out, Leads, Leading
    <3>2. CASE srv.sink.header # Nil
      BY SMTT(20), <1>1, <2>3, <2>4, <3>2, SendsHeader
    <3> QED
      BY <3>1, <3>2
  <2> DEFINE r == SendRaw(q)
  <2> HIDE DEF q
  <2>6. /\ r.s \in SrvStates /\ r.h = q.h /\ r.m = Plain("MSG") /\ r.s.msgSent
        /\ r.s.header = s.header /\ r.s.reqs = s.reqs /\ r.s.ended = s.ended
        /\ r.s.stat = s.stat /\ r.s.lost = s.lost /\ r.s.resps = s.resps /\ r.s.sts = s.sts
        /\ r.s.outTrailer = s.outTrailer /\ r.s.inner = s.inner
    BY SMTT(20), <2>3, <2>5, SendsRaw
  <2>7. ~srv.lost => Carries(r.s.outTrailer, DueOnSuccess)
    <3>1. DueOnSuccess = OnTrailer \cup OnSink
      BY DEF DueOnSuccess, OnTrailer, OnSink, OnStream, UnarySink
    <3>2. Carries(srv.sink.trailer, OnSink) /\ (~srv.lost => Carries(srv.outTrailer, OnTrailer))
      BY <2>0 DEF IInv, TrailerInv
    <3> QED
      BY <1>1, <2>3, <2>6, <3>1, <3>2, CarriesOver
  <2>8. (\A p \in asked : p[2] # "mw") =>
          (IF r.h = NoFrame THEN DOMAIN cli.header ELSE DOMAIN r.h.md) = {p[1] : p \in HeaderDue}
    <3> SUFFICES ASSUME \A p \in asked : p[2] # "mw"
                 PROVE  (IF r.h = NoFrame THEN DOMAIN cli.header ELSE DOMAIN r.h.md)
                          = {p[1] : p \in HeaderDue}
      OBVIOUS
    <3>1. OnSink = HeaderDue
      BY SMTT(20) DEF OnSink, HeaderDue
    <3>2. CASE srv.sink.header = Nil
      BY SMTT(20), <2>4, <2>5, <2>6, <3>1, <3>2, NilMD
    <3>3. CASE srv.sink.header # Nil
      <4>1. r.h = Frame("HEADER", srv.sink.header, "OK")
        BY SMTT(20), <2>4, <2>5, <2>6, <3>3
      <4>2. r.h # NoFrame /\ r.h.md = srv.sink.header
        BY <4>1 DEF NoFrame, Plain, Frame
      <4> QED
        BY <2>4, <3>1, <4>2
    <3> QED
      BY <3>2, <3>3
  <2>9. ReplyLast(r)
    BY <1>3 DEF q
  <2> HIDE DEF r
  <2> QED
    BY <2>3, <2>5, <2>6, <2>7, <2>8, <2>9, Replies
<1> QED
  BY <1>2, <1>3, <1>4 DEF FlushUnary

LEMMA InvRegisterUnary == ASSUME IInv, RegisterUnary PROVE IInv'
<1>1. UNCHANGED <<cfg, asked, conn>> /\ UnarySink
  BY DEF RegisterUnary, UnarySink
<1>2. CASE /\ srv.pc = "reg" /\ UNCHANGED cli
           /\ RecvRequest(IF cfg.path = "bridge" THEN bridgeUnary(srv) ELSE Goto("impl"))
  <2>1. CASE RecvRequest(Goto("impl"))
    BY <1>1, <1>2, <2>1, Entering, Enters
  <2>2. CASE RecvRequest(bridgeUnary(srv))
    <3>1. bridgeUnary(srv) \in {EnterImpl(srv), EnterImpl([srv EXCEPT !.sts = TRUE])}
      BY SMTT(20) DEF bridgeUnary
    <3>2. CASE bridgeUnary(srv) = EnterImpl(srv)
      BY <1>1, <1>2, <2>2, <3>2, Entering, Enters
    <3>3. CASE bridgeUnary(srv) = EnterImpl([srv EXCEPT !.sts = TRUE])
      <4>1. PICK pc \in {"icpt", "grpcRecv", "impl"} :
                bridgeUnary(srv) = [srv EXCEPT !.pc = pc, !.sts = TRUE]
        BY <3>3, Entering
      <4> QED
        BY <1>1, <1>2, <2>2, <4>1, Enters
    <3> QED
      BY <3>1, <3>2, <3>3
  <2> QED
    BY SMTT(20), <1>2, <2>1, <2>2
<1>3. CASE srv.pc = "wrap" /\ FlushUnary
  BY <1>1, <1>3, FlushesUnary
<1> QED
  BY <1>2, <1>3 DEF RegisterUnary

LEMMA InvRegistrarUnary == ASSUME IInv, registrarUnary PROVE IInv'
<1>1. UNCHANGED <<cfg, asked, conn>> /\ UnarySink
  BY SMTT(20) DEF registrarUnary, UnarySink
<1>2. CASE srv.pc = "reg" /\ RecvRequest(EnterImpl([srv EXCEPT !.sts = TRUE])) /\ UNCHANGED cli
  <2>1. PICK pc \in {"icpt", "grpcRecv", "impl"} :
            EnterImpl([srv EXCEPT !.sts = TRUE]) = [srv EXCEPT !.pc = pc, !.sts = TRUE]
    BY Entering
  <2> QED
    BY <1>1, <1>2, <2>1, Enters
<1>3. CASE srv.pc = "wrap" /\ FlushUnary
  BY <1>1, <1>3, FlushesUnary
<1> QED
  BY <1>2, <1>3 DEF registrarUnary

LEMMA InvRegisterClientStream == ASSUME IInv, RegisterClientStream PROVE IInv'
<1> DEFINE err == IF cfg.path = "bridge" THEN bridgeClientStream(srv.err) ELSE srv.err
<1>1. UNCHANGED <<cfg, asked, conn>> /\ cfg.kind = "client" /\ ~UnarySink
  BY SMTT(20) DEF RegisterClientStream, UnarySink
<1>2. CASE srv.pc = "reg" /\ srv' = EnterImpl(srv) /\ UNCHANGED cli
  BY <1>1, <1>2, Entering, Enters
<1>3. CASE srv.pc = "wrap" /\ err # NoErr /\ srv' = Return("ret", err) /\ UNCHANGED cli
  <2>1. "wrap" \in Inner
    BY DEF Inner, SrvPcs
  <2>2. err \in Errors
    BY SMTT(20), AppErrs DEF bridgeClientStream, IInv, TypeOK, SrvStates
  <2> QED
    BY <1>1, <1>3, <2>1, <2>2, Passes
<1>4. CASE srv.pc = "wrap" /\ ReplyLast(SendRaw(Quiet(srv)))
  <2> DEFINE q == Quiet(srv)
             r == SendRaw(q)
  <2>1. srv \in SrvStates
    BY DEF IInv, TypeOK
  <2>2. Leads(srv, q.s) /\ q.h \in Leading
    BY SMTT(20), <2>1 DEF Quiet, Out, Leads, Leading
  <2> HIDE DEF q
  <2>3. /\ r.s \in SrvStates /\ r.h = q.h /\ r.m = Plain("MSG") /\ r.s.msgSent
        /\ r.s.header = srv.header /\ r.s.reqs = srv.reqs /\ r.s.ended = srv.ended
        /\ r.s.stat = srv.stat /\ r.s.lost = srv.lost /\ r.s.resps = srv.resps
        /\ r.s.sts = srv.sts /\ r.s.outTrailer = srv.outTrailer /\ r.s.inner = srv.inner
    BY <2>1, <2>2, SendsRaw
  <2>4. DueOnSuccess = OnTrailer
    BY SMTT(20), <1>1 DEF DueOnSuccess, OnTrailer
  <2>5. ~srv.lost => Carries(r.s.outTrailer, DueOnSuccess)
    BY <1>4, <2>3, <2>4 DEF IInv, TrailerInv, Left
  <2>6. ReplyLast(r) /\ srv.pc = "wrap"
    BY <1>4 DEF q
  <2> HIDE DEF r
  <2> QED
    BY <1>1, <2>2, <2>3, <2>5, <2>6, Replies
<1> QED
  BY <1>2, <1>3, <1>4 DEF RegisterClientStream

LEMMA StatusCode ==
  ASSUME NEW err \in Errors
  PROVE  OrOK(FromError(err)) = CodeOf(err)
BY DEF OrOK, FromError, CodeOf, Errors, AppErrors, Err, NoErr

\* serveStream ends the stream with a status st: of the chain that returned, if
\* it reports one (stat), with the trailers; else of an unknown method or a panic.
LEMMA Ends ==
  ASSUME IInv, UNCHANGED <<cfg, asked, conn>>, srv.pc \in {"unknown", "panic", "fin"},
         NEW stat \in Codes \cup {"none"}, NEW st \in Codes, NEW md \in MDs,
         end([srv EXCEPT !.stat = stat], st, md),
         IF stat = "none" THEN st = IF cfg.path = "none" THEN "Unimplemented" ELSE "Internal"
         ELSE /\ st = stat /\ st = CodeOf(srv.err)
              /\ srv.pc = "fin" /\ md = srv.outTrailer
  PROVE  IInv'
<1>1. /\ srv \in SrvStates /\ cli \in CliStates /\ srv.stat = "none" /\ cli.endFrame = NoFrame
      /\ cli.sends \in Nat
  BY DEF IInv, TypeOK, EndInv, CliStates
<1> DEFINE f == Frame("END", md, st)
<1>2. statusToProto(st) = st
  BY DEF statusToProto, Codes
<1>3. /\ srv' = [[srv EXCEPT !.stat = stat] EXCEPT
                    !.pc = "done", !.ctx = TRUE, !.ended = TRUE, !.reqs = 0,
                    !.halfClosed = FALSE, !.resps = 0,
                    !.outTrailer = Nil, !.pending = NoMD, !.captured = FALSE,
                    !.sink = [header |-> Nil, trailer |-> Nil]]
      /\ cli' \in {cli, clientRoute(cli, f)}
  BY <1>2 DEF end
<1>4. /\ srv' \in SrvStates /\ srv'.pc = "done" /\ srv'.ended /\ srv'.reqs = 0
      /\ srv'.stat = stat /\ srv'.err = srv.err /\ srv'.lost = srv.lost /\ srv'.sts = srv.sts
      /\ srv'.header = srv.header /\ srv'.resps = 0 /\ srv'.msgSent = srv.msgSent
      /\ srv'.inner = srv.inner
  <2> DEFINE t == [srv EXCEPT !.stat = stat]
  <2>1. /\ t \in SrvStates /\ t.stat = stat /\ t.err = srv.err /\ t.lost = srv.lost
        /\ t.sts = srv.sts /\ t.header = srv.header /\ t.inner = srv.inner
        /\ t.msgSent = srv.msgSent
    BY <1>1 DEF SrvStates
  <2>2. /\ Nil \in MDs /\ NoMD \in [Keys -> Values] /\ 0 \in 0..(MaxReqs + 1)
        /\ [header |-> Nil, trailer |-> Nil] \in [header: MDs, trailer: MDs]
    BY NilMD, NoMDType
  <2>3. srv' = [t EXCEPT !.pc = "done", !.ctx = TRUE, !.ended = TRUE, !.reqs = 0,
                         !.halfClosed = FALSE, !.resps = 0,
                         !.outTrailer = Nil, !.pending = NoMD, !.captured = FALSE,
                         !.sink = [header |-> Nil, trailer |-> Nil]]
    BY <1>3
  <2> HIDE DEF t
  <2>4. srv' \in SrvStates
    BY <2>1, <2>2, <2>3 DEF SrvStates, SrvPcs
  <2> QED
    BY <2>1, <2>3, <2>4 DEF SrvStates
<1>5. /\ cli' \in CliStates /\ cli'.pc = cli.pc /\ cli'.sends = cli.sends /\ cli'.got = cli.got
      /\ cli'.buf = cli.buf /\ cli'.header = cli.header /\ cli'.trailer = cli.trailer
      /\ cli'.failed = cli.failed /\ cli'.res = cli.res
      /\ cli'.endFrame = NoFrame \/ (cli'.endFrame.st = st /\ cli'.endFrame.md = md)
  <2>1. f \in [kind: {"NONE", "END"}, md: MDs, st: Codes] /\ f.st = st /\ f.md = md
    BY DEF Frame
  <2>2. cli' \in {cli, [cli EXCEPT !.endFrame = f]}
    BY <1>1, <1>3 DEF clientRoute, Frame
  <2> HIDE DEF f
  <2> QED
    BY <1>1, <2>1, <2>2 DEF CliStates
<1>0. NextErr' = NextErr /\ Left' /\ (srv.pc # "unknown" => Left)
  BY <1>4 DEF NextErr, Left
<1>6. TypeOK'
  <2>1. RespBound \in Nat
    BY DEF RespBound
  <2> QED
    BY <1>4, <1>5, <2>1 DEF IInv, TypeOK, RespBound
<1>7. OpenInv'
  <2>1. Sent(cli)' >= 0
    BY <1>1, <1>5 DEF Sent
  <2>2. srv.pc # "none" /\ cli.pc # "new"
    BY DEF IInv, OpenInv
  <2> QED
    BY <1>4, <1>5, <2>1, <2>2 DEF IInv, OpenInv
<1>8. StatusDue' = st
  BY <1>4 DEF StatusDue
<1>9. EndInv'
  <2>1. ~(cli.res.by = "END") /\ (cli.failed => ~conn)
    BY <1>1 DEF IInv, EndInv
  <2> QED
    BY <1>4, <1>5, <1>8, <2>1 DEF EndInv
<1>10. UnarySink' = UnarySink /\ ReplyOnce' = ReplyOnce
  BY DEF UnarySink, ReplyOnce
<1>11. ReplyInv'
  BY <1>0, <1>4, <1>5, <1>10 DEF IInv, ReplyInv
<1>12. TrailerDue' = TrailerDue /\ HeaderDue' = HeaderDue
  BY <1>0, <1>4 DEF TrailerDue, HeaderDue, OnStream
<1>13. TrailerInv'
  BY <1>0, <1>4, <1>5, <1>12 DEF IInv, TrailerInv
<1>14. HeaderInv'
  BY <1>0, <1>4, <1>5, <1>10, <1>12 DEF IInv, HeaderInv
<1> QED
  BY <1>6, <1>7, <1>9, <1>11, <1>13, <1>14 DEF IInv

LEMMA InvServeStreamEnd == ASSUME IInv, serveStreamEnd PROVE IInv'
<1>1. /\ UNCHANGED <<cfg, asked, conn>> /\ srv \in SrvStates /\ srv.err \in Errors
      /\ srv.outTrailer \in MDs
  BY DEF serveStreamEnd, IInv, TypeOK, SrvStates
<1>2. srv.pc \in {"unknown", "panic"} => srv = [srv EXCEPT !.stat = "none"]
  <2>1. srv.pc \in {"unknown", "panic"} => srv.stat = "none"
    BY DEF IInv, EndInv
  <2> QED
    BY <1>1, <2>1 DEF SrvStates
<1>3. CASE srv.pc = "unknown" /\ end(srv, "Unimplemented", Nil)
  <2>1. end([srv EXCEPT !.stat = "none"], "Unimplemented", Nil) /\ cfg.path = "none"
    BY <1>2, <1>3 DEF IInv, EndInv
  <2> QED
    BY <1>1, <1>3, <2>1, NilMD, Ends DEF Codes
<1>4. CASE srv.pc = "panic" /\ end(srv, "Internal", Nil)
  <2>1. end([srv EXCEPT !.stat = "none"], "Internal", Nil) /\ cfg.path # "none"
    BY <1>2, <1>4 DEF IInv, EndInv
  <2> QED
    BY <1>1, <1>4, <2>1, NilMD, Ends DEF Codes
<1>5. CASE srv.pc = "fin" /\ LET st == OrOK(FromError(srv.err))
                             IN  end([srv EXCEPT !.stat = st], st, srv.outTrailer)
  <2> DEFINE st == CodeOf(srv.err)
  <2>1. end([srv EXCEPT !.stat = st], st, srv.outTrailer)
    BY <1>1, <1>5, StatusCode
  <2>2. st \in Codes
    BY <1>1, SuccessCode
  <2>3. st # "none"
    BY <2>2 DEF Codes
  <2> QED
    BY <1>1, <1>5, <2>1, <2>2, <2>3, Ends
<1> QED
  BY <1>3, <1>4, <1>5 DEF serveStreamEnd

-----------------------------------------------------------------------------
(* The theorems.                                                           *)

LEMMA InvNext == IInv /\ [Next]_vars => IInv'
<1> SUFFICES ASSUME IInv, [Next]_vars PROVE IInv'
  OBVIOUS
<1>1. CASE Client
  BY <1>1, InvInvokeUnary, InvOpenStreamingClient, InvServerStreamStub, InvClientRecv,
     InvCloseAndRecv DEF Client
<1>2. CASE ClientSend \/ CloseSend \/ clientLost
  BY <1>2, InvClientSend, InvCloseSend, InvClientLost
<1>3. CASE Lookup \/ serveStreamEnd \/ serverLost \/ serverDeadline
  BY <1>3, InvLookup, InvServeStreamEnd, InvServerLost, InvServerDeadline
<1>4. CASE Registered
  BY <1>4, InvRegisterUnary, InvRegisterServerStream, InvRegisterClientStream, InvRegisterBidi,
     InvRegistrarUnary, InvRegistrarStream, InvGrpcServerStreamHandler, InvRawHandler
     DEF Registered
<1>5. CASE \E p \in Sets : AppMetadata(p[1], p[2])
  <2>1. PICK p \in Sets : AppMetadata(p[1], p[2])
    BY <1>5
  <2>2. p[1] \in Setters /\ p[2] \in Keys
    BY CallAssumption DEF Setters, Keys
  <2> QED
    BY <2>1, <2>2, InvAppMetadata
<1>6. CASE Middleware \/ ServerInterceptor \/ ImplSend \/ ImplRecv \/ ImplReturn \/ AppPanic
  BY <1>6, InvMiddleware, InvServerInterceptor, InvImplSend, InvImplRecv, InvImplReturn,
     InvAppPanic
<1>7. CASE \E how \in {"Canceled", "DeadlineExceeded"} : CtxEnds(how)
  BY <1>7, InvCtxEnds
<1>8. CASE ConnDrop
  BY <1>8, InvConnDrop
<1>9. CASE UNCHANGED vars
  <2>1. UNCHANGED <<cfg, cli, srv, asked, conn>>
    BY <1>9 DEF vars
  <2>2. OnTrailer' = OnTrailer /\ OnSink' = OnSink /\ TrailerDue' = TrailerDue /\ Left' = Left
        /\ HeaderDue' = HeaderDue /\ UnarySink' = UnarySink /\ NextErr' = NextErr
    BY <2>1 DEF OnTrailer, OnSink, TrailerDue, HeaderDue, OnStream, UnarySink, NextErr, Left
  <2>3. TypeOK' /\ OpenInv' /\ EndInv' /\ ReplyInv'
    BY SMTT(20), <2>1 DEF IInv, TypeOK, RespBound, OpenInv, Sent, EndInv, StatusDue, ReplyInv, ReplyOnce,
                UnarySink, NextErr
  <2>4. TrailerInv' /\ HeaderInv'
    BY <2>1, <2>2 DEF IInv, TrailerInv, HeaderInv
  <2> QED
    BY <2>3, <2>4 DEF IInv
<1> QED
  BY <1>1, <1>2, <1>3, <1>4, <1>5, <1>6, <1>7, <1>8, <1>9 DEF Next, App

\* The inductive invariant: what the frames, the Stream, the sink of a unary
\* call and the client's state say of each other after every step of Call.
THEOREM Invariance == Spec => []IInv
BY InitInv, InvNext, PTL DEF Spec

\* Every state is well formed, with as many requests, responses and settings as
\* the instance allows: a status on the wire is a code, never nil.
THEOREM TypeCorrect == Spec => []TypeOK
<1>1. IInv => TypeOK
  BY DEF IInv
<1> QED
  BY <1>1, Invariance, PTL

\* A client that learns the end of its call from END learns the code of what the
\* handler chain returned, and the one StreamEnded reported; a typed unary call
\* succeeds only when its handler and the middleware did and serveStream has finished.
THEOREM StatusIsFaithful == Spec => []StatusFaithful
<1>1. IInv => StatusFaithful
  <2> SUFFICES ASSUME IInv PROVE StatusFaithful
    OBVIOUS
  <2>1. cli.res.by = "END" => srv.pc = "done" /\ cli.res.code = StatusDue
    BY DEF IInv, EndInv
  <2>2. cli.res.by = "END" /\ srv.stat # "none" => srv.stat = cli.res.code
    BY <2>1 DEF IInv, EndInv, StatusDue
  <2>3. cli.res.ok /\ UnarySink => srv.pc = "done" /\ NextErr = NoErr /\ srv.err = NoErr
    BY DEF IInv, ReplyInv
  <2> QED
    BY <2>1, <2>2, <2>3 DEF StatusFaithful, UnarySink
<1> QED
  BY <1>1, Invariance, PTL

\* The trailers due, those middleware sets after the handler too, reach the client
\* on END, which carries nothing that was not set; a unary call that succeeds has
\* the headers of its sink; the handler sees the last call option
\* of a key, and the interceptor's header over both.
THEOREM MetadataDoesArrive == Spec => []MetadataArrives
<1>1. IInv => MetadataArrives
  <2> SUFFICES ASSUME IInv PROVE MetadataArrives
    OBVIOUS
  <2>1. cli.res.by = "END" => /\ cli.endFrame # NoFrame /\ cli.trailer = cli.endFrame.md
                              /\ srv.pc = "done" /\ cli.res.code = StatusDue
                              /\ cli.res.ok => cli.res.code = "OK"
    BY DEF IInv, EndInv
  <2>2. cli.res.by = "END" /\ srv.stat # "none" /\ ~srv.lost => Shows(cli.trailer, TrailerDue)
    <3> SUFFICES ASSUME cli.res.by = "END", srv.stat # "none", ~srv.lost
                 PROVE  Shows(cli.trailer, TrailerDue)
      OBVIOUS
    <3>1. Carries(cli.trailer, TrailerDue)
      BY <2>1 DEF IInv, TrailerInv
    <3>2. TrailerDue \subseteq asked
      BY DEF TrailerDue
    <3> QED
      BY <3>1, <3>2 DEF Carries, Shows
  <2>3. cli.res.by = "END" /\ cli.res.ok /\ UnarySink => NextErr = NoErr
    BY DEF IInv, ReplyInv
  <2>4. cli.res.by = "END" /\ cli.res.ok /\ UnarySink /\ ~srv.lost
        /\ (\A p \in asked : p[2] # "mw") => DOMAIN cli.header = {p[1] : p \in HeaderDue}
    BY <2>3 DEF IInv, HeaderInv
  <2>5. srv.pc # "none" => srv.header["a"] = <<"opt2">> /\ srv.header["b"] = <<"auth">>
    BY DEF IInv, OpenInv
  <2> QED
    BY <2>2, <2>4, <2>5 DEF MetadataArrives, UnarySink
<1> QED
  BY <1>1, Invariance, PTL

\* The typed handlers that reply once never show a response and then return an
\* error: it is sent when what they call has returned without one.
THEOREM ResponseIsSuccess == Spec => []ResponseMeansSuccess
<1>1. IInv => ResponseMeansSuccess
  BY DEF IInv, ReplyInv, ResponseMeansSuccess, ReplyOnce
<1> QED
  BY <1>1, Invariance, PTL

-----------------------------------------------------------------------------
(* No HEADER after a message.                                              *)

\* Without a HEADER frame the client's headers stay.
LEMMA EmitKeepsHeader ==
  ASSUME TypeOK, NEW s, NEW m \in Messages, Emit(s, NoFrame, m)
  PROVE  cli'.header = cli.header
<1>1. PICK mm \in {m, NoFrame} : cli' = clientRoute(clientRoute(cli, NoFrame), mm)
  BY DEF Emit
<1>2. NoFrame \in Leading /\ mm \in Messages /\ cli \in CliStates
  BY DEF Leading, Messages, TypeOK
<1>3. clientRoute(cli, NoFrame) \in CliStates /\ clientRoute(cli, NoFrame).header = cli.header
  BY <1>2, RouteLeading DEF Calm
<1> QED
  BY <1>1, <1>2, <1>3, RouteMessage

LEMMA ClientKeepsHeader ==
  ASSUME TypeOK, Client \/ ClientSend \/ CloseSend
  PROVE  cli'.header = cli.header
<1>1. cli \in CliStates
  BY DEF TypeOK
<1>2. \A pc : At(pc).header = cli.header
  BY <1>1 DEF At, CliStates
<1>3. /\ Done(cli, "write", "OK", FALSE).header = cli.header
      /\ Done(cli, "interceptor", "App", FALSE).header = cli.header
      /\ Done(cli, "conn", "Unavailable", FALSE).header = cli.header
      /\ Done(cli, "ctx", cli.ctx, FALSE).header = cli.header
      /\ Done(cli, "MSG", "OK", TRUE).header = cli.header
  BY <1>1 DEF Done, CliStates
<1>4. ASSUME NEW pc, chainStreaming(At(pc)) PROVE cli'.header = cli.header
  <2>1. \/ cli' = At(pc)
        \/ cli' = Done(cli, "write", "OK", FALSE)
        \/ cli' = Done(cli, "interceptor", "App", FALSE)
    BY <1>4 DEF chainStreaming, newClientStream, ClientWrite, WriteError
  <2> QED
    BY <1>2, <1>3, <2>1
<1>5. ASSUME NEW f, NEW pc, ClientWrite(f, At(pc), WriteError) PROVE cli'.header = cli.header
  <2>1. cli' = At(pc) \/ cli' = Done(cli, "write", "OK", FALSE)
    BY <1>5 DEF ClientWrite, WriteError
  <2> QED
    BY <1>2, <1>3, <2>1
<1>6. ASSUME NEW next, DOMAIN next = DOMAIN cli, next.header = cli.header, RecvMsg(next)
      PROVE  cli'.header = cli.header
  BY <1>1, <1>6 DEF RecvMsg, CliStates
<1>7. ASSUME NEW eofOK \in BOOLEAN, RecvEnd(eofOK) PROVE cli'.header = cli.header
  <2> DEFINE d == Done(applyEnd(cli), "END", cli.endFrame.st, eofOK /\ cli.endFrame.st = "OK")
  <2>1. d.header = cli.header
    BY <1>1 DEF Done, applyEnd, CliStates
  <2>2. \/ cli' = d
        \/ cli' = Done(cli, "conn", "Unavailable", FALSE)
        \/ cli' = Done(cli, "ctx", cli.ctx, FALSE)
    BY <1>7 DEF RecvEnd, recvEnded
  <2> HIDE DEF d
  <2> QED
    BY <1>3, <2>1, <2>2
<1>8. \A pc : DOMAIN At(pc) = DOMAIN cli
  BY DEF At
<1>9. DOMAIN Done(cli, "MSG", "OK", TRUE) = DOMAIN cli
  BY DEF Done
<1>10. CASE InvokeUnary
  BY <1>2, <1>3, <1>4, <1>5, <1>6, <1>7, <1>8, <1>9, <1>10 DEF InvokeUnary, Drain
<1>11. CASE OpenStreamingClient \/ ServerStreamStub
  BY <1>4, <1>5, <1>11 DEF OpenStreamingClient, ServerStreamStub
<1>12. CASE ClientRecv \/ CloseAndRecv
  BY <1>2, <1>3, <1>5, <1>6, <1>7, <1>9, <1>12 DEF ClientRecv, CloseAndRecv
<1>13. CASE ClientSend \/ CloseSend
  BY <1>1, <1>13 DEF ClientSend, CloseSend, ClientWrite, CliStates
<1> QED
  BY <1>10, <1>11, <1>12, <1>13 DEF Client

LEMMA HeaderStep == IInv /\ cli.got > 0 /\ [Next]_vars => cli'.header = cli.header
<1> SUFFICES ASSUME IInv, cli.got > 0, [Next]_vars PROVE cli'.header = cli.header
  OBVIOUS
<1>1. TypeOK /\ cli \in CliStates /\ cli.buf \in Nat /\ cli.got \in Nat
  BY DEF IInv, TypeOK, CliStates
<1>2. srv.msgSent /\ (ReplyOnce => Left)
  <2>1. cli.buf + cli.got > 0
    BY <1>1
  <2> QED
    BY <2>1, NotReturned DEF IInv, ReplyInv
<1>3. srv \in SrvStates
  BY <1>1 DEF TypeOK
<1>4. NoFrame \in Messages /\ Plain("MSG") \in Messages
  BY DEF Messages
<1>5. CASE Client \/ ClientSend \/ CloseSend
  BY <1>1, <1>5, ClientKeepsHeader
<1>6. CASE clientLost \/ (\E how \in {"Canceled", "DeadlineExceeded"} : CtxEnds(how))
  BY <1>1, <1>6 DEF clientLost, CtxEnds, CliStates
<1>7. CASE UNCHANGED cli
  BY <1>7
<1>8. CASE \E p \in Sets : AppMetadata(p[1], p[2])
  <2>1. PICK p \in Sets : AppMetadata(p[1], p[2])
    BY <1>8
  <2> DEFINE who == p[1]
             md == MD(p[2], who)
  <2>2. who \in Setters /\ p[2] \in Keys
    BY CallAssumption DEF Setters, Keys
  <2>3. md \in [Keys -> Values]
    BY <2>2, OneSetter
  <2>4. PICK r \in HeaderOps(who, md) : Emit(TrailerOp(r.s, who, md), r.h, r.m)
    BY <2>1 DEF AppMetadata
  <2> HIDE DEF md, who
  <2>5. r.h = NoFrame /\ r.m = NoFrame
    <3>1. CASE OnStream(who) \/ cfg.kind # "unary"
      BY <1>1, <1>2, <2>3, <2>4, <3>1, HeaderOpsLead
    <3>2. CASE ~(OnStream(who) \/ cfg.kind # "unary")
      BY <2>4, <3>2 DEF HeaderOps, Quiet, Out
    <3> QED
      BY <3>1, <3>2
  <2>6. Emit(TrailerOp(r.s, who, md), NoFrame, NoFrame)
    BY <2>4, <2>5
  <2> QED
    BY <1>1, <1>4, <2>6, EmitKeepsHeader
<1>9. CASE ImplSend
  <2> DEFINE s == [srv EXCEPT !.resps = @ + 1]
             r == CASE cfg.path \in {"raw", "native"} -> SendRaw(Quiet(s))
                    [] cfg.path = "bridge" -> bridgeSendMsg(s)
                    [] cfg.path = "registrar" -> grpcSendMsg(s)
  <2>1. Emit(r.s, r.h, r.m) /\ cfg.path \in Paths \ {"none"}
    BY <1>1, <1>9 DEF ImplSend, TypeOK, IInv, EndInv
  <2>2. s \in SrvStates /\ s.msgSent
    <3>1. srv.resps + 1 \in Nat
      BY <1>3 DEF SrvStates
    <3>2. PICK n \in Nat : n = srv.resps + 1
      BY <3>1
    <3>3. s = [srv EXCEPT !.resps = n]
      BY <3>2
    <3> QED
      BY <1>2, <1>3, <3>3 DEF SrvStates
  <2> HIDE DEF s
  <2>3. FlushPending(s).h = NoFrame
    BY <2>2, Flushes
  <2>4. r \in {SendRaw(Quiet(s)), SendRaw(FlushPending(s)), Quiet([s EXCEPT !.captured = TRUE])}
    BY <2>1 DEF bridgeSendMsg, grpcSendMsg, Paths
  <2> HIDE DEF r
  <2>5. r.h = NoFrame /\ r.m \in Messages
    BY <1>4, <2>3, <2>4 DEF SendRaw, Quiet, Out
  <2>6. Emit(r.s, NoFrame, r.m)
    BY <2>1, <2>5
  <2> QED
    BY <1>1, <2>5, <2>6, EmitKeepsHeader
<1>10. CASE RegisterUnary \/ registrarUnary
  <2>1. ReplyOnce
    BY <1>10 DEF ReplyOnce, RegisterUnary, registrarUnary
  <2>2. srv.pc # "wrap"
    BY <1>2, <2>1 DEF Left
  <2> QED
    BY <1>10, <2>2 DEF RegisterUnary, registrarUnary
<1>11. CASE RegisterClientStream
  <2>1. CASE UNCHANGED cli
    BY <2>1
  <2>2. CASE ReplyLast(SendRaw(Quiet(srv)))
    <3> DEFINE r == SendRaw(Quiet(srv))
    <3>1. r.h = NoFrame /\ r.m = Plain("MSG")
      BY DEF SendRaw, Quiet, Out
    <3>2. CASE Emit([r.s EXCEPT !.pc = "ret", !.err = NoErr], r.h, r.m)
      BY <1>1, <1>4, <3>1, <3>2, EmitKeepsHeader
    <3>3. CASE Emit([r.s EXCEPT !.pc = "ret", !.err = Err("other", "Unknown"), !.lost = TRUE],
                    r.h, NoFrame)
      BY <1>1, <1>4, <3>1, <3>3, EmitKeepsHeader
    <3> QED
      BY <2>2, <3>2, <3>3 DEF ReplyLast
  <2> QED
    BY <1>11, <2>1, <2>2 DEF RegisterClientStream
<1>12. CASE serveStreamEnd
  <2>1. PICK md, st : cli' \in {cli, clientRoute(cli, Frame("END", md, st))}
    BY <1>12 DEF serveStreamEnd, end
  <2> QED
    BY <1>1, <2>1 DEF clientRoute, Frame, CliStates
<1>13. CASE \/ Lookup \/ serverLost \/ serverDeadline \/ ConnDrop
            \/ Middleware \/ ServerInterceptor \/ ImplRecv \/ ImplReturn \/ AppPanic
            \/ RegisterServerStream \/ RegisterBidi \/ registrarStream
            \/ grpcServerStreamHandler \/ rawHandler \/ UNCHANGED vars
  BY <1>7, <1>13 DEF Lookup, serverLost, serverDeadline, ConnDrop, Middleware, ServerInterceptor,
     ImplRecv, ImplReturn, AppPanic, RegisterServerStream, RegisterBidi, registrarStream,
     grpcServerStreamHandler, rawHandler, vars
<1> QED
  BY <1>5, <1>6, <1>8, <1>9, <1>10, <1>11, <1>12, <1>13 DEF Next, App, Registered

\* Once the application has a response, no HEADER frame changes the leading
\* headers it may read: SendHeader refuses once a message was sent.
THEOREM HeadersAreStable == Spec => HeaderStable
<1>1. IInv /\ [Next]_vars => [cli.got > 0 => cli'.header = cli.header]_vars
  BY HeaderStep
<1> QED
  BY <1>1, Invariance, PTL DEF Spec, HeaderStable

=============================================================================
