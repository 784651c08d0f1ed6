-------------------------------- MODULE Call --------------------------------
(***************************************************************************)
(* One typed call, of each of the four kinds, from the generated client    *)
(* stub to the handler and back: the client's interceptors and stubs       *)
(* (wsrpc/dispatch.go, echo_ws.pb.go), serveStream with its middleware,    *)
(* and the four ways a handler is reached: a raw Handler on the Stream, a  *)
(* native generated registrar, a gRPC server behind the generated bridge,  *)
(* and a gRPC server behind GRPCRegistrar.                                 *)
(*                                                                         *)
(* The subject is what the layers above Stream do with the status, the     *)
(* response and the metadata.  Flow control and queueing are the subject   *)
(* of module Stream: here a MSG is a unit, and a frame is routed in the    *)
(* step that writes it, unless it is lost.  Metadata is a map over two     *)
(* keys whose values name who set them, so that a value that is lost or    *)
(* overwritten is seen.                                                    *)
(*                                                                         *)
(* What application code does (middleware, interceptor, handler) is a free *)
(* choice of the operations its API offers; what it returns is a choice    *)
(* of Errors.                                                              *)
(***************************************************************************)
EXTENDS Integers, Sequences

CONSTANTS
    MaxReqs,    \* requests a client-streaming or bidi client may send
    MaxResps,   \* responses a server-streaming or bidi handler may send
    Sets,       \* the metadata application code may set: pairs <<who, key>>
    Faults      \* what may befall the call: see cfg

ASSUME CallAssumption ==
    /\ {MaxReqs, MaxResps} \subseteq Nat
    /\ Sets \subseteq {"mw", "icpt", "impl"} \X {"a", "b"}
    /\ Faults \subseteq {"none", "cancel", "ms", "subms", "loss"}

Kinds == {"unary", "server", "client", "bidi"}
Paths == {"none", "raw", "native", "bridge", "registrar"}
Codes == {"OK", "App", "Unknown", "Internal", "Unimplemented", "Unavailable",
          "Canceled", "DeadlineExceeded"}
Keys == {"a", "b"}
Setters == {"mw", "icpt", "impl"}

\* The errors application code returns: nil, a *Status, a gRPC status error, and
\* any other error (a context error too); and those of the layers around it.
Err(kind, code) == [kind |-> kind, code |-> code]
NoErr == Err("nil", "OK")
NotYet == Err("none", "OK")
AppErrors == {Err("Status", "App"), Err("grpc", "App"), Err("other", "Unknown")}
Errors == AppErrors \cup {NoErr, Err("Status", "Unavailable"), Err("Status", "Internal")}

VARIABLES
    cfg,    \* the call: kind, path, icpt (a gRPC server interceptor), and its one
            \* fault: cancelled, a deadline of milliseconds or less, connection lost
    cli,    \* the client's call and its Stream
    srv,    \* serveStream's goroutine and its Stream
    asked,  \* history: the metadata application code set, and whether too late for headers
    conn    \* the connection is up

vars == <<cfg, cli, srv, asked, conn>>

-----------------------------------------------------------------------------
(* Metadata.  A gRPC metadata.MD lists the values of every key; the map a  *)
(* frame carries has one string per key, the values joined.                *)

timeoutHeader == "ws-timeout-ms"
Nil == [k \in {} |-> <<>>]
NoMD == [k \in Keys |-> <<>>]
Over(md, old) == [k \in DOMAIN md \cup DOMAIN old |-> IF k \in DOMAIN md THEN md[k] ELSE old[k]]
MD(k, who) == [NoMD EXCEPT ![k] = <<who>>]
Join(md, more) == [k \in Keys |-> md[k] \o more[k]]

FlattenMD(md) == [k \in {x \in Keys : md[x] # <<>>} |-> md[k]]

\* Mutant: a second call replaces the map.
mergeReplace(old, md) == md

\* The loops over md in SetTrailer and mdSink: later keys win.
merge(old, md) == Over(md, old)

-----------------------------------------------------------------------------
(* Status.                                                                 *)

FromError(err) ==
    CASE err.kind = "nil" -> "nil"
      [] err.kind \in {"Status", "grpc"} -> err.code
      [] OTHER -> "Unknown"

\* Mutant: no default for nil.
OrOKNot(st) == st

\* serveStream: no error is the status OK.
OrOK(st) == IF st = "nil" THEN "OK" ELSE st

statusToProto(st) == IF st = "nil" THEN "OK" ELSE st

Frame(kind, md, st) == [kind |-> kind, md |-> md, st |-> st]
Plain(kind) == Frame(kind, Nil, "OK")
NoFrame == Plain("NONE")

-----------------------------------------------------------------------------
(* The request: two call options on one key, then the client interceptor.  *)

CallOpts == <<[a |-> <<"opt1">>], [a |-> <<"opt2">>, b |-> <<"opt2">>]>>

WithCallHeaders(headers, h) == Over(h, headers)

\* The loop over the options.
CallHeaders(opts) == WithCallHeaders(WithCallHeaders(Nil, opts[1]), opts[2])

\* The client interceptor adds its own key to the header before it calls next.
InterceptorHeader(h) == WithCallHeaders(h, [b |-> <<"auth">>])

Init ==
    /\ cfg \in {c \in [kind: Kinds, path: Paths, icpt: BOOLEAN,
                       fault: Faults] :
                  c.icpt => c.path \in {"bridge", "registrar"}}
    /\ cli = [pc |-> "new", sends |-> 0, sendDone |-> FALSE, buf |-> 0, got |-> 0,
              header |-> Nil, trailer |-> Nil, endFrame |-> NoFrame, failed |-> FALSE,
              ctx |-> "live", res |-> [by |-> "none", code |-> "OK", ok |-> FALSE]]
    /\ srv = [pc |-> "none", header |-> Nil, timeout |-> FALSE, reqs |-> 0,
              halfClosed |-> FALSE, ended |-> FALSE, ctx |-> FALSE,
              headerSent |-> FALSE, msgSent |-> FALSE, outTrailer |-> Nil,
              sink |-> [header |-> Nil, trailer |-> Nil], sts |-> FALSE,
              pending |-> NoMD, captured |-> FALSE, resps |-> 0, err |-> NoErr,
              inner |-> NotYet, stat |-> "none", lost |-> FALSE]
    /\ asked = {}
    /\ conn = TRUE

-----------------------------------------------------------------------------
(* Frames.  A write is routed, or fails once its context has ended; on a   *)
(* connection that is gone it fails or vanishes.                           *)

WriteFails(done) == done \/ ~conn

\* The read loop of the client routes a frame of the server; a stream that has
\* its terminal frame has left the map, one whose context ended drops MSGs.
clientRoute(c, f) ==
    IF c.failed \/ c.endFrame # NoFrame THEN c
    ELSE CASE f.kind = "HEADER" -> [c EXCEPT !.header = f.md]
           [] f.kind = "MSG" /\ c.ctx = "live" -> [c EXCEPT !.buf = @ + 1]
           [] f.kind = "END" -> [c EXCEPT !.endFrame = f]
           [] OTHER -> c

\* The read loop of the server routes a frame of the client; a stream that has
\* ended takes no more.  OPEN gives it its header and its deadline.
serverRoute(s, f) ==
    IF s.ended THEN s
    ELSE CASE f.kind = "OPEN" -> [s EXCEPT !.pc = "lookup", !.header = f.md,
                                           !.timeout = timeoutHeader \in DOMAIN f.md]
           [] f.kind = "MSG" /\ ~s.ctx -> [s EXCEPT !.reqs = @ + 1]
           [] f.kind = "HALF_CLOSE" -> [s EXCEPT !.halfClosed = TRUE]
           [] OTHER -> s

\* The server's writes with the stream context: leading headers h, then a
\* message m, where there are any; lost notes that one did not arrive.
Emit(s, h, m) ==
    \E hh \in {h, NoFrame}, mm \in {m, NoFrame} :
        /\ <<hh, mm>> # <<h, m>> => WriteFails(srv.ctx)
        /\ ~conn => hh = NoFrame /\ mm = NoFrame
        /\ cli' = clientRoute(clientRoute(cli, hh), mm)
        /\ srv' = [s EXCEPT !.lost = @ \/ <<hh, mm>> # <<h, m>>]

-----------------------------------------------------------------------------
(* Response metadata and messages on the Stream of the server.  Operators  *)
(* take the server's state s and give its next state and the frames they   *)
(* write, at most a HEADER and then at most a MSG.                         *)

Out(s, h, m) == [s |-> s, h |-> h, m |-> m]
Quiet(s) == Out(s, NoFrame, NoFrame)

\* Mutant: headers may follow a message.
SendHeaderLate(s, md) ==
    IF s.headerSent THEN Quiet(s)
    ELSE Out([s EXCEPT !.headerSent = TRUE], Frame("HEADER", md, "OK"), NoFrame)

\* FailedPrecondition once headers or a message were sent.
SendHeader(s, md) ==
    IF s.headerSent \/ s.msgSent THEN Quiet(s)
    ELSE Out([s EXCEPT !.headerSent = TRUE], Frame("HEADER", md, "OK"), NoFrame)

SetTrailer(s, md) == [s EXCEPT !.outTrailer = merge(@, md)]

\* A message, after what r wrote.
SendRaw(r) == Out([r.s EXCEPT !.msgSent = TRUE], r.h, Plain("MSG"))

\* The buffered leading headers, best-effort, before a message.
FlushPending(s) ==
    IF s.pending = NoMD THEN Quiet(s)
    ELSE SendHeader([s EXCEPT !.pending = NoMD], FlattenMD(s.pending))

\* Mutant: the response of a client-streaming call is sent at once.
bridgeSendMsgNow(s) == SendRaw(FlushPending(s))

\* SendMsg of the generated shim; capturing is set for client streaming.
bridgeSendMsg(s) ==
    IF cfg.kind = "client" THEN Quiet([s EXCEPT !.captured = TRUE])
    ELSE SendRaw(FlushPending(s))

grpcSendMsg(s) == SendRaw(FlushPending(s))

bridgeSetHeader(s, md) == [s EXCEPT !.pending = Join(@, md)]

bridgeSendHeader(s, md) ==
    LET q == bridgeSetHeader(s, md)
    IN  SendHeader([q EXCEPT !.pending = NoMD], FlattenMD(q.pending))

grpcSetHeader(s, md) == [s EXCEPT !.pending = Join(@, md)]

grpcSendHeader(s, md) ==
    SendHeader([s EXCEPT !.pending = NoMD], FlattenMD(Join(s.pending, md)))

\* The metadata sink of a unary call: wsrpc.SetHeader and SetTrailer, and the
\* ServerTransportStream that forwards to them, where one is installed (sts).
sinkSetHeader(s, md) == [s EXCEPT !.sink.header = merge(@, md)]

sinkSetTrailer(s, md) == [s EXCEPT !.sink.trailer = merge(@, md)]

stsSetHeader(s, md) == IF s.sts THEN sinkSetHeader(s, FlattenMD(md)) ELSE s

stsSetTrailer(s, md) == IF s.sts THEN sinkSetTrailer(s, FlattenMD(md)) ELSE s

\* What SetHeader, SendHeader and SetTrailer do for middleware and raw handlers
\* (who work on the Stream), and on each path and kind.
OnStream(who) == who = "mw" \/ cfg.path = "raw"

HeaderOps(who, md) ==
    CASE OnStream(who) -> {SendHeader(srv, FlattenMD(md))}
      [] ~OnStream(who) /\ cfg.kind = "unary" ->
            {Quiet(IF cfg.path = "native" THEN sinkSetHeader(srv, FlattenMD(md))
                   ELSE stsSetHeader(srv, md))}
      [] ~OnStream(who) /\ cfg.kind # "unary" /\ cfg.path = "bridge" ->
            {Quiet(bridgeSetHeader(srv, md)), bridgeSendHeader(srv, md)}
      [] ~OnStream(who) /\ cfg.kind # "unary" /\ cfg.path = "registrar" ->
            {Quiet(grpcSetHeader(srv, md)), grpcSendHeader(srv, md)}
      [] OTHER -> {}

TrailerOp(s, who, md) ==
    IF OnStream(who) \/ cfg.kind # "unary" THEN SetTrailer(s, FlattenMD(md))
    ELSE IF cfg.path = "native" THEN sinkSetTrailer(s, FlattenMD(md))
    ELSE stsSetTrailer(s, md)

-----------------------------------------------------------------------------
(* Application code on the server: each of Setters may set a header and a  *)
(* trailer once, while it runs.                                            *)

Runs(who) ==
    CASE who = "mw" -> srv.pc \in {"mw", "ret"}
      [] who = "icpt" -> srv.pc \in {"icpt", "icptOut"}
      [] OTHER -> srv.pc = "impl"

\* Headers set after the leading headers or a message went out come too late.
AppMetadata(who, k) ==
    /\ Runs(who) /\ \A p \in asked : p[2] # who
    /\ \E r \in HeaderOps(who, MD(k, who)) : Emit(TrailerOp(r.s, who, MD(k, who)), r.h, r.m)
    /\ asked' = asked \cup {<<k, who, srv.headerSent \/ srv.msgSent>>}
    /\ UNCHANGED <<cfg, conn>>

\* Application code is called by, and returns to, the layer around it.  The
\* gRPC handler of a server-streaming method starts by receiving the request.
ImplPc == IF cfg.kind = "server" /\ cfg.path = "registrar" THEN "grpcRecv" ELSE "impl"
Goto(pc) == [srv EXCEPT !.pc = pc]
Return(pc, err) == [srv EXCEPT !.pc = pc, !.err = err]

\* Middleware leaves next, which returned srv.err to it (inner keeps the error)
\* and whose own state, the sink and the adapter of the stream, is gone.
LeaveNext(pc, err) ==
    [Return(pc, err) EXCEPT !.inner = srv.err, !.resps = 0, !.pending = NoMD, !.captured = FALSE,
                            !.sink = [header |-> Nil, trailer |-> Nil]]

\* Middleware calls next or returns an error itself; when next has returned it
\* passes the error on, replaces it, or makes a success of it.
Middleware ==
    /\ \/ srv.pc = "mw" /\ srv' \in {Goto("reg"), Return("fin", Err("Status", "App"))}
       \/ srv.pc = "ret" /\ \E e \in {srv.err, NoErr, Err("Status", "App")} : srv' = LeaveNext("fin", e)
    /\ UNCHANGED <<cfg, cli, asked, conn>>

\* A gRPC interceptor calls the handler, or answers the call itself; it returns
\* the handler's error, or another one, or none.
ServerInterceptor ==
    /\ \/ srv.pc = "icpt" /\ srv' = Goto(ImplPc)
       \/ srv.pc = "icptOut" /\ srv' = Goto("wrap")
       \/ srv.pc \in {"icpt", "icptOut"}
          /\ \E e \in {NoErr, Err("grpc", "App")} : srv' = Return("wrap", e)
    /\ UNCHANGED <<cfg, cli, asked, conn>>

\* Every handler but a unary one sends on its stream: a client-streaming gRPC
\* server with SendAndClose, a raw one even twice where one response is due.
RespBound ==
    IF cfg.kind \in {"server", "bidi"} THEN MaxResps ELSE IF cfg.path = "raw" THEN 2 ELSE 1

ImplSend ==
    /\ srv.pc = "impl" /\ srv.resps < RespBound
    /\ LET s == [srv EXCEPT !.resps = @ + 1]
           r == CASE cfg.path \in {"raw", "native"} -> SendRaw(Quiet(s))
                  [] cfg.path = "bridge" -> bridgeSendMsg(s)
                  [] cfg.path = "registrar" -> grpcSendMsg(s)
       IN  (cfg.path = "raw" \/ cfg.kind # "unary") /\ Emit(r.s, r.h, r.m)
    /\ UNCHANGED <<cfg, asked, conn>>

\* Handlers that stream requests receive them.
ImplRecv ==
    /\ srv.pc = "impl" /\ srv.reqs > 0
    /\ cfg.path = "raw" \/ cfg.kind \in {"client", "bidi"}
    /\ srv' = [srv EXCEPT !.reqs = @ - 1]
    /\ UNCHANGED <<cfg, cli, asked, conn>>

ImplReturn ==
    /\ srv.pc = "impl"
    /\ \E e \in AppErrors \cup {NoErr} :
        srv' = Return(IF cfg.icpt THEN "icptOut" ELSE "wrap", e)
    /\ UNCHANGED <<cfg, cli, asked, conn>>

AppPanic ==
    /\ \/ srv.pc \in {"mw", "icpt", "impl", "icptOut"} /\ srv' = Goto("panic")
       \/ srv.pc = "ret" /\ srv' = LeaveNext("panic", srv.err)
    /\ UNCHANGED <<cfg, cli, asked, conn>>

-----------------------------------------------------------------------------
(* The registered handlers: pc is "reg" when one is entered, "wrap" when   *)
(* what it called has returned srv.err, and "ret" when it returns srv.err  *)
(* itself, to the middleware.                                              *)

\* A first Recv: a request, io.EOF (an empty request), or an error.
RecvRequest(next) ==
    \/ srv.reqs > 0 /\ srv' = [next EXCEPT !.reqs = @ - 1]
    \/ srv.reqs = 0 /\ srv.halfClosed /\ srv' = next
    \/ srv.reqs = 0 /\ srv.ctx
       /\ srv' = Return("ret", IF srv.ended THEN Err("Status", "Unavailable")
                               ELSE Err("other", "Unknown"))

\* The methods of the generated bridge, up to the gRPC server or its interceptor.
EnterImpl(s) == [s EXCEPT !.pc = IF cfg.icpt THEN "icpt" ELSE ImplPc]

bridgeUnary(s) == IF cfg.icpt THEN EnterImpl([s EXCEPT !.sts = TRUE]) ELSE EnterImpl(s)

bridgeServerStream(s) == EnterImpl(s)

bridgeBidi(s) == EnterImpl(s)

\* ClientStream of the bridge, once the gRPC server has returned.
bridgeClientStream(err) ==
    IF err = NoErr /\ ~srv.captured THEN Err("Status", "Internal") ELSE err

\* Send(res) is the last call of the handler: its error is the handler's.
ReplyLast(r) ==
    \/ Emit([r.s EXCEPT !.pc = "ret", !.err = NoErr], r.h, r.m)
    \/ /\ WriteFails(srv.ctx)
       /\ Emit([r.s EXCEPT !.pc = "ret", !.err = Err("other", "Unknown"), !.lost = TRUE],
               r.h, NoFrame)

\* An interceptor may return a response of another type: the bridge refuses it,
\* and the registrar's codec cannot marshal it.
unexpectedType ==
    IF cfg.path = "bridge" THEN Err("Status", "Internal") ELSE Err("other", "Unknown")

\* The tail of a unary handler: on success the sink, then the response.
FlushUnary ==
    LET s == SetTrailer(srv, srv.sink.trailer)
        r == SendRaw(IF srv.sink.header = Nil THEN Quiet(s) ELSE SendHeader(s, srv.sink.header))
    IN  \/ srv.err # NoErr /\ srv' = Goto("ret") /\ UNCHANGED cli
        \/ srv.err = NoErr /\ cfg.icpt /\ srv' = Return("ret", unexpectedType) /\ UNCHANGED cli
        \/ srv.err = NoErr /\ ReplyLast(r)

RegisterUnary ==
    /\ cfg.kind = "unary" /\ cfg.path \in {"native", "bridge"}
    /\ \/ /\ srv.pc = "reg"
          /\ RecvRequest(IF cfg.path = "bridge" THEN bridgeUnary(srv) ELSE Goto("impl"))
          /\ UNCHANGED cli
       \/ srv.pc = "wrap" /\ FlushUnary
    /\ UNCHANGED <<cfg, asked, conn>>

RegisterServerStream ==
    /\ cfg.kind = "server" /\ cfg.path \in {"native", "bridge"}
    /\ \/ /\ srv.pc = "reg"
          /\ RecvRequest(IF cfg.path = "bridge" THEN bridgeServerStream(srv)
                         ELSE Goto("impl"))
       \/ srv.pc = "wrap" /\ srv' = Goto("ret")
    /\ UNCHANGED <<cfg, cli, asked, conn>>

RegisterClientStream ==
    /\ cfg.kind = "client" /\ cfg.path \in {"native", "bridge"}
    /\ \/ srv.pc = "reg" /\ srv' = EnterImpl(srv) /\ UNCHANGED cli
       \/ /\ srv.pc = "wrap"
          /\ LET err == IF cfg.path = "bridge" THEN bridgeClientStream(srv.err) ELSE srv.err
             IN  \/ err # NoErr /\ srv' = Return("ret", err) /\ UNCHANGED cli
                 \/ err = NoErr /\ ReplyLast(SendRaw(Quiet(srv)))
    /\ UNCHANGED <<cfg, asked, conn>>

RegisterBidi ==
    /\ cfg.kind = "bidi" /\ cfg.path \in {"native", "bridge"}
    /\ \/ srv.pc = "reg" /\ srv' = bridgeBidi(srv)
       \/ srv.pc = "wrap" /\ srv' = Goto("ret")
    /\ UNCHANGED <<cfg, cli, asked, conn>>

registrarUnary ==
    /\ cfg.kind = "unary" /\ cfg.path = "registrar"
    /\ \/ /\ srv.pc = "reg"
          /\ RecvRequest(EnterImpl([srv EXCEPT !.sts = TRUE]))
          /\ UNCHANGED cli
       \/ srv.pc = "wrap" /\ FlushUnary
    /\ UNCHANGED <<cfg, asked, conn>>

registrarStream ==
    /\ cfg.kind # "unary" /\ cfg.path = "registrar"
    /\ \/ srv.pc = "reg" /\ srv' = EnterImpl(srv)
       \/ srv.pc = "wrap" /\ srv' = Goto("ret")
    /\ UNCHANGED <<cfg, cli, asked, conn>>

\* The gRPC handler of a server-streaming method: any error of RecvMsg is its own.
grpcServerStreamHandler ==
    /\ srv.pc = "grpcRecv"
    /\ \/ srv.reqs > 0 /\ srv' = [Goto("impl") EXCEPT !.reqs = @ - 1]
       \/ /\ srv.reqs = 0 /\ (srv.halfClosed \/ srv.ctx)
          /\ srv' = Return(IF cfg.icpt THEN "icptOut" ELSE "wrap",
                           IF srv.ended THEN Err("Status", "Unavailable")
                           ELSE Err("other", "Unknown"))
    /\ UNCHANGED <<cfg, cli, asked, conn>>

rawHandler ==
    /\ cfg.path = "raw"
    /\ \/ srv.pc = "reg" /\ srv' = Goto("impl")
       \/ srv.pc = "wrap" /\ srv' = Goto("ret")
    /\ UNCHANGED <<cfg, cli, asked, conn>>

-----------------------------------------------------------------------------
(* serveStream around them.                                                *)

Lookup ==
    /\ srv.pc = "lookup"
    /\ srv' = Goto(IF cfg.path = "none" THEN "unknown" ELSE "mw")
    /\ UNCHANGED <<cfg, cli, asked, conn>>

\* Mutant: END is written with the context of the stream.
endCtxStream == srv.ctx

\* end() writes with the mux context.
endCtx == FALSE

\* end: the END frame, then the stream is terminal whatever the write did, and
\* what the handler left in it is gone.
end(s, st, trailers) ==
    /\ srv' = [s EXCEPT !.pc = "done", !.ctx = TRUE, !.ended = TRUE, !.reqs = 0,
                        !.halfClosed = FALSE, !.resps = 0,
                        !.outTrailer = Nil, !.pending = NoMD, !.captured = FALSE,
                        !.sink = [header |-> Nil, trailer |-> Nil]]
    /\ \/ conn /\ cli' = clientRoute(cli, Frame("END", trailers, statusToProto(st)))
       \/ WriteFails(endCtx) /\ UNCHANGED cli

\* An unknown method, a recovered panic (neither reports StreamEnded, nor
\* sends trailers), and a chain of middleware and handler that returned.
serveStreamEnd ==
    /\ \/ srv.pc = "unknown" /\ end(srv, "Unimplemented", Nil)
       \/ srv.pc = "panic" /\ end(srv, "Internal", Nil)
       \/ /\ srv.pc = "fin"
          /\ LET st == OrOK(FromError(srv.err))
             IN  end([srv EXCEPT !.stat = st], st, srv.outTrailer)
    /\ UNCHANGED <<cfg, asked, conn>>

\* The read loop of the server fails: failAll and the mux context.
serverLost ==
    /\ ~conn /\ ~srv.ended
    /\ srv' = [srv EXCEPT !.ended = TRUE, !.ctx = TRUE]
    /\ UNCHANGED <<cfg, cli, asked, conn>>

serverDeadline ==
    /\ srv.timeout /\ ~srv.ctx
    /\ srv' = [srv EXCEPT !.ctx = TRUE]
    /\ UNCHANGED <<cfg, cli, asked, conn>>

-----------------------------------------------------------------------------
(* The client.                                                             *)

Done(c, by, code, ok) ==
    [c EXCEPT !.pc = "returned", !.res = [by |-> by, code |-> code, ok |-> ok]]

\* A write with the context of the call: on failure the stub returns the error.
ClientWrite(f, next, failed) ==
    \/ conn /\ srv' = serverRoute(srv, f) /\ cli' = next
    \/ WriteFails(cli.ctx # "live") /\ UNCHANGED srv /\ cli' = failed
    \/ ~conn /\ UNCHANGED srv /\ cli' = next

WriteError == Done(cli, "write", "OK", FALSE)

WithTimeout(header, ms) ==
    IF ms THEN Over([k \in {timeoutHeader} |-> <<"ms">>], header) ELSE header

\* newClientStream: a deadline below a millisecond puts no header on OPEN.
newClientStream(header, next) ==
    ClientWrite(Frame("OPEN", WithTimeout(header, cfg.fault = "ms"), "OK"), next, WriteError)

\* The interceptor chain around the terminal call: next, or an error.
chainStreaming(next) ==
    \/ newClientStream(InterceptorHeader(CallHeaders(CallOpts)), next)
    \/ cli' = Done(cli, "interceptor", "App", FALSE) /\ UNCHANGED srv

\* applyEnd and recvEnded: what a Recv with an empty backlog returns.
applyEnd(c) == [c EXCEPT !.trailer = c.endFrame.md]

\* The io.EOF of a clean END is success to a caller that expects no more (eofOK).
recvEnded(c, eofOK) ==
    IF c.endFrame # NoFrame
    THEN Done(applyEnd(c), "END", c.endFrame.st, eofOK /\ c.endFrame.st = "OK")
    ELSE Done(c, "conn", "Unavailable", FALSE)

\* Recv: a buffered MSG, else the terminal status, else the context's error.
RecvMsg(next) == cli.buf > 0 /\ cli' = [next EXCEPT !.buf = @ - 1, !.got = @ + 1]

RecvEnd(eofOK) ==
    /\ cli.buf = 0
    /\ \/ (cli.endFrame # NoFrame \/ cli.failed) /\ cli' = recvEnded(cli, eofOK)
       \/ /\ cli.endFrame = NoFrame /\ ~cli.failed /\ cli.ctx # "live"
          /\ cli' = Done(cli, "ctx", cli.ctx, FALSE)

At(pc) == [cli EXCEPT !.pc = pc]

\* Mutant: the call returns with the first message.
DrainSkipped == cli.pc = "drain" /\ cli' = Done(cli, "MSG", "OK", TRUE)

\* After the response, the drain waits for the status.
Drain ==
    /\ cli.pc = "drain"
    /\ RecvMsg(Done(cli, "MSG", "OK", TRUE)) \/ RecvEnd(TRUE)

\* A call that ended with io.EOF and without a response has failed.
InvokeUnary ==
    /\ cfg.kind = "unary"
    /\ \/ cli.pc = "new" /\ chainStreaming(At("send"))
       \/ cli.pc = "send" /\ ClientWrite(Plain("MSG"), At("close"), WriteError)
       \/ cli.pc = "close" /\ ClientWrite(Plain("HALF_CLOSE"), At("recv"), WriteError)
       \/ cli.pc = "recv" /\ (RecvMsg(At("drain")) \/ RecvEnd(FALSE)) /\ UNCHANGED srv
       \/ Drain /\ UNCHANGED srv
    /\ UNCHANGED <<cfg, asked, conn>>

\* The generated methods that open a stream; ServerStream sends its request.
OpenStreamingClient ==
    /\ cli.pc = "new" /\ cfg.kind # "unary"
    /\ chainStreaming(At(IF cfg.kind = "server" THEN "send" ELSE "stream"))
    /\ UNCHANGED <<cfg, asked, conn>>

ServerStreamStub ==
    /\ cfg.kind = "server"
    /\ \/ cli.pc = "send" /\ ClientWrite(Plain("MSG"), At("close"), WriteError)
       \/ cli.pc = "close" /\ ClientWrite(Plain("HALF_CLOSE"), At("stream"), WriteError)
    /\ UNCHANGED <<cfg, asked, conn>>

\* The application drives a typed client stream: Send, CloseSend, Recv to the
\* end, or CloseAndRecv, which does not read past the response.  A failed Send
\* leaves the stream to be read.
ClientSend ==
    /\ cli.pc = "stream" /\ cfg.kind \in {"client", "bidi"}
    /\ ~cli.sendDone /\ cli.sends < MaxReqs
    /\ LET c == [cli EXCEPT !.sends = @ + 1] IN ClientWrite(Plain("MSG"), c, c)
    /\ UNCHANGED <<cfg, asked, conn>>

CloseSend ==
    /\ cli.pc = "stream" /\ cfg.kind = "bidi" /\ ~cli.sendDone
    /\ LET c == [cli EXCEPT !.sendDone = TRUE] IN ClientWrite(Plain("HALF_CLOSE"), c, c)
    /\ UNCHANGED <<cfg, asked, conn>>

ClientRecv ==
    /\ cli.pc = "stream" /\ cfg.kind \in {"server", "bidi"}
    /\ RecvMsg(cli) \/ RecvEnd(TRUE)
    /\ UNCHANGED <<cfg, srv, asked, conn>>

CloseAndRecv ==
    /\ cfg.kind = "client"
    /\ \/ cli.pc = "stream" /\ ClientWrite(Plain("HALF_CLOSE"), At("recv"), WriteError)
       \/ /\ cli.pc = "recv"
          /\ RecvMsg(Done(cli, "MSG", "OK", TRUE)) \/ RecvEnd(FALSE)
          /\ UNCHANGED srv
    /\ UNCHANGED <<cfg, asked, conn>>

\* The read loop of the client fails: failAll.
clientLost ==
    /\ ~conn /\ ~cli.failed /\ cli.endFrame = NoFrame /\ cli.pc \notin {"new", "returned"}
    /\ cli' = [cli EXCEPT !.failed = TRUE]
    /\ UNCHANGED <<cfg, srv, asked, conn>>

-----------------------------------------------------------------------------
(* The environment: the context of the call, and the connection.           *)

CtxEnds(how) ==
    /\ cli.pc # "returned" /\ cli.ctx = "live"
    /\ \/ how = "Canceled" /\ cfg.fault = "cancel"
       \/ how = "DeadlineExceeded" /\ cfg.fault \in {"ms", "subms"}
    /\ cli' = [cli EXCEPT !.ctx = how]
    /\ UNCHANGED <<cfg, srv, asked, conn>>

ConnDrop ==
    /\ cfg.fault = "loss" /\ conn /\ cli.pc # "returned"
    /\ conn' = FALSE
    /\ UNCHANGED <<cfg, cli, srv, asked>>

Client ==
    InvokeUnary \/ OpenStreamingClient \/ ServerStreamStub \/ ClientRecv \/ CloseAndRecv

Registered ==
    \/ RegisterUnary \/ RegisterServerStream \/ RegisterClientStream \/ RegisterBidi
    \/ registrarUnary \/ registrarStream \/ grpcServerStreamHandler \/ rawHandler

App ==
    \/ \E p \in Sets : AppMetadata(p[1], p[2])
    \/ Middleware \/ ServerInterceptor \/ ImplSend \/ ImplRecv \/ ImplReturn \/ AppPanic

Next ==
    \/ Client \/ ClientSend \/ CloseSend \/ clientLost
    \/ Lookup \/ Registered \/ App \/ serveStreamEnd
    \/ serverLost \/ serverDeadline
    \/ \E how \in {"Canceled", "DeadlineExceeded"} : CtxEnds(how)
    \/ ConnDrop

\* The read loop of the client and its stub run, its application keeps receiving,
\* and serveStream runs once the handler chain has returned.  Nothing is assumed
\* of handlers, contexts or the connection.
Fairness ==
    /\ WF_vars(Client)
    /\ WF_vars(clientLost)
    /\ WF_vars(serveStreamEnd)

Spec == Init /\ [][Next]_vars
FairSpec == Spec /\ Fairness

-----------------------------------------------------------------------------
(* Properties.                                                             *)

\* Metadata maps: for each of some keys the values of its setters.
Values == Seq(Setters)
MDs == [{} -> Values] \cup [{"a"} -> Values] \cup [{"b"} -> Values] \cup [Keys -> Values]

\* The header of OPEN, without and with a deadline.
OpenHeader(ms) == WithTimeout(InterceptorHeader(CallHeaders(CallOpts)), ms)

CliPcs == {"new", "send", "close", "recv", "drain", "stream", "returned"}
SrvPcs == {"none", "lookup", "unknown", "mw", "reg", "icpt", "grpcRecv", "impl", "icptOut",
           "wrap", "ret", "fin", "panic", "done"}

CliStates ==
    [pc: CliPcs, sends: 0..MaxReqs, sendDone: BOOLEAN, buf: Nat, got: Nat, header: MDs,
     trailer: MDs, endFrame: [kind: {"NONE", "END"}, md: MDs, st: Codes], failed: BOOLEAN,
     ctx: {"live", "Canceled", "DeadlineExceeded"},
     res: [by: {"none", "write", "interceptor", "END", "conn", "ctx", "MSG"}, code: Codes,
           ok: BOOLEAN]]

SrvStates ==
    [pc: SrvPcs, header: {Nil, OpenHeader(FALSE), OpenHeader(TRUE)}, timeout: BOOLEAN,
     reqs: 0..(MaxReqs + 1), halfClosed: BOOLEAN, ended: BOOLEAN, ctx: BOOLEAN,
     headerSent: BOOLEAN, msgSent: BOOLEAN, outTrailer: MDs, sink: [header: MDs, trailer: MDs],
     sts: BOOLEAN, pending: [Keys -> Values], captured: BOOLEAN, resps: Nat, err: Errors,
     inner: Errors \cup {NotYet}, stat: Codes \cup {"none"}, lost: BOOLEAN]

\* The records are well formed; a status on the wire is a code, never nil.
TypeOK ==
    /\ cfg \in [kind: Kinds, path: Paths, icpt: BOOLEAN, fault: Faults]
    /\ cli \in CliStates /\ srv \in SrvStates
    /\ srv.resps <= RespBound
    /\ asked \subseteq Keys \X Setters \X BOOLEAN
    /\ conn \in BOOLEAN

\* What serveStream must tell of a handler chain that returned err.
CodeOf(err) ==
    CASE err = NoErr -> "OK" [] err.kind = "other" -> "Unknown" [] OTHER -> err.code

\* And of a call whose chain did not return (stat is what StreamEnded reported):
\* the method is unknown, or a handler panicked.
StatusDue ==
    CASE srv.stat # "none" -> CodeOf(srv.err)
      [] srv.stat = "none" /\ cfg.path = "none" -> "Unimplemented"
      [] srv.stat = "none" /\ cfg.path # "none" -> "Internal"

\* The error the registered handler returned to the middleware.
NextErr == IF srv.pc = "ret" THEN srv.err ELSE srv.inner

\* A client that learns the end of its call from END learns what became of the
\* handler chain, and what StreamEnded reported: the code of the *Status or gRPC
\* error the chain returned, Unknown for any other error, Internal after a panic,
\* Unimplemented for an unknown method.  A typed unary call succeeds only when
\* the handler and the middleware around it succeeded and serveStream has
\* finished (the drain of InvokeUnary).
StatusFaithful ==
    /\ cli.res.by = "END" =>
        /\ srv.pc = "done"
        /\ cli.res.code = StatusDue
        /\ srv.stat # "none" => srv.stat = cli.res.code
    /\ cli.res.ok /\ cfg.kind = "unary" /\ cfg.path # "raw" =>
        srv.pc = "done" /\ NextErr = NoErr /\ srv.err = NoErr

\* The map has the keys of P, each with the value of one that set it.
Carries(md, P) ==
    /\ DOMAIN md = {p[1] : p \in P}
    /\ \A k \in DOMAIN md : \E p \in P : p[1] = k /\ md[k] = <<p[2]>>

\* The map has the keys of due, and nothing that application code did not set.
Shows(md, due) ==
    /\ {p[1] : p \in due} \subseteq DOMAIN md
    /\ \A k \in DOMAIN md : \E p \in asked : p[1] = k /\ md[k] = <<p[2]>>

\* Trailers that must ride on END: those set on the Stream, by middleware before
\* or after it calls next too, and those of the sink of a unary handler that
\* succeeded, whatever the middleware makes of it.
TrailerDue ==
    {p \in asked :
        \/ OnStream(p[2]) \/ cfg.kind # "unary"
        \/ NextErr = NoErr /\ (cfg.path = "native" \/ srv.sts)}

\* Headers that must lead the response of a unary call that succeeded.
HeaderDue == {p \in asked : cfg.path = "native" \/ srv.sts}

\* A handler chain that returned, and no write failed: the client has, for every
\* key due, a trailer some code of the server set, and none that nobody set.  A
\* successful unary call has every header of its sink, unless middleware sent
\* headers before it.  What a failed unary handler set, and what one behind the
\* bridge set without an interceptor, is not due here; the documents say more.
\* The handler sees the last call option of a key, and the client interceptor's
\* header over both.
MetadataArrives ==
    /\ cli.res.by = "END" /\ srv.stat # "none" /\ ~srv.lost => Shows(cli.trailer, TrailerDue)
    /\ cli.res.by = "END" /\ cli.res.ok /\ cfg.kind = "unary" /\ cfg.path # "raw" /\ ~srv.lost
       /\ (\A p \in asked : p[2] # "mw") =>
        {p[1] : p \in HeaderDue} \subseteq DOMAIN cli.header
    /\ srv.pc # "none" => srv.header["a"] = <<"opt2">> /\ srv.header["b"] = <<"auth">>

\* Once the application has a response, the leading headers it may read do not
\* change: no HEADER frame follows a MSG (headerSent, msgSent).
HeaderStable == [][cli.got > 0 => cli'.header = cli.header]_vars

\* The typed handlers that reply once show a response only when they succeed:
\* unary ones, and the client-streaming bridge, which captures it.  Middleware
\* around them may still fail the call after the response (END carries its
\* status), so nothing is claimed of the status of the chain.
ResponseMeansSuccess ==
    /\ \/ cfg.kind = "unary" /\ cfg.path # "raw"
       \/ cfg.kind = "client" /\ cfg.path = "bridge"
    /\ cli.buf + cli.got > 0
    => NextErr = NoErr

\* The call returns once its handler chain has, its context has ended or the
\* connection is lost: END is sent with the context of the mux, and a Recv that
\* waits hears of END, of failAll and of its context.
CallEnds ==
    srv.pc \in {"fin", "panic", "unknown"} \/ ~conn \/ cli.ctx # "live"
        ~> cli.pc = "returned"

\* What bridge.go says of BridgeConfig, and the README of both adapters: the
\* response metadata a gRPC interceptor or handler sets in time is propagated;
\* asked here of calls behind an interceptor that succeed with a response.
MetadataPropagated ==
    /\ cfg.icpt /\ cli.got > 0
    /\ srv.stat = "OK" /\ ~srv.lost
    => \A p \in asked : p[2] # "mw" =>
        /\ p[3] \/ p[1] \in DOMAIN cli.header
        /\ cli.res.by = "END" => p[1] \in DOMAIN cli.trailer

-----------------------------------------------------------------------------
(* The inductive invariant behind the safety properties.                   *)

\* The handlers that reply once, after what they call has returned.
ReplyOnce ==
    \/ cfg.kind = "unary" /\ cfg.path # "raw"
    \/ cfg.kind = "client" /\ cfg.path = "bridge"

UnarySink == cfg.kind = "unary" /\ cfg.path # "raw"

\* The requests a client has sent, the one of a unary or server-streaming call too.
Sent(c) ==
    c.sends + IF cfg.kind \in {"unary", "server"} /\ c.pc \notin {"new", "send"} THEN 1 ELSE 0

\* The server has been sent no more requests, and was opened by OPEN.
OpenInv ==
    /\ cli.pc = "new" => srv.pc = "none"
    /\ srv.reqs <= Sent(cli)
    /\ srv.pc # "none" => srv.header["a"] = <<"opt2">> /\ srv.header["b"] = <<"auth">>

\* END is written when serveStream is done, once, and says how; a client that
\* has read it has what it carried.
EndInv ==
    /\ cli.failed => ~conn
    /\ srv.pc = "done" => srv.ended
    /\ srv.pc # "done" => srv.stat = "none" /\ cli.endFrame = NoFrame
    /\ srv.pc = "unknown" => cfg.path = "none"
    /\ srv.pc \notin {"none", "lookup", "unknown", "done"} => cfg.path # "none"
    /\ cli.endFrame # NoFrame => cli.endFrame.st = StatusDue
    /\ srv.stat # "none" => srv.stat = CodeOf(srv.err)
    /\ cli.res.by = "END" =>
        /\ cli.endFrame # NoFrame
        /\ cli.res.code = cli.endFrame.st /\ cli.trailer = cli.endFrame.md
        /\ cli.res.ok => cli.res.code = "OK"

\* A response comes once, at the end, where one is typed; no HEADER after it.
ReplyInv ==
    /\ cli.buf + cli.got > 0 => srv.msgSent
    /\ cli.pc = "drain" => cli.got > 0
    /\ ReplyOnce => cli.buf + cli.got <= 1
    /\ ReplyOnce /\ cli.buf + cli.got > 0 => NextErr = NoErr
    /\ UnarySink /\ cli.res.ok => srv.pc = "done" /\ NextErr = NoErr /\ srv.err = NoErr
    /\ srv.pc \notin {"fin", "panic", "done"} => srv.inner = NotYet

\* What was set on the Stream, and what on the sink of a unary handler.
OnTrailer == {p \in asked : OnStream(p[2]) \/ cfg.kind # "unary"}
OnSink == {p \in asked : p[2] # "mw" /\ (cfg.path = "native" \/ srv.sts)}

\* The registered handler has returned to the middleware, or was not called.
Left == srv.pc \in {"ret", "fin", "panic", "done"}

\* Metadata on its way: on the Stream and in the sink while the handler runs,
\* the due ones at its return, and then on END.
TrailerInv ==
    /\ srv.pc \in {"none", "lookup", "unknown"} => asked = {}
    /\ srv.pc \in {"mw", "reg"} => \A p \in asked : p[2] = "mw"
    /\ srv.pc \notin {"panic", "done"} /\ ~srv.lost =>
        Carries(srv.outTrailer, IF Left THEN TrailerDue ELSE OnTrailer)
    /\ UnarySink /\ ~Left => Carries(srv.sink.trailer, OnSink)
    /\ cli.endFrame # NoFrame /\ srv.stat # "none" /\ ~srv.lost => Carries(cli.endFrame.md, TrailerDue)

HeaderInv ==
    UnarySink =>
        /\ ~Left =>
            /\ DOMAIN srv.sink.header = {p[1] : p \in OnSink}
            /\ ~srv.msgSent
            /\ (\A p \in asked : p[2] # "mw") => ~srv.headerSent /\ DOMAIN cli.header = {}
        /\ NextErr = NoErr /\ ~srv.lost /\ (\A p \in asked : p[2] # "mw")
           => DOMAIN cli.header = {p[1] : p \in HeaderDue}

IInv == TypeOK /\ OpenInv /\ EndInv /\ ReplyInv /\ TrailerInv /\ HeaderInv

=============================================================================
