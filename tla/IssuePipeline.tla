--------------------------- MODULE IssuePipeline ---------------------------
(***************************************************************************)
(* How `selefra apply` reports the rows its rules match.  For every schema *)
(* (a provider declaration and one of its configurations) apply calls      *)
(* RunRules.  RunRules is the producer: it puts one request per matching   *)
(* row in a buffered channel.  A goroutine it starts, UploadIssueFunc,     *)
(* takes the requests out and sends them on THE issue stream, a single     *)
(* gRPC client stream that all the calls of RunRules in the process share. *)
(* A second goroutine, the watchdog, cancels the call's context when the   *)
(* ticker that the uploader keeps resetting fires.  RunRules cancels the   *)
(* context itself when it returns, and the uploader then closes the stream *)
(* for sending.                                                            *)
(*                                                                         *)
(* An issue is identified by the call that produced it and by its number:  *)
(* issue n of call k is the n-th request that call k put in its channel.   *)
(*                                                                         *)
(* The gRPC stream, its transport and the server are external: they are    *)
(* modelled from how the code uses them.                                   *)
(***************************************************************************)
EXTENDS Naturals, Sequences

CONSTANTS NCalls,    \* the number of schemas, so of calls of RunRules
          NRules,    \* the number of rules each call runs
          MaxRows,   \* bound on the rows one rule matches
          Cap,       \* capacity of the issue channel (100 in the code)
          Window,    \* issues that the stream takes before the server reads one
          Faults     \* what the environment may do: "transport", "timeout"

ASSUME PipelineAssumption ==
    /\ NCalls \in Nat \ {0}
    /\ NRules \in Nat
    /\ MaxRows \in Nat \ {0}
    /\ Cap \in Nat \ {0}
    /\ Window \in Nat \ {0}
    /\ Faults \subseteq {"transport", "timeout"}

Calls == 1..NCalls

VARIABLES
    main,       \* where the goroutine that runs apply is
    call,       \* the call of RunRules it is in, or about to make
    rule,       \* how many of the call's rules it has taken
    left,       \* rows of the current rule not put in the channel yet
    produced,   \* per call: how many issues it put in its channel
    queue,      \* per call: the channel, the numbers of the issues in it
    cancelled,  \* per call: its context (issueCtx) is done
    armed,      \* per call: its ticker runs
    tick,       \* per call: a tick is in the ticker's channel
    watchdog,   \* per call: where the watchdog goroutine is
    uploader,   \* per call: where the uploader goroutine is
    hand,       \* per call: the issue the uploader is sending, 0 for none
    stream,     \* the issue stream of the process
    wire,       \* issues the stream accepted and the server has not read
    received,   \* per call: the issues the server read, in order
    closers     \* what utils.Close has not closed yet

mainVars     == <<main, call, rule, left, closers>>
tickerVars   == <<armed, tick>>
uploaderVars == <<uploader, hand>>
streamVars   == <<stream, wire, received>>
vars == <<mainVars, produced, queue, cancelled, tickerVars, watchdog,
          uploaderVars, streamVars>>

MainStates     == {"next", "rule", "row", "send", "unlock", "close", "exited"}
WatchdogStates == {"none", "waiting", "reporting", "done"}
UploaderStates == {"none", "started", "select", "sending", "closed", "failed"}
StreamStates   == {"nil", "open", "closed", "broken"}
Closers        == {"grpc conn", "issue stream"}

Issue == [call : Calls, num : Nat \ {0}]

TypeOK ==
    /\ main \in MainStates
    /\ call \in 1..(NCalls + 1)
    /\ rule \in 0..NRules
    /\ left \in 0..MaxRows
    /\ produced \in [Calls -> Nat]
    /\ queue \in [Calls -> Seq(Nat \ {0})]
    /\ \A k \in Calls : Len(queue[k]) <= Cap
    /\ cancelled \in [Calls -> BOOLEAN]
    /\ armed \in [Calls -> BOOLEAN]
    /\ tick \in [Calls -> BOOLEAN]
    /\ watchdog \in [Calls -> WatchdogStates]
    /\ uploader \in [Calls -> UploaderStates]
    /\ hand \in [Calls -> Nat]
    /\ stream \in StreamStates
    /\ wire \in Seq(Issue) /\ Len(wire) <= Window
    /\ received \in [Calls -> Seq(Nat \ {0})]
    /\ closers \subseteq Closers

(***************************************************************************)
(* When apply starts running rules the gRPC client exists, with an open    *)
(* issue stream, or it does not (the user is not logged in, or opening a   *)
(* stream failed) and will not: shouldClient runs once.                    *)
(***************************************************************************)
Init ==
    /\ main = "next" /\ call = 1 /\ rule = 0 /\ left = 0
    /\ produced = [k \in Calls |-> 0]
    /\ queue = [k \in Calls |-> <<>>]
    /\ cancelled = [k \in Calls |-> FALSE]
    /\ armed = [k \in Calls |-> FALSE]
    /\ tick = [k \in Calls |-> FALSE]
    /\ watchdog = [k \in Calls |-> "none"]
    /\ uploader = [k \in Calls |-> "none"]
    /\ hand = [k \in Calls |-> 0]
    /\ stream \in {"nil", "open"}
    /\ wire = <<>>
    /\ received = [k \in Calls |-> <<>>]
    /\ closers = IF stream = "nil" THEN {} ELSE Closers

Running == main # "exited"

-----------------------------------------------------------------------------
(* The goroutine of apply, which runs RunRules. *)

\* apply's loop reaches a schema: RunRules makes the context, the channel and
\* the ticker, and starts the watchdog and the uploader.
RunRulesStart ==
    /\ main = "next" /\ call <= NCalls
    /\ main' = "rule"
    /\ rule' = 0
    /\ armed' = [armed EXCEPT ![call] = TRUE]
    /\ watchdog' = [watchdog EXCEPT ![call] = "waiting"]
    /\ uploader' = [uploader EXCEPT ![call] = "started"]
    /\ UNCHANGED <<call, left, closers, produced, queue, cancelled, tick, hand,
                   streamVars>>

\* The loop of apply is over, or the modules cannot be read: apply returns and
\* its deferred function unlocks.
ApplyReturns ==
    /\ main = "next"
    /\ main' = "unlock"
    /\ UNCHANGED <<call, rule, left, closers, produced, queue, cancelled,
                   tickerVars, watchdog, uploaderVars, streamVars>>

\* The storage of a schema cannot be opened: apply returns an error, and main
\* exits with status 1, which skips utils.Close.
ApplyFails ==
    /\ main = "next" /\ call <= NCalls
    /\ main' = "unlock"
    /\ closers' = {}
    /\ UNCHANGED <<call, rule, left, produced, queue, cancelled, tickerVars,
                   watchdog, uploaderVars, streamVars>>

\* Mutant: the deferred issueCancel is missing.
Return_KeepsContext(failed) ==
    /\ main' = IF failed THEN "unlock" ELSE "next"
    /\ call' = call + 1
    /\ left' = 0
    /\ armed' = [armed EXCEPT ![call] = FALSE]
    /\ UNCHANGED <<rule, closers, produced, queue, cancelled, tick, watchdog,
                   uploaderVars, streamVars>>

\* RunRules returns: the deferred ticker.Stop and issueCancel run.  apply goes
\* on with the next schema, or returns too when RunRules returned an error.
Return(failed) ==
    /\ main' = IF failed THEN "unlock" ELSE "next"
    /\ call' = call + 1
    /\ left' = 0
    /\ armed' = [armed EXCEPT ![call] = FALSE]
    /\ cancelled' = [cancelled EXCEPT ![call] = TRUE]
    /\ UNCHANGED <<rule, closers, produced, queue, tick, watchdog,
                   uploaderVars, streamVars>>

\* The next rule: its query or the reading of its rows fails or gives no row,
\* and the loop continues; or it gives rows.
TakeRule ==
    /\ main = "rule" /\ rule < NRules
    /\ rule' = rule + 1
    /\ \E rows \in 0..MaxRows :
        /\ left' = rows
        /\ main' = IF rows = 0 THEN "rule" ELSE "row"
    /\ UNCHANGED <<call, closers, produced, queue, cancelled, tickerVars,
                   watchdog, uploaderVars, streamVars>>

NoMoreRules == main = "rule" /\ rule = NRules /\ Return(FALSE)

\* The description of the rule, or the output of a row, is not a template, the
\* tables of the schema cannot be listed, a row cannot be marshalled.
RuleFails == main = "row" /\ left > 0 /\ Return(TRUE)

RowsDone ==
    /\ main = "row" /\ left = 0
    /\ main' = "rule"
    /\ UNCHANGED <<call, rule, left, closers, produced, queue, cancelled,
                   tickerVars, watchdog, uploaderVars, streamVars>>

\* select { case <-issueCtx.Done(): return nil
StopReporting == main = "row" /\ left > 0 /\ cancelled[call] /\ Return(FALSE)

\* select { default: ... the request is ready, the channel is not tried yet
PrepareIssue ==
    /\ main = "row" /\ left > 0 /\ ~cancelled[call]
    /\ main' = "send"
    /\ UNCHANGED <<call, rule, left, closers, produced, queue, cancelled,
                   tickerVars, watchdog, uploaderVars, streamVars>>

\* Mutant: a send that does not wait, and drops the issue when the channel is full.
PutIssue_DropsWhenFull ==
    /\ main = "send"
    /\ produced' = [produced EXCEPT ![call] = @ + 1]
    /\ queue' = IF Len(queue[call]) < Cap
                  THEN [queue EXCEPT ![call] = Append(@, produced[call] + 1)]
                  ELSE queue
    /\ left' = left - 1
    /\ main' = "row"
    /\ UNCHANGED <<call, rule, closers, cancelled, tickerVars, watchdog,
                   uploaderVars, streamVars>>

\* Mutant: a channel without a bound.
PutIssue_Unbounded ==
    /\ main = "send"
    /\ produced' = [produced EXCEPT ![call] = @ + 1]
    /\ queue' = [queue EXCEPT ![call] = Append(@, produced[call] + 1)]
    /\ left' = left - 1
    /\ main' = "row"
    /\ UNCHANGED <<call, rule, closers, cancelled, tickerVars, watchdog,
                   uploaderVars, streamVars>>

\* issueChan <- &reqs: waits for room in the channel, and for nothing else.
PutIssue ==
    /\ main = "send"
    /\ Len(queue[call]) < Cap
    /\ produced' = [produced EXCEPT ![call] = @ + 1]
    /\ queue' = [queue EXCEPT ![call] = Append(@, produced[call] + 1)]
    /\ left' = left - 1
    /\ main' = "row"
    /\ UNCHANGED <<call, rule, closers, cancelled, tickerVars, watchdog,
                   uploaderVars, streamVars>>

\* The deferred function of apply releases the schema locks.
Unlock ==
    /\ main = "unlock"
    /\ main' = "close"
    /\ UNCHANGED <<call, rule, left, closers, produced, queue, cancelled,
                   tickerVars, watchdog, uploaderVars, streamVars>>

\* utils.Close calls the registered functions in the order of a map, so in any
\* order.  Closing the connection ends the stream; what the server has not
\* read by then is lost.
CloseOne(name) ==
    /\ main = "close" /\ name \in closers
    /\ closers' = closers \ {name}
    /\ IF name = "grpc conn"
          THEN stream' = "broken" /\ wire' = <<>>
          ELSE /\ stream' = IF stream = "open" THEN "closed" ELSE stream
               /\ UNCHANGED wire
    /\ UNCHANGED <<main, call, rule, left, produced, queue, cancelled,
                   tickerVars, watchdog, uploaderVars, received>>

\* The process exits, and its goroutines end wherever they are.
Exit ==
    /\ main = "close" /\ closers = {}
    /\ main' = "exited"
    /\ UNCHANGED <<call, rule, left, closers, produced, queue, cancelled,
                   tickerVars, watchdog, uploaderVars, streamVars>>

Main ==
    \/ RunRulesStart \/ ApplyReturns \/ ApplyFails \/ TakeRule \/ NoMoreRules
    \/ RuleFails \/ RowsDone \/ StopReporting \/ PrepareIssue \/ PutIssue
    \/ Unlock \/ (\E name \in Closers : CloseOne(name)) \/ Exit

-----------------------------------------------------------------------------
(* The goroutine of UploadIssueFunc.  The ticker is reset at the start of    *)
(* every turn of its loop.  Reset neither removes a tick that is already in  *)
(* the ticker's channel nor minds that the ticker was stopped.               *)

UploadIssueFuncStart(k) ==
    /\ Running /\ uploader[k] = "started"
    /\ uploader' = [uploader EXCEPT ![k] = "select"]
    /\ armed' = [armed EXCEPT ![k] = TRUE]
    /\ UNCHANGED <<mainVars, produced, queue, cancelled, tick, watchdog, hand,
                   streamVars>>

\* case req := <-IssueReq, which the select may choose after the cancellation
TakeIssue(k) ==
    /\ Running /\ uploader[k] = "select" /\ queue[k] # <<>>
    /\ hand' = [hand EXCEPT ![k] = Head(queue[k])]
    /\ queue' = [queue EXCEPT ![k] = Tail(@)]
    /\ uploader' = [uploader EXCEPT ![k] = "sending"]
    /\ UNCHANGED <<mainVars, produced, cancelled, tickerVars, watchdog,
                   streamVars>>

\* The stream has all that it takes before the server reads: Send, which has no
\* deadline and knows nothing of issueCtx, waits.  (One that began before CloseSend
\* goes on waiting; a later one fails at once.)
Blocked(k) ==
    /\ Running /\ uploader[k] = "sending"
    /\ stream \in {"open", "closed"} /\ Len(wire) = Window

\* Mutant: the uploader leaves after one request.
SendIssue_Once(k) ==
    /\ Running /\ uploader[k] = "sending" /\ stream \in {"nil", "open"}
    /\ stream = "open" => Len(wire) < Window
    /\ wire' = IF stream = "open"
                 THEN Append(wire, [call |-> k, num |-> hand[k]]) ELSE wire
    /\ hand' = [hand EXCEPT ![k] = 0]
    /\ uploader' = [uploader EXCEPT ![k] = "closed"]
    /\ UNCHANGED <<mainVars, produced, queue, cancelled, tickerVars, watchdog,
                   stream, received>>

\* IssueStreamSend returns nil: the stream accepts the issue, or there is no
\* client and the issue goes nowhere.
SendIssue(k) ==
    /\ Running /\ uploader[k] = "sending" /\ stream \in {"nil", "open"}
    /\ stream = "open" => Len(wire) < Window
    /\ wire' = IF stream = "open"
                 THEN Append(wire, [call |-> k, num |-> hand[k]]) ELSE wire
    /\ hand' = [hand EXCEPT ![k] = 0]
    /\ uploader' = [uploader EXCEPT ![k] = "select"]
    /\ armed' = [armed EXCEPT ![k] = TRUE]
    /\ UNCHANGED <<mainVars, produced, queue, cancelled, tick, watchdog, stream,
                   received>>

\* Mutant: the uploader opens a new stream and goes on with the next request.
SendFails_Reconnects(k) ==
    /\ Running /\ uploader[k] = "sending" /\ stream \in {"closed", "broken"}
    /\ hand' = [hand EXCEPT ![k] = 0]
    /\ uploader' = [uploader EXCEPT ![k] = "select"]
    /\ stream' = "open" /\ wire' = <<>>
    /\ UNCHANGED <<mainVars, produced, queue, cancelled, tickerVars, watchdog,
                   received>>

\* Mutant: the uploader tries the same request again, on the same stream.
SendFails_Retries(k) ==
    /\ Running /\ uploader[k] = "sending" /\ stream \in {"closed", "broken"}
    /\ stream' = "broken" /\ wire' = <<>>
    /\ UNCHANGED <<mainVars, produced, queue, cancelled, tickerVars, watchdog,
                   uploaderVars, received>>

\* IssueStreamSend fails: the uploader leaves, and tells nobody.  A send after
\* CloseSend makes gRPC end the stream, what the server has not read included.
SendFails(k) ==
    /\ Running /\ uploader[k] = "sending" /\ stream \in {"closed", "broken"}
    /\ hand' = [hand EXCEPT ![k] = 0]
    /\ uploader' = [uploader EXCEPT ![k] = "failed"]
    /\ stream' = "broken" /\ wire' = <<>>
    /\ UNCHANGED <<mainVars, produced, queue, cancelled, tickerVars, watchdog,
                   received>>

\* case <-ctx.Done(), whatever is left in the channel
IssueStreamClose(k) ==
    /\ Running /\ uploader[k] = "select" /\ cancelled[k]
    /\ uploader' = [uploader EXCEPT ![k] = "closed"]
    /\ stream' = IF stream = "open" THEN "closed" ELSE stream
    /\ UNCHANGED <<mainVars, produced, queue, cancelled, tickerVars, watchdog,
                   hand, wire, received>>

Uploader(k) ==
    \/ UploadIssueFuncStart(k) \/ TakeIssue(k) \/ SendIssue(k)
    \/ SendFails(k) \/ IssueStreamClose(k)

-----------------------------------------------------------------------------
(* The watchdog goroutine of RunRules. *)

\* Mutant: the watchdog reports the timeout and forgets to cancel.
WatchdogTimeout_OnlyReports(k) ==
    /\ Running /\ watchdog[k] = "waiting" /\ tick[k]
    /\ tick' = [tick EXCEPT ![k] = FALSE]
    /\ watchdog' = [watchdog EXCEPT ![k] = "done"]
    /\ UNCHANGED <<mainVars, produced, queue, cancelled, armed, uploaderVars,
                   streamVars>>

\* case <-ticker.C: it first uploads the log status, a call to the server
WatchdogTimeout(k) ==
    /\ Running /\ watchdog[k] = "waiting" /\ tick[k]
    /\ tick' = [tick EXCEPT ![k] = FALSE]
    /\ watchdog' = [watchdog EXCEPT ![k] = "reporting"]
    /\ UNCHANGED <<mainVars, produced, queue, cancelled, armed, uploaderVars,
                   streamVars>>

\* ... and cancels when that call has returned, whatever happened meanwhile.
WatchdogCancel(k) ==
    /\ Running /\ watchdog[k] = "reporting"
    /\ cancelled' = [cancelled EXCEPT ![k] = TRUE]
    /\ watchdog' = [watchdog EXCEPT ![k] = "done"]
    /\ UNCHANGED <<mainVars, produced, queue, tickerVars, uploaderVars,
                   streamVars>>

\* case <-issueCtx.Done()
WatchdogEnds(k) ==
    /\ Running /\ watchdog[k] = "waiting" /\ cancelled[k]
    /\ watchdog' = [watchdog EXCEPT ![k] = "done"]
    /\ UNCHANGED <<mainVars, produced, queue, cancelled, tickerVars,
                   uploaderVars, streamVars>>

Watchdog(k) == WatchdogTimeout(k) \/ WatchdogCancel(k) \/ WatchdogEnds(k)

-----------------------------------------------------------------------------
(* The environment. *)

\* Thirty seconds went by since the last Reset: a query or a send is slow, or
\* the uploader is gone.
TickerFires(k) ==
    /\ "timeout" \in Faults
    /\ Running /\ armed[k] /\ ~tick[k]
    /\ tick' = [tick EXCEPT ![k] = TRUE]
    /\ UNCHANGED <<mainVars, produced, queue, cancelled, armed, watchdog,
                   uploaderVars, streamVars>>

\* The connection is lost, or the server ends the stream.
TransportBreaks ==
    /\ "transport" \in Faults
    /\ stream \in {"open", "closed"}
    /\ stream' = "broken" /\ wire' = <<>>
    /\ UNCHANGED <<mainVars, produced, queue, cancelled, tickerVars, watchdog,
                   uploaderVars, received>>

ServerReads ==
    /\ wire # <<>>
    /\ LET issue == Head(wire)
       IN received' = [received EXCEPT ![issue.call] = Append(@, issue.num)]
    /\ wire' = Tail(wire)
    /\ UNCHANGED <<mainVars, produced, queue, cancelled, tickerVars, watchdog,
                   uploaderVars, stream>>

-----------------------------------------------------------------------------

Next ==
    \/ Main
    \/ \E k \in Calls : Uploader(k) \/ Watchdog(k) \/ TickerFires(k)
    \/ TransportBreaks \/ ServerReads

\* The Go scheduler runs every goroutine that can run, queries, uploads of a status
\* and the printing of a line return, and a ticker that runs fires.  Nothing makes
\* the transport fail or the server read, so a send that is blocked need not return.
Fairness ==
    /\ WF_vars(Main)
    /\ \A k \in Calls : /\ WF_vars(Uploader(k) /\ ~Blocked(k))
                        /\ WF_vars(Watchdog(k))
                        /\ WF_vars(TickerFires(k))

Spec     == Init /\ [][Next]_vars
FairSpec == Spec /\ Fairness

-----------------------------------------------------------------------------
(* Properties. *)

\* The numbers of the issues of call k that are on the wire.
OnWire(k) == {wire[i].num : i \in {j \in DOMAIN wire : wire[j].call = k}}

InQueue(k)   == {queue[k][i] : i \in DOMAIN queue[k]}
ReadOf(k)    == {received[k][i] : i \in DOMAIN received[k]}

\* What the server has of a call is a prefix of what the call produced, in the
\* same order, whoever closed, broke or shared the stream meanwhile.
InOrder ==
    \A k \in Calls :
        /\ Len(received[k]) <= produced[k]
        /\ \A n \in 1..Len(received[k]) : received[k][n] = n

\* As long as the stream is open and the uploader of a call has not gone, every
\* issue the call produced is read, on the wire, in the uploader's hand or in
\* the channel: the bounded channel between the two goroutines loses nothing.
NothingDropped ==
    \A k \in Calls :
        stream = "open" /\ uploader[k] # "closed" =>
            1..produced[k] \subseteq
                ReadOf(k) \cup OnWire(k) \cup InQueue(k) \cup {hand[k]}

\* Call k of RunRules is running.
InCall(k) == call = k /\ main \in {"rule", "row", "send"}

\* Call k waits for room in a channel that nobody reads any more.
Hung(k) ==
    /\ call = k /\ main = "send" /\ Len(queue[k]) = Cap
    /\ uploader[k] \in {"closed", "failed"}

\* A call hangs only if the watchdog cancelled it, or if the stream is lost or
\* was closed under it: alone, its uploader does not leave it with a full channel.
HangNeedsCause == \A k \in Calls : Hung(k) => cancelled[k] \/ stream = "broken"

\* RunRules returns, unless its uploader left while the channel was full, or waits
\* for ever in a send that the server does not make room for: what the pipeline does
\* itself gives no other way in which apply, and the schema locks it holds, can hang.
RunRulesReturns ==
    \A k \in Calls :
        <>[]Blocked(k) \/ (InCall(k) ~> (call > k \/ Hung(k)))

\* Once RunRules hangs nothing wakes it: neither the watchdog, which cancels a
\* context that the send on the channel does not look at, nor anybody else.
HangIsForever == [][\A k \in Calls : Hung(k) => Hung(k)']_vars

\* The watchdog notices a call that hangs, although it cannot help it.
StalledCallIsCancelled == \A k \in Calls : Hung(k) ~> cancelled[k]

\* No uploader waits for ever, but in a send that the server makes no room for: the
\* one of a call that returned ends even when a later call hangs.
UploadersEnd ==
    \A k \in Calls :
        <>[]Blocked(k) \/
            ((uploader[k] = "started") ~>
                (uploader[k] \in {"closed", "failed"} \/ main = "exited"))

-----------------------------------------------------------------------------
(* The inductive invariant behind InOrder and NothingDropped. *)

\* Per call: the last issue that the uploader is done with.
Accepted ==
    [k \in Calls |->
        IF hand[k] = 0 THEN produced[k] - Len(queue[k]) ELSE hand[k] - 1]

\* The channel holds the last issues the call produced, and the uploader's hand
\* the one before them.
QueueInv ==
    \A k \in Calls :
        /\ Len(queue[k]) <= produced[k]
        /\ \A i \in 1..Len(queue[k]) :
              queue[k][i] = produced[k] - Len(queue[k]) + i
        /\ hand[k] # 0 => hand[k] = produced[k] - Len(queue[k])

ReadInv ==
    \A k \in Calls :
        /\ Len(received[k]) <= Accepted[k]
        /\ \A n \in 1..Len(received[k]) : received[k][n] = n

\* The calls share the wire: the issues of each are in order on it ...
WireSorted ==
    \A i, j \in 1..Len(wire) :
        i < j /\ wire[i].call = wire[j].call => wire[i].num < wire[j].num

\* ... and are those that the stream accepted and the server has not read.
WireUnread ==
    \A i \in 1..Len(wire) :
        /\ Len(received[wire[i].call]) < wire[i].num
        /\ wire[i].num <= Accepted[wire[i].call]

WireComplete ==
    stream \in {"open", "closed"} =>
        \A k \in Calls : \A n \in (Len(received[k]) + 1)..Accepted[k] :
            \E i \in 1..Len(wire) : wire[i].call = k /\ wire[i].num = n

WireEmpty == stream \in {"nil", "broken"} => wire = <<>>

OrderInv ==
    QueueInv /\ ReadInv /\ WireSorted /\ WireUnread /\ WireComplete /\ WireEmpty

-----------------------------------------------------------------------------

\* The pipeline implements the abstract delivery of issues.
Delivery == INSTANCE IssueDelivery WITH
    current <- IF main \in {"unlock", "close", "exited"} THEN NCalls + 1 ELSE call

DeliverySpec == Delivery!Spec
=============================================================================
