------------------------ MODULE IssuePipelineProofs ------------------------
(***************************************************************************)
(* Proofs about IssuePipeline: its type invariant, the order of delivery   *)
(* and that nothing is dropped, for any number of schemas, rules and rows  *)
(* and any capacity of the channel.                                        *)
(***************************************************************************)
EXTENDS IssuePipeline, Integers, TLAPS

-----------------------------------------------------------------------------
(* Type correctness. *)

\* Inside RunRules the call is one of apply's calls, and a request that waits
\* for room in the channel belongs to a row that is left.
MainInv ==
    /\ main \in {"rule", "row", "send"} => call \in Calls
    /\ main = "send" => left > 0

\* The uploader holds an issue exactly while it sends.
HandInv == \A k \in Calls : uploader[k] = "sending" <=> hand[k] # 0

\* A call that has not begun has no uploader.
CallInv ==
    \A k \in Calls :
        k > call \/ (k = call /\ main \notin {"rule", "row", "send"})
            => uploader[k] = "none"

TypeInv == TypeOK /\ MainInv /\ HandInv /\ CallInv

LEMMA EmptySeq == <<>> \in Seq(Issue)
  OBVIOUS

LEMMA InitType == Init => TypeInv
  BY PipelineAssumption
     DEF Init, TypeInv, TypeOK, MainInv, HandInv, CallInv, Calls, MainStates, WatchdogStates,
         UploaderStates, StreamStates

LEMMA NextType ==
  ASSUME TypeInv, [Next]_vars
  PROVE  TypeInv'
<1> USE PipelineAssumption
    DEF TypeInv, TypeOK, MainInv, HandInv, CallInv,
        mainVars, tickerVars, uploaderVars, streamVars
<1>1. CASE RunRulesStart
  <2>1. call \in Calls
    BY <1>1 DEF RunRulesStart, Calls
  <2>2. 0 \in 0..NRules
    OBVIOUS
  <2>3. TypeOK'
    BY <1>1, <2>1, <2>2
       DEF RunRulesStart, MainStates, WatchdogStates, UploaderStates
  <2>4. MainInv' /\ HandInv'
    BY <1>1, <2>1 DEF RunRulesStart, MainStates
  <2>5. CallInv'
    BY <1>1, <2>1 DEF RunRulesStart, MainStates, Calls
  <2> QED
    BY <2>3, <2>4, <2>5
<1>2. CASE ApplyReturns
  BY <1>2 DEF ApplyReturns, MainStates
<1>3. CASE TakeRule
  BY <1>3 DEF TakeRule, MainStates
<1>4. ASSUME NEW failed \in BOOLEAN, Return(failed), call \in Calls
      PROVE  TypeInv'
  <2>1. call + 1 \in 1..(NCalls + 1)
    BY <1>4 DEF Calls
  <2> QED
    BY <1>4, <2>1 DEF Return, MainStates
<1>5. CASE RowsDone
  BY <1>5 DEF RowsDone, MainStates
<1>6. CASE PrepareIssue
  BY <1>6 DEF PrepareIssue, MainStates
<1>7. CASE PutIssue
  BY <1>7 DEF PutIssue, MainStates
<1>8. CASE Unlock
  BY <1>8 DEF Unlock, MainStates
<1>9. ASSUME NEW name \in Closers, CloseOne(name)
      PROVE  TypeInv'
  <2>1. CASE name = "grpc conn"
    <3>1. wire' = <<>> /\ stream' = "broken"
      BY <1>9, <2>1 DEF CloseOne
    <3>2. closers' \subseteq Closers
      BY <1>9 DEF CloseOne
    <3>3. Len(wire') = 0 /\ 0 <= Window
      BY <3>1
    <3> QED
      BY <1>9, <3>1, <3>2, <3>3, EmptySeq DEF CloseOne, StreamStates
  <2>2. CASE name # "grpc conn"
    BY <1>9, <2>2 DEF CloseOne, StreamStates
  <2> QED
    BY <2>1, <2>2
<1>10. CASE Exit
  BY <1>10 DEF Exit, MainStates
<1>11. ASSUME NEW k \in Calls, UploadIssueFuncStart(k)
       PROVE  TypeInv'
  BY <1>11 DEF UploadIssueFuncStart, UploaderStates
<1>12. ASSUME NEW k \in Calls, TakeIssue(k)
       PROVE  TypeInv'
  BY <1>12 DEF TakeIssue, UploaderStates
<1>13. ASSUME NEW k \in Calls, SendIssue(k)
       PROVE  TypeInv'
  <2>1. [call |-> k, num |-> hand[k]] \in Issue
    BY <1>13 DEF SendIssue, Issue
  <2>2. wire' \in Seq(Issue)
    BY <1>13, <2>1 DEF SendIssue
  <2> QED
    BY <1>13, <2>2 DEF SendIssue, UploaderStates
<1>14. ASSUME NEW k \in Calls, SendFails(k)
       PROVE  TypeInv'
  BY <1>14 DEF SendFails, UploaderStates, StreamStates
<1>15. ASSUME NEW k \in Calls, IssueStreamClose(k)
       PROVE  TypeInv'
  BY <1>15 DEF IssueStreamClose, UploaderStates, StreamStates
<1>16. ASSUME NEW k \in Calls, Watchdog(k)
       PROVE  TypeInv'
  <2>1. CASE WatchdogTimeout(k)
    BY <2>1 DEF WatchdogTimeout, WatchdogStates
  <2>2. CASE WatchdogCancel(k)
    BY <2>2 DEF WatchdogCancel, WatchdogStates
  <2>3. CASE WatchdogEnds(k)
    BY <2>3 DEF WatchdogEnds, WatchdogStates
  <2> QED
    BY <1>16, <2>1, <2>2, <2>3 DEF Watchdog
<1>17. ASSUME NEW k \in Calls, TickerFires(k)
       PROVE  TypeInv'
  BY <1>17 DEF TickerFires
<1>18. CASE TransportBreaks
  BY <1>18 DEF TransportBreaks, StreamStates
<1>19. CASE ServerReads
  <2>1. Head(wire) \in Issue /\ Tail(wire) \in Seq(Issue)
    BY <1>19 DEF ServerReads
  <2>2. Head(wire).call \in Calls /\ Head(wire).num \in Nat \ {0}
    BY <2>1 DEF Issue
  <2> QED
    BY <1>19, <2>1, <2>2 DEF ServerReads
<1>20. CASE UNCHANGED vars
  BY <1>20 DEF vars
<1>22. CASE ApplyFails
  BY <1>22 DEF ApplyFails, MainStates
<1>21. CASE NoMoreRules \/ RuleFails \/ StopReporting
  BY <1>4, <1>21 DEF NoMoreRules, RuleFails, StopReporting
<1> QED
  BY <1>1, <1>2, <1>3, <1>5, <1>6, <1>7, <1>8, <1>9, <1>10, <1>11, <1>12,
     <1>13, <1>14, <1>15, <1>16, <1>17, <1>18, <1>19, <1>20, <1>21,
     <1>22
     DEF Next, Main, Uploader

\* Whatever the interleaving, the variables keep their types; in particular the
\* channel never holds more than its capacity, and what travels on the wire is an
\* issue of some call.
THEOREM TypeCorrect == Spec => []TypeOK
<1>1. TypeInv => TypeOK
  BY DEF TypeInv
<1> QED
  BY InitType, NextType, <1>1, PTL DEF Spec

-----------------------------------------------------------------------------
(* The order of delivery. *)

\* The state that OrderInv is about, and its types.
orderVars == <<produced, queue, hand, stream, wire, received>>

LEMMA OrderTypes ==
  ASSUME TypeInv
  PROVE  /\ produced \in [Calls -> Nat]
         /\ queue \in [Calls -> Seq(Nat \ {0})]
         /\ hand \in [Calls -> Nat]
         /\ received \in [Calls -> Seq(Nat \ {0})]
         /\ wire \in Seq(Issue)
         /\ \A i \in 1..Len(wire) :
               wire[i].call \in Calls /\ wire[i].num \in Nat \ {0}
         /\ Accepted \in [Calls -> Int]
         /\ \A k \in Calls : Len(queue[k]) \in Nat /\ Len(received[k]) \in Nat
<1>1. wire \in Seq(Issue)
  BY DEF TypeInv, TypeOK
<1>2. \A i \in 1..Len(wire) : wire[i] \in Issue
  BY <1>1
<1>3. \A i \in 1..Len(wire) : wire[i].call \in Calls /\ wire[i].num \in Nat \ {0}
  BY <1>2 DEF Issue
<1>4. /\ produced \in [Calls -> Nat]
      /\ queue \in [Calls -> Seq(Nat \ {0})]
      /\ hand \in [Calls -> Nat]
      /\ received \in [Calls -> Seq(Nat \ {0})]
  BY DEF TypeInv, TypeOK
<1>5. \A k \in Calls : Len(queue[k]) \in Nat /\ Len(received[k]) \in Nat
  BY <1>4
<1>6. \A k \in Calls : produced[k] \in Nat /\ hand[k] \in Nat
  BY <1>4
<1>7. Accepted \in [Calls -> Int]
  BY <1>5, <1>6 DEF Accepted
<1> QED
  BY <1>1, <1>3, <1>4, <1>5, <1>7

LEMMA AcceptedBound ==
  ASSUME TypeInv, OrderInv, NEW k \in Calls
  PROVE  Accepted[k] \in Int /\ produced[k] \in Nat /\ Accepted[k] <= produced[k]
  BY OrderTypes DEF OrderInv, QueueInv, Accepted

LEMMA InitOrder == Init => OrderInv
  BY PipelineAssumption
     DEF Init, OrderInv, QueueInv, ReadInv, WireSorted, WireUnread, WireComplete,
         WireEmpty, Accepted

LEMMA SameOrder ==
  ASSUME OrderInv, UNCHANGED orderVars
  PROVE  OrderInv'
  BY DEF OrderInv, QueueInv, ReadInv, WireSorted, WireUnread, WireComplete,
         WireEmpty, Accepted, orderVars

\* A step that only breaks the stream, or closes it for sending.
LEMMA StreamOrder ==
  ASSUME OrderInv, UNCHANGED <<produced, queue, hand, received>>,
         \/ stream' = "broken" /\ wire' = <<>>
         \/ stream = "open" /\ stream' = "closed" /\ UNCHANGED wire
  PROVE  OrderInv'
  BY DEF OrderInv, QueueInv, ReadInv, WireSorted, WireUnread, WireComplete,
         WireEmpty, Accepted

\* What is read and what is on the wire depend on the two goroutines only
\* through Accepted.
LEMMA SameAccepted ==
  ASSUME OrderInv, QueueInv', UNCHANGED <<stream, wire, received, Accepted>>
  PROVE  OrderInv'
  BY DEF OrderInv, ReadInv, WireSorted, WireUnread, WireComplete, WireEmpty

LEMMA PutIssueOrder ==
  ASSUME TypeInv, OrderInv, PutIssue
  PROVE  OrderInv'
<1>1. /\ call \in Calls
      /\ queue' = [queue EXCEPT ![call] = Append(@, produced[call] + 1)]
      /\ produced' = [produced EXCEPT ![call] = @ + 1]
      /\ UNCHANGED <<hand, stream, wire, received>>
  BY DEF PutIssue, TypeInv, MainInv, uploaderVars, streamVars
<1>2. QueueInv'
  BY <1>1, OrderTypes DEF OrderInv, QueueInv
<1>3. Accepted' = Accepted
  BY <1>1, OrderTypes DEF Accepted
<1> QED
  BY <1>1, <1>2, <1>3, SameAccepted

LEMMA TakeIssueOrder ==
  ASSUME TypeInv, OrderInv, NEW k \in Calls, TakeIssue(k)
  PROVE  OrderInv'
<1>1. /\ hand' = [hand EXCEPT ![k] = Head(queue[k])]
      /\ queue' = [queue EXCEPT ![k] = Tail(@)]
      /\ queue[k] # <<>> /\ hand[k] = 0
      /\ UNCHANGED <<produced, stream, wire, received>>
  BY DEF TakeIssue, TypeInv, HandInv, streamVars
<1>2. /\ queue[k] \in Seq(Nat \ {0}) /\ Len(queue[k]) \in Nat \ {0}
      /\ produced[k] \in Nat
  BY <1>1, OrderTypes
<1>3. /\ Len(queue[k]) <= produced[k]
      /\ \A i \in 1..Len(queue[k]) :
            queue[k][i] = produced[k] - Len(queue[k]) + i
  BY DEF OrderInv, QueueInv
<1>4. Head(queue[k]) = produced[k] - Len(queue[k]) + 1
  BY <1>2, <1>3
<1>5. /\ Len(Tail(queue[k])) = Len(queue[k]) - 1
      /\ \A i \in 1..Len(Tail(queue[k])) : Tail(queue[k])[i] = queue[k][i + 1]
  BY <1>2
<1>6. \A i \in 1..Len(Tail(queue[k])) :
        Tail(queue[k])[i] = produced[k] - Len(Tail(queue[k])) + i
  <2> TAKE i \in 1..Len(Tail(queue[k]))
  <2>1. i \in Nat /\ i + 1 \in 1..Len(queue[k])
    BY <1>2, <1>5
  <2>2. queue[k][i + 1] = produced[k] - Len(queue[k]) + (i + 1)
    BY <1>3, <2>1
  <2>3. produced[k] - Len(queue[k]) + (i + 1) = produced[k] - Len(Tail(queue[k])) + i
    <3>1. \A a, b, c \in Int : a - b + (c + 1) = a - (b - 1) + c
      OBVIOUS
    <3>2. Len(Tail(queue[k])) = Len(queue[k]) - 1
      BY <1>5
    <3>3. produced[k] \in Int /\ Len(queue[k]) \in Int /\ i \in Int
      BY <1>2, <2>1
    <3> QED
      BY <3>1, <3>2, <3>3
  <2> QED
    BY <1>5, <2>2, <2>3
<1>7. /\ queue'[k] = Tail(queue[k]) /\ hand'[k] = Head(queue[k])
      /\ \A j \in Calls \ {k} : queue'[j] = queue[j] /\ hand'[j] = hand[j]
  BY <1>1, OrderTypes
<1>8. QueueInv'
  <2> SUFFICES ASSUME NEW j \in Calls
               PROVE  /\ Len(queue'[j]) <= produced[j]
                      /\ \A i \in 1..Len(queue'[j]) :
                            queue'[j][i] = produced[j] - Len(queue'[j]) + i
                      /\ hand'[j] # 0 => hand'[j] = produced[j] - Len(queue'[j])
    BY <1>1 DEF QueueInv
  <2>1. CASE j = k
    <3>1. /\ Len(Tail(queue[k])) <= produced[k]
          /\ Head(queue[k]) = produced[k] - Len(Tail(queue[k]))
      BY <1>2, <1>3, <1>4, <1>5
    <3> QED
      BY <1>6, <1>7, <2>1, <3>1
  <2>2. CASE j # k
    BY <1>7, <2>2 DEF OrderInv, QueueInv
  <2> QED
    BY <2>1, <2>2
<1>9. Accepted' = Accepted
  BY <1>1, <1>2, <1>3, <1>4, <1>5, <1>7 DEF Accepted
<1> QED
  BY <1>1, <1>8, <1>9, SameAccepted

\* The uploader is done with the issue in its hand.
LEMMA HandDone ==
  ASSUME TypeInv, OrderInv, NEW k \in Calls, uploader[k] = "sending",
         hand' = [hand EXCEPT ![k] = 0],
         UNCHANGED <<produced, queue, received>>
  PROVE  /\ hand[k] \in Nat \ {0}
         /\ Accepted[k] = hand[k] - 1
         /\ Accepted' = [Accepted EXCEPT ![k] = hand[k]]
         /\ QueueInv'
         /\ ReadInv'
<1>1. hand[k] \in Nat \ {0}
  BY OrderTypes DEF TypeInv, HandInv
<1>2. hand[k] = produced[k] - Len(queue[k])
  BY <1>1 DEF OrderInv, QueueInv
<1>3. Accepted[k] = hand[k] - 1
  BY <1>1 DEF Accepted
<1>4. Accepted' = [Accepted EXCEPT ![k] = hand[k]]
  BY <1>1, <1>2, OrderTypes DEF Accepted
<1>5. QueueInv'
  BY <1>1, <1>2, OrderTypes DEF OrderInv, QueueInv
<1>6. ReadInv'
  BY <1>1, <1>3, <1>4, OrderTypes DEF OrderInv, ReadInv
<1> QED
  BY <1>1, <1>3, <1>4, <1>5, <1>6

LEMMA SendFailsOrder ==
  ASSUME TypeInv, OrderInv, NEW k \in Calls, SendFails(k)
  PROVE  OrderInv'
<1>1. /\ hand' = [hand EXCEPT ![k] = 0] /\ uploader[k] = "sending"
      /\ stream' = "broken" /\ wire' = <<>>
      /\ UNCHANGED <<produced, queue, received>>
  BY DEF SendFails
<1>2. QueueInv' /\ ReadInv'
  BY <1>1, HandDone
<1>3. WireSorted' /\ WireUnread' /\ WireComplete' /\ WireEmpty'
  BY <1>1 DEF WireSorted, WireUnread, WireComplete, WireEmpty
<1> QED
  BY <1>2, <1>3 DEF OrderInv

LEMMA SendIssueOrder ==
  ASSUME TypeInv, OrderInv, NEW k \in Calls, SendIssue(k)
  PROVE  OrderInv'
<1> DEFINE issue == [call |-> k, num |-> hand[k]]
<1>1. /\ hand' = [hand EXCEPT ![k] = 0] /\ uploader[k] = "sending"
      /\ stream \in {"nil", "open"}
      /\ wire' = IF stream = "open" THEN Append(wire, issue) ELSE wire
      /\ UNCHANGED <<produced, queue, stream, received>>
  BY DEF SendIssue
<1>2. /\ hand[k] \in Nat \ {0} /\ Accepted[k] = hand[k] - 1
      /\ Accepted' = [Accepted EXCEPT ![k] = hand[k]]
      /\ QueueInv' /\ ReadInv'
  BY <1>1, HandDone
<1>3. CASE stream = "nil"
  BY <1>1, <1>2, <1>3
     DEF OrderInv, WireSorted, WireUnread, WireComplete, WireEmpty
<1>4. CASE stream = "open"
  <2>1. /\ Len(wire') = Len(wire) + 1 /\ Len(wire) \in Nat
        /\ wire'[Len(wire) + 1] = issue
        /\ \A i \in 1..Len(wire) : wire'[i] = wire[i]
    BY <1>1, <1>4, OrderTypes
  <2>2. WireSorted'
    <3> SUFFICES ASSUME NEW i \in 1..Len(wire'), NEW j \in 1..Len(wire'),
                        i < j, wire'[i].call = wire'[j].call
                 PROVE  wire'[i].num < wire'[j].num
      BY DEF WireSorted
    <3>1. i \in 1..Len(wire) /\ wire'[i] = wire[i]
      BY <2>1
    <3>2. CASE j \in 1..Len(wire)
      BY <2>1, <3>1, <3>2 DEF OrderInv, WireSorted
    <3>3. CASE j = Len(wire) + 1
      <4>1. wire[i].call = k /\ wire'[j].num = hand[k]
        BY <2>1, <3>1, <3>3
      <4>2. wire[i].num \in Nat /\ wire[i].num <= Accepted[k]
        BY <3>1, <4>1, OrderTypes DEF OrderInv, WireUnread
      <4> QED
        BY <1>2, <3>1, <4>1, <4>2
    <3> QED
      BY <2>1, <3>2, <3>3
  <2>3. WireUnread'
    <3> SUFFICES ASSUME NEW i \in 1..Len(wire')
                 PROVE  /\ Len(received[wire'[i].call]) < wire'[i].num
                        /\ wire'[i].num <= Accepted'[wire'[i].call]
      BY <1>1 DEF WireUnread
    <3>1. CASE i \in 1..Len(wire)
      <4>1. /\ wire'[i] = wire[i] /\ wire[i].call \in Calls /\ wire[i].num \in Nat
            /\ Len(received[wire[i].call]) < wire[i].num
            /\ wire[i].num <= Accepted[wire[i].call]
        BY <2>1, <3>1, OrderTypes DEF OrderInv, WireUnread
      <4> QED
        BY <1>2, <4>1, OrderTypes
    <3>2. CASE i = Len(wire) + 1
      <4>1. wire'[i].call = k /\ wire'[i].num = hand[k]
        BY <2>1, <3>2
      <4>2. Len(received[k]) \in Nat /\ Len(received[k]) <= hand[k] - 1
        BY <1>2, OrderTypes DEF OrderInv, ReadInv
      <4> QED
        BY <1>2, <4>1, <4>2, OrderTypes
    <3> QED
      BY <2>1, <3>1, <3>2
  <2>4. WireComplete'
    <3> SUFFICES ASSUME NEW j \in Calls,
                        NEW n \in (Len(received[j]) + 1)..Accepted'[j]
                 PROVE  \E i \in 1..Len(wire') : wire'[i].call = j /\ wire'[i].num = n
      BY <1>1 DEF WireComplete
    <3>1. CASE j = k /\ n = hand[k]
      BY <2>1, <3>1
    <3>2. CASE ~(j = k /\ n = hand[k])
      <4>1. n \in (Len(received[j]) + 1)..Accepted[j]
        BY <1>2, <3>2, OrderTypes
      <4>2. PICK i \in 1..Len(wire) : wire[i].call = j /\ wire[i].num = n
        BY <1>4, <4>1 DEF OrderInv, WireComplete
      <4>3. i \in 1..Len(wire') /\ wire'[i] = wire[i]
        BY <2>1
      <4> QED
        BY <4>2, <4>3
    <3> QED
      BY <3>1, <3>2
  <2> QED
    BY <1>1, <1>2, <1>4, <2>2, <2>3, <2>4 DEF OrderInv, WireEmpty
<1> QED
  BY <1>1, <1>3, <1>4

\* The head of the wire is the next issue that the server wants of its call.
LEMMA HeadIsNext ==
  ASSUME TypeInv, OrderInv, wire # <<>>
  PROVE  /\ Len(wire) \in Nat \ {0}
         /\ wire[1].call \in Calls
         /\ wire[1].num = Len(received[wire[1].call]) + 1
         /\ wire[1].num <= Accepted[wire[1].call]
<1> DEFINE k == wire[1].call
           n == wire[1].num
<1>1. Len(wire) \in Nat \ {0}
  BY OrderTypes
<1>2. k \in Calls /\ n \in Nat \ {0} /\ Len(received[k]) \in Nat /\ Accepted[k] \in Int
  BY <1>1, OrderTypes
<1>3. Len(received[k]) < n /\ n <= Accepted[k]
  BY <1>1 DEF OrderInv, WireUnread
<1>4. stream \in {"open", "closed"}
  BY DEF OrderInv, WireEmpty, TypeInv, TypeOK, StreamStates
<1>5. PICK i \in 1..Len(wire) : wire[i].call = k /\ wire[i].num = Len(received[k]) + 1
  <2>1. Len(received[k]) + 1 \in (Len(received[k]) + 1)..Accepted[k]
    BY <1>2, <1>3
  <2> QED
    BY <1>2, <1>4, <2>1 DEF OrderInv, WireComplete
<1>6. i # 1 => n < wire[i].num
  BY <1>1, <1>5 DEF OrderInv, WireSorted
<1> QED
  BY <1>1, <1>2, <1>3, <1>5, <1>6

LEMMA ServerReadsOrder ==
  ASSUME TypeInv, OrderInv, ServerReads
  PROVE  OrderInv'
<1> DEFINE k == wire[1].call
           n == wire[1].num
<1>1. /\ wire # <<>> /\ wire' = Tail(wire)
      /\ received' = [received EXCEPT ![k] = Append(@, n)]
      /\ UNCHANGED <<produced, queue, hand, stream>>
  <2>1. wire # <<>> /\ Head(wire) = wire[1]
    BY OrderTypes DEF ServerReads
  <2> QED
    BY <2>1 DEF ServerReads, uploaderVars
<1>2. /\ Len(wire) \in Nat \ {0} /\ k \in Calls
      /\ n = Len(received[k]) + 1 /\ n <= Accepted[k]
  BY <1>1, HeadIsNext
<1>3. /\ Len(wire') = Len(wire) - 1
      /\ \A i \in 1..Len(wire') : wire'[i] = wire[i + 1]
  BY <1>1, <1>2, OrderTypes
<1>4. Accepted' = Accepted
  BY <1>1 DEF Accepted
<1> HIDE DEF k, n
<1>5. /\ received[k] \in Seq(Nat \ {0}) /\ Len(received[k]) \in Nat
      /\ received'[k] = Append(received[k], n)
      /\ \A j \in Calls \ {k} : received'[j] = received[j]
  BY <1>1, <1>2, OrderTypes
<1>6. /\ Len(received'[k]) = n /\ received'[k][n] = n
      /\ \A m \in 1..Len(received[k]) : received'[k][m] = received[k][m]
  BY <1>2, <1>5
<1>7. ReadInv'
  <2> SUFFICES ASSUME NEW j \in Calls
               PROVE  /\ Len(received'[j]) <= Accepted[j]
                      /\ \A m \in 1..Len(received'[j]) : received'[j][m] = m
    BY <1>4 DEF ReadInv
  <2>1. CASE j = k
    <3>1. \A m \in 1..Len(received[k]) : received[k][m] = m
      BY <1>2 DEF OrderInv, ReadInv
    <3>2. ASSUME NEW m \in 1..n
          PROVE  received'[k][m] = m
      <4>1. m \in 1..Len(received[k]) \/ m = n
        BY <1>2, <1>5
      <4> QED
        BY <1>6, <3>1, <4>1
    <3> QED
      BY <1>2, <1>6, <2>1, <3>2
  <2>2. CASE j # k
    BY <1>5, <2>2 DEF OrderInv, ReadInv
  <2> QED
    BY <2>1, <2>2
<1>8. QueueInv'
  BY <1>1 DEF OrderInv, QueueInv
<1>9. WireSorted'
  <2> SUFFICES ASSUME NEW i \in 1..Len(wire'), NEW j \in 1..Len(wire'),
                      i < j, wire'[i].call = wire'[j].call
               PROVE  wire'[i].num < wire'[j].num
    BY DEF WireSorted
  <2>1. /\ i + 1 \in 1..Len(wire) /\ j + 1 \in 1..Len(wire) /\ i + 1 < j + 1
        /\ wire'[i] = wire[i + 1] /\ wire'[j] = wire[j + 1]
    BY <1>2, <1>3
  <2> QED
    BY <2>1 DEF OrderInv, WireSorted
<1>10. WireUnread'
  <2> SUFFICES ASSUME NEW i \in 1..Len(wire')
               PROVE  /\ Len(received'[wire'[i].call]) < wire'[i].num
                      /\ wire'[i].num <= Accepted[wire'[i].call]
    BY <1>4 DEF WireUnread
  <2>1. i + 1 \in 1..Len(wire) /\ wire'[i] = wire[i + 1] /\ i + 1 > 1
    BY <1>2, <1>3
  <2>2. /\ wire[i + 1].call \in Calls
        /\ Len(received[wire[i + 1].call]) < wire[i + 1].num
        /\ wire[i + 1].num <= Accepted[wire[i + 1].call]
    BY <2>1, OrderTypes DEF OrderInv, WireUnread
  <2>3. CASE wire[i + 1].call = k
    <3>1. n < wire[i + 1].num
      BY <1>2, <2>1, <2>3 DEF OrderInv, WireSorted, k, n
    <3> QED
      BY <1>6, <2>1, <2>2, <2>3, <3>1
  <2>4. CASE wire[i + 1].call # k
    BY <1>5, <2>1, <2>2, <2>4
  <2> QED
    BY <2>3, <2>4
<1>11. WireComplete'
  <2> SUFFICES ASSUME stream \in {"open", "closed"}, NEW j \in Calls,
                      NEW m \in (Len(received'[j]) + 1)..Accepted[j]
               PROVE  \E i \in 1..Len(wire') : wire'[i].call = j /\ wire'[i].num = m
    BY <1>1, <1>4 DEF WireComplete
  <2>1. m \in (Len(received[j]) + 1)..Accepted[j] /\ ~(j = k /\ m = n)
    <3>1. CASE j = k
      <4>1. Len(received[k]) \in Nat /\ Accepted[k] \in Int
        BY <3>1, OrderTypes
      <4>2. Len(received'[k]) = Len(received[k]) + 1 /\ n = Len(received[k]) + 1
        BY <1>2, <1>6
      <4> QED
        BY <3>1, <4>1, <4>2
    <3>2. CASE j # k
      BY <1>5, <3>2
    <3> QED
      BY <3>1, <3>2
  <2>2. PICK i \in 1..Len(wire) : wire[i].call = j /\ wire[i].num = m
    BY <2>1 DEF OrderInv, WireComplete
  <2>3. i # 1
    BY <2>1, <2>2 DEF k, n
  <2>4. i - 1 \in 1..Len(wire') /\ wire'[i - 1] = wire[(i - 1) + 1]
    BY <1>2, <1>3, <2>3
  <2>5. wire'[i - 1] = wire[i]
    BY <2>4
  <2> QED
    BY <2>2, <2>4, <2>5
<1>12. WireEmpty'
  BY <1>1 DEF OrderInv, WireEmpty
<1> QED
  BY <1>7, <1>8, <1>9, <1>10, <1>11, <1>12 DEF OrderInv

\* What the server reads, and in which order, is the business of five actions;
\* all the others leave it alone.
LEMMA NextOrder ==
  ASSUME TypeInv, OrderInv, [Next]_vars
  PROVE  OrderInv'
<1> USE DEF orderVars, mainVars, tickerVars, uploaderVars, streamVars
<1>1. CASE PutIssue
  BY <1>1, PutIssueOrder
<1>2. ASSUME NEW k \in Calls, Uploader(k)
      PROVE  OrderInv'
  <2>1. CASE UploadIssueFuncStart(k)
    BY <2>1, SameOrder DEF UploadIssueFuncStart
  <2>2. CASE TakeIssue(k) \/ SendIssue(k) \/ SendFails(k)
    BY <2>2, TakeIssueOrder, SendIssueOrder, SendFailsOrder
  <2>3. CASE IssueStreamClose(k)
    BY <2>3, SameOrder, StreamOrder DEF IssueStreamClose
  <2> QED
    BY <1>2, <2>1, <2>2, <2>3 DEF Uploader
<1>3. ASSUME NEW name \in Closers, CloseOne(name)
      PROVE  OrderInv'
  <2>1. UNCHANGED <<produced, queue, hand, received>>
    BY <1>3 DEF CloseOne
  <2>2. CASE stream' = "broken" /\ wire' = <<>>
    BY <2>1, <2>2, StreamOrder
  <2>3. CASE stream = "open" /\ stream' = "closed" /\ UNCHANGED wire
    BY <2>1, <2>3, StreamOrder
  <2>4. CASE UNCHANGED <<stream, wire>>
    BY <2>1, <2>4, SameOrder
  <2> QED
    BY <1>3, <2>2, <2>3, <2>4 DEF CloseOne
<1>4. CASE TransportBreaks
  BY <1>4, StreamOrder DEF TransportBreaks
<1>5. CASE ServerReads
  BY <1>5, ServerReadsOrder
<1>6. ASSUME NEW k \in Calls, Watchdog(k) \/ TickerFires(k)
      PROVE  OrderInv'
  BY <1>6, SameOrder
     DEF Watchdog, WatchdogTimeout, WatchdogCancel, WatchdogEnds, TickerFires
<1>7. CASE NoMoreRules \/ RuleFails \/ StopReporting
  BY <1>7, SameOrder DEF NoMoreRules, RuleFails, StopReporting, Return
<1>8. CASE \/ RunRulesStart \/ ApplyReturns \/ ApplyFails \/ TakeRule \/ RowsDone
           \/ PrepareIssue \/ Unlock \/ Exit
  <2>1. UNCHANGED <<produced, queue, hand, streamVars>>
    BY <1>8 DEF RunRulesStart, ApplyReturns, ApplyFails, TakeRule, RowsDone, PrepareIssue,
                Unlock, Exit
  <2> QED
    BY <2>1, SameOrder
<1>9. CASE UNCHANGED vars
  BY <1>9, SameOrder DEF vars
<1> QED
  BY <1>1, <1>2, <1>3, <1>4, <1>5, <1>6, <1>7, <1>8, <1>9 DEF Next, Main

LEMMA OrderInvariant == Spec => [](TypeInv /\ OrderInv)
<1>1. Init => TypeInv /\ OrderInv
  BY InitType, InitOrder
<1>2. TypeInv /\ OrderInv /\ [Next]_vars => TypeInv' /\ OrderInv'
  BY NextType, NextOrder
<1> QED
  BY <1>1, <1>2, PTL DEF Spec

\* For every number of schemas, rules and rows, every capacity and whatever the
\* environment does: the server has, of each call of RunRules, a prefix of what
\* the call produced, in that order.
THEOREM DeliveredInOrder == Spec => []InOrder
<1>1. TypeInv /\ OrderInv => InOrder
  <2> SUFFICES ASSUME TypeInv, OrderInv, NEW k \in Calls
               PROVE  Len(received[k]) <= produced[k]
    BY DEF InOrder, OrderInv, ReadInv
  <2> QED
    BY AcceptedBound, OrderTypes DEF OrderInv, ReadInv
<1> QED
  BY <1>1, OrderInvariant, PTL

\* Between the goroutine that runs the rules and the server nothing is lost as
\* long as the stream is open and the uploader has not gone, whatever the
\* capacity of the channel and however many other calls share the stream.
THEOREM NothingIsDropped == Spec => []NothingDropped
<1>1. TypeInv /\ OrderInv => NothingDropped
  <2> SUFFICES ASSUME TypeInv, OrderInv, NEW k \in Calls, stream = "open",
                      NEW n \in 1..produced[k]
               PROVE  n \in ReadOf(k) \cup OnWire(k) \cup InQueue(k) \cup {hand[k]}
    BY DEF NothingDropped
  <2>1. CASE n <= Len(received[k])
    <3>1. n \in DOMAIN received[k] /\ received[k][n] = n
      BY <2>1, OrderTypes DEF OrderInv, ReadInv
    <3> QED
      BY <3>1 DEF ReadOf
  <2>2. CASE n > Len(received[k]) /\ n <= Accepted[k]
    <3>1. PICK i \in 1..Len(wire) : wire[i].call = k /\ wire[i].num = n
      <4>1. n \in (Len(received[k]) + 1)..Accepted[k]
        BY <2>2, OrderTypes
      <4> QED
        BY <4>1 DEF OrderInv, WireComplete
    <3>2. i \in DOMAIN wire
      BY OrderTypes
    <3> QED
      BY <3>1, <3>2 DEF OnWire
  <2>3. CASE n > Accepted[k] /\ n # hand[k]
    <3> DEFINE i == n - (produced[k] - Len(queue[k]))
    <3>1. i \in 1..Len(queue[k])
      BY <2>3, OrderTypes DEF OrderInv, QueueInv, Accepted
    <3>2. queue[k][i] = n
      BY <3>1, OrderTypes DEF OrderInv, QueueInv
    <3>3. i \in DOMAIN queue[k]
      BY <3>1, OrderTypes
    <3> QED
      BY <3>2, <3>3 DEF InQueue
  <2> QED
    BY <2>1, <2>2, <2>3, OrderTypes
<1> QED
  BY <1>1, OrderInvariant, PTL

\* Every step of the pipeline is a step of the abstract delivery, or leaves what
\* the abstract specification sees unchanged.
THEOREM ImplementsDelivery == Spec => DeliverySpec
<1> DEFINE current == IF main \in {"unlock", "close", "exited"} THEN NCalls + 1 ELSE call
<1> USE DEF Delivery!Calls, Calls
<1>1. Init => Delivery!Init
  BY DEF Init, Delivery!Init
<1>2. TypeInv /\ OrderInv /\ [Next]_vars => [Delivery!Next]_(Delivery!vars)
  <2> SUFFICES ASSUME TypeInv, OrderInv, [Next]_vars
               PROVE  Delivery!Next \/ UNCHANGED Delivery!vars
    OBVIOUS
  <2> USE PipelineAssumption DEF mainVars, tickerVars, uploaderVars, streamVars
  <2>1. CASE PutIssue
    <3>1. call \in Calls
      BY <2>1 DEF PutIssue, TypeInv, MainInv
    <3>2. Delivery!Produce
      BY <2>1, <3>1 DEF PutIssue, Delivery!Produce
    <3> QED
      BY <3>2 DEF Delivery!Next
  <2>2. CASE ServerReads
    <3> DEFINE k == wire[1].call
    <3>1. /\ k \in Calls /\ Len(received[k]) < produced[k]
          /\ received' = [received EXCEPT ![k] = Append(@, Len(@) + 1)]
      <4>1. wire # <<>> /\ Head(wire) = wire[1]
        BY <2>2, OrderTypes DEF ServerReads
      <4>2. /\ k \in Calls /\ wire[1].num = Len(received[k]) + 1
            /\ wire[1].num <= Accepted[k]
        BY <4>1, HeadIsNext
      <4> HIDE DEF k
      <4>3. Accepted[k] \in Int /\ produced[k] \in Nat /\ Accepted[k] <= produced[k]
        BY <4>2, AcceptedBound
      <4>4. Len(received[k]) \in Nat /\ received \in [Calls -> Seq(Nat \ {0})]
        BY <4>2, OrderTypes
      <4>5. received' = [received EXCEPT ![k] = Append(@, wire[1].num)]
        BY <2>2, <4>1 DEF ServerReads, k
      <4> QED
        BY <4>2, <4>3, <4>4, <4>5
    <3>2. UNCHANGED <<main, call, produced>>
      BY <2>2 DEF ServerReads
    <3>3. Delivery!Deliver(k)
      BY <3>1, <3>2 DEF Delivery!Deliver
    <3> QED
      BY <3>1, <3>3 DEF Delivery!Next
  <2>3. CASE NoMoreRules \/ RuleFails \/ StopReporting
    <3>1. /\ call \in Calls /\ call' = call + 1 /\ main' \in {"next", "unlock"}
          /\ main \in {"rule", "row"} /\ UNCHANGED <<produced, received>>
      BY <2>3 DEF NoMoreRules, RuleFails, StopReporting, Return, TypeInv, MainInv
    <3>2. Delivery!NextCall
      BY <3>1 DEF Delivery!NextCall
    <3> QED
      BY <3>2 DEF Delivery!Next
  <2>4. CASE ApplyReturns \/ ApplyFails
    <3>1. call \in 1..(NCalls + 1)
      BY DEF TypeInv, TypeOK
    <3>2. /\ main = "next" /\ main' = "unlock" /\ UNCHANGED <<produced, received>>
      BY <2>4 DEF ApplyReturns, ApplyFails
    <3>3. CASE call \in 1..NCalls
      <4>1. Delivery!NextCall
        BY <3>2, <3>3 DEF Delivery!NextCall
      <4> QED
        BY <4>1 DEF Delivery!Next
    <3>4. CASE call = NCalls + 1
      BY <3>2, <3>4 DEF Delivery!vars
    <3> QED
      BY <3>1, <3>3, <3>4
  <2>5. CASE \/ RunRulesStart \/ TakeRule \/ RowsDone \/ PrepareIssue
             \/ Unlock \/ Exit \/ TransportBreaks \/ UNCHANGED vars
             \/ \E name \in Closers : CloseOne(name)
             \/ \E k \in Calls : Uploader(k) \/ Watchdog(k) \/ TickerFires(k)
    BY <2>5 DEF RunRulesStart, TakeRule, RowsDone, PrepareIssue, Unlock, Exit,
                TransportBreaks, vars, CloseOne, Uploader, UploadIssueFuncStart,
                TakeIssue, SendIssue, SendFails, IssueStreamClose, Watchdog,
                WatchdogTimeout, WatchdogCancel, WatchdogEnds, TickerFires,
                Delivery!vars
  <2> QED
    BY <2>1, <2>2, <2>3, <2>4, <2>5 DEF Next, Main
<1> QED
  BY <1>1, <1>2, OrderInvariant, PTL DEF Spec, DeliverySpec, Delivery!Spec

\* Once a call of RunRules waits in a channel whose reader has left, it waits for
\* ever: no step of any goroutine, timer or connection ends the wait.
THEOREM NothingEndsAHang == Spec => HangIsForever
<1>1. TypeInv /\ [Next]_vars => \A k \in Calls : Hung(k) => Hung(k)'
  <2> SUFFICES ASSUME TypeInv, [Next]_vars, NEW k \in Calls, Hung(k)
               PROVE  Hung(k)'
    OBVIOUS
  <2> USE DEF Hung, mainVars, tickerVars, uploaderVars, streamVars
  <2>1. ~Main
    BY DEF Main, RunRulesStart, ApplyReturns, ApplyFails, TakeRule, NoMoreRules,
           RuleFails, RowsDone, StopReporting, PrepareIssue, PutIssue, Unlock,
           CloseOne, Exit, TypeInv, TypeOK
  <2>2. ASSUME NEW j \in Calls, Uploader(j)
        PROVE  Hung(k)'
    BY <2>2 DEF Uploader, UploadIssueFuncStart, TakeIssue, SendIssue, SendFails,
                IssueStreamClose, TypeInv, TypeOK
  <2>3. ASSUME NEW j \in Calls, Watchdog(j) \/ TickerFires(j)
        PROVE  Hung(k)'
    BY <2>3 DEF Watchdog, WatchdogTimeout, WatchdogCancel, WatchdogEnds, TickerFires
  <2>4. CASE TransportBreaks \/ ServerReads \/ UNCHANGED vars
    BY <2>4 DEF TransportBreaks, ServerReads, vars
  <2> QED
    BY <2>1, <2>2, <2>3, <2>4 DEF Next
<1> QED
  BY <1>1, OrderInvariant, PTL DEF Spec, HangIsForever

\* An uploader that failed left a broken stream, one that closed was cancelled.
CauseInv ==
    \A k \in Calls : /\ uploader[k] = "failed" => stream = "broken"
                     /\ uploader[k] = "closed" => cancelled[k]

\* Whatever the sizes, RunRules can hang only after the watchdog cancelled it or
\* after the stream was lost or closed by the uploader of an earlier call.
THEOREM HangHasCause == Spec => []HangNeedsCause
<1>1. Init => CauseInv
  BY DEF Init, CauseInv
<1>2. TypeInv /\ CauseInv /\ [Next]_vars => CauseInv'
  <2> SUFFICES ASSUME TypeInv, CauseInv, [Next]_vars
               PROVE  CauseInv'
    OBVIOUS
  <2> USE DEF CauseInv, TypeInv, TypeOK, mainVars, tickerVars, uploaderVars,
              streamVars
  <2>1. CASE RunRulesStart \/ (\E failed \in BOOLEAN : Return(failed))
    BY <2>1 DEF RunRulesStart, Return
  <2>2. CASE \/ ApplyReturns \/ ApplyFails \/ TakeRule \/ RowsDone \/ PrepareIssue
             \/ PutIssue \/ Unlock \/ Exit
    BY <2>2 DEF ApplyReturns, ApplyFails, TakeRule, RowsDone, PrepareIssue,
                PutIssue, Unlock, Exit
  <2>3. ASSUME NEW name \in Closers, CloseOne(name)
        PROVE  CauseInv'
    BY <2>3 DEF CloseOne
  <2>4. ASSUME NEW j \in Calls, Uploader(j)
        PROVE  CauseInv'
    BY <2>4 DEF Uploader, UploadIssueFuncStart, TakeIssue, SendIssue, SendFails,
                IssueStreamClose
  <2>5. ASSUME NEW j \in Calls, Watchdog(j) \/ TickerFires(j)
        PROVE  CauseInv'
    BY <2>5 DEF Watchdog, WatchdogTimeout, WatchdogCancel, WatchdogEnds, TickerFires
  <2>6. CASE TransportBreaks \/ ServerReads \/ UNCHANGED vars
    BY <2>6 DEF TransportBreaks, ServerReads, vars
  <2> QED
    BY <2>1, <2>2, <2>3, <2>4, <2>5, <2>6
       DEF Next, Main, NoMoreRules, RuleFails, StopReporting
<1>3. CauseInv => HangNeedsCause
  BY DEF CauseInv, HangNeedsCause, Hung
<1> QED
  BY <1>1, <1>2, <1>3, OrderInvariant, PTL DEF Spec
=============================================================================
