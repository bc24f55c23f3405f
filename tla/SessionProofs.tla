---------------------------- MODULE SessionProofs ----------------------------
(***************************************************************************)
(* Proofs about Session, for any processes, tokens, commands and faults:   *)
(* whatever the processes do to the credentials file at the same time, a   *)
(* token in it is one that the server accepted, and an empty file is one   *)
(* that somebody has open; and commands that run one after the other find  *)
(* in it the session that the server last agreed to.                       *)
(***************************************************************************)
EXTENDS Session, TLAPS

-----------------------------------------------------------------------------
(* The inductive invariants. *)

\* p is in SetCredentials, or in the GetCredentialsPath before it.
Stores(p) ==
    \/ proc[p].pc \in {"update", "remove", "open", "write"}
    \/ proc[p].pc \in {"path", "create", "fill"} /\ proc[p].then = "update"

\* Who stores a token logged in with it.
LoggedIn(p) ==
    /\ Stores(p) => proc[p].kind = "logout" \/ proc[p].tried \in accepted
    /\ proc[p].pc = "logout" => proc[p].kind = "logout"

\* The credentials file is open for writing only between the two steps of a write,
\* or when its writer died between them.
OpenToWrite(p) ==
    /\ proc[p].pc \in {"fill", "write"} => proc[p].handle # "none"
    /\ proc[p].handle = "open" => proc[p].pc \in {"fill", "write", "crashed"}

WriterInv == \A p \in Procs : LoggedIn(p) /\ OpenToWrite(p)

\* While p is the only command that runs, the file and the session agree until p
\* stores, unless the user was told, and what p stores is the session; nobody else has
\* the file open.
SoloOf(p) ==
    /\ IF Stores(p)
         THEN session = IF proc[p].kind = "logout" THEN NoToken ELSE proc[p].tried
         ELSE TokenIn(file) = session \/ told
    /\ proc[p].pc \in {"fill", "write"} => file = Blank /\ proc[p].handle = "open"
    /\ proc[p].pc = "create" => file = Absent
    /\ proc[p].kind = "logout" =>
          /\ proc[p].pc \notin {"login", "ask"}
          /\ proc[p].pc \in {"path", "create", "fill"} => proc[p].then # "ask"

\* An apply that is the only command has the token of the session, once it has read.
ApplyOf(p) ==
    LET opening == {"path", "create", "fill"}
    IN  /\ proc[p].pc \notin {"ask", "logout"}
        /\ proc[p].pc \in opening => proc[p].then # "ask"
        /\ \/ proc[p].pc \in {"idle", "load"}
           \/ proc[p].pc \in opening /\ proc[p].then = "load"
           => proc[p].token = NoToken /\ ~proc[p].loggedIn
        /\ proc[p].pc = "login" => (proc[p].tried = session \/ told) /\ ~proc[p].loggedIn
        /\ proc[p].pc = "login" \/ Stores(p) => proc[p].token = proc[p].tried
        /\ proc[p].pc = "work" =>
              /\ proc[p].loggedIn => proc[p].token = session
              /\ session = NoToken => proc[p].token = NoToken \/ told

Lone(p) == \A q \in Procs \ {p} : proc[q].pc \in AtRest

SoloInv ==
    alone /\ NobodyCrashed =>
        /\ NobodyRuns => TokenIn(file) = session \/ told
        /\ \A p \in Procs :
              /\ proc[p].pc \notin AtRest => Lone(p)
              /\ Lone(p) => SoloOf(p)
              /\ proc[p].kind = "apply" => ApplyOf(p)

FileInv == TypeOK /\ WriterInv /\ StoredWasAccepted /\ BlankHasWriter

-----------------------------------------------------------------------------
(* Types. *)

LEMMA InitFile == Init => FileInv
<1> SUFFICES ASSUME Init PROVE FileInv
  OBVIOUS
<1>1. TypeOK
  <2>1. proc \in [Procs -> Process]
    BY SessionAssumption DEF Init, Process, AtRest, Steps
  <2> QED
    BY <2>1 DEF Init, TypeOK, Contents, Unreadable, TokenIn
<1>2. WriterInv
  <2>1. \A p \in Procs : proc[p].pc = "idle" /\ proc[p].then = "load" /\ proc[p].handle = "none"
    <3>1. PICK kind \in [Procs -> Kinds] :
            proc = [p \in Procs |->
                      [kind |-> kind[p], pc |-> "idle", then |-> "load",
                       handle |-> "none", token |-> NoToken, tried |-> NoToken,
                       asked |-> FALSE, again |-> FALSE, loggedIn |-> FALSE]]
      BY DEF Init
    <3> QED
      BY <3>1
  <2> QED
    BY <2>1 DEF WriterInv, LoggedIn, OpenToWrite, Stores
<1>3. StoredWasAccepted /\ BlankHasWriter
  BY SessionAssumption
     DEF Init, StoredWasAccepted, BlankHasWriter, TokenIn, Absent, Blank, Bare, NoToken,
         Unreadable
<1> QED
  BY <1>1, <1>2, <1>3 DEF FileInv

\* RunFunc begins its second MustLogin.
LEMMA AgainRecord ==
  ASSUME NEW q \in Process
  PROVE  [q EXCEPT !.again = FALSE, !.asked = FALSE, !.pc = "path", !.then = "load"] \in Process
  BY DEF Process, AtRest, Ended, Steps

LEMMA ReturnsRecord ==
  ASSUME TypeOK, NEW p \in Procs, ShouldLoginReturns(p)
  PROVE  proc'[p] \in Process
<1> DEFINE q == [proc[p] EXCEPT !.loggedIn = TRUE, !.handle = "none",
                                !.token = IF @ = NoToken THEN proc[p].tried ELSE @]
<1>1. q \in Process
  BY DEF TypeOK, Process
<1>2. proc'[p] = IF q.kind # "login" THEN [q EXCEPT !.pc = "work"]
                 ELSE IF q.again THEN [q EXCEPT !.again = FALSE, !.asked = FALSE,
                                                !.pc = "path", !.then = "load"]
                 ELSE [q EXCEPT !.pc = "done"]
  BY DEF TypeOK, ShouldLoginReturns
<1>3. /\ [q EXCEPT !.pc = "work"] \in Process
      /\ [q EXCEPT !.pc = "done"] \in Process
  <2> HIDE DEF q
  <2> QED
    BY <1>1 DEF Process, AtRest, Ended, Steps
<1>4. [q EXCEPT !.again = FALSE, !.asked = FALSE, !.pc = "path", !.then = "load"] \in Process
  BY <1>1, AgainRecord
<1> QED
  BY <1>2, <1>3, <1>4

LEMMA FailsRecord ==
  ASSUME TypeOK, NEW p \in Procs, MustLoginFails(p)
  PROVE  proc'[p] \in Process
<1>1. CASE proc[p].again
  <2>1. proc'[p] = [proc[p] EXCEPT !.again = FALSE, !.asked = FALSE,
                                   !.pc = "path", !.then = "load"]
    BY <1>1 DEF MustLoginFails, TypeOK
  <2> QED
    BY <2>1, AgainRecord DEF TypeOK
<1>2. CASE ~proc[p].again
  BY <1>2 DEF MustLoginFails, Goto, TypeOK, Process, AtRest, Ended, Steps
<1> QED
  BY <1>1, <1>2

LEMMA UpdateRecord ==
  ASSUME TypeOK, NEW p \in Procs, SetCredentialsEnds(p)
  PROVE  proc'[p] \in Process
<1>1. CASE ShouldLoginReturns(p)
  BY <1>1, ReturnsRecord
<1>2. CASE ~ShouldLoginReturns(p)
  BY <1>2 DEF SetCredentialsEnds, TypeOK, Process, AtRest, Ended, Steps
<1> QED
  BY <1>1, <1>2

\* What the steps of p do to its own record.
LEMMA RecordOfOne ==
  ASSUME TypeOK, NEW p \in Procs, Run(p) \/ Crash(p)
  PROVE  proc'[p] \in Process
<1> USE DEF TypeOK, Process, AtRest, Ended, Steps, At, Goto, Path
<1>1. CASE Begin(p)
  <2>1. CASE Path(p, "load")
    BY <2>1
  <2>2. ASSUME NEW t \in Tokens,
               proc' = [proc EXCEPT ![p].pc = "login", ![p].tried = t, ![p].again = TRUE]
        PROVE  proc'[p] \in Process
    BY <2>2
  <2> QED
    BY <1>1, <2>1, <2>2 DEF Begin
<1>2. CASE Login(p)
  BY <1>2 DEF Login
<1>3. CASE LoginFails(p)
  BY <1>3 DEF LoginFails, ShouldLoginFails, MustLoginFails
<1>4. CASE GetInputToken(p)
  <2>1. CASE MustLoginFails(p)
    BY <2>1, FailsRecord
  <2>2. ASSUME NEW t \in Tokens,
               proc' = [proc EXCEPT ![p].pc = "login", ![p].tried = t, ![p].asked = TRUE]
        PROVE  proc'[p] \in Process
    BY <2>2
  <2> QED
    BY <1>4, <2>1, <2>2 DEF GetInputToken
<1>5. CASE Logout(p)
  BY <1>5 DEF Logout
<1>6. CASE Work(p)
  BY <1>6 DEF Work
<1>7. CASE StatCredentials(p)
  BY <1>7 DEF StatCredentials
<1>8. CASE CreateCredentials(p)
  BY <1>8 DEF CreateCredentials, OpenFile
<1>9. CASE FillCredentials(p)
  BY <1>9 DEF FillCredentials
<1>10. CASE GetCredentialsToken(p)
  BY <1>10 DEF GetCredentialsToken, ShouldLoginFails, MustLoginFails, TokenIn
<1>11. CASE ReadForUpdate(p)
  BY <1>11, UpdateRecord DEF ReadForUpdate, SetCredentialsFails
<1>12. CASE RemoveCredentials(p)
  BY <1>12, UpdateRecord DEF RemoveCredentials, SetCredentialsFails
<1>13. CASE OpenCredentials(p)
  BY <1>13, UpdateRecord DEF OpenCredentials, OpenFile, SetCredentialsFails
<1>14. CASE WriteCredentials(p)
  BY <1>14, UpdateRecord DEF WriteCredentials, SetCredentialsFails
<1>15. CASE Crash(p)
  BY <1>15 DEF Crash
<1> QED
  BY <1>1, <1>2, <1>3, <1>4, <1>5, <1>6, <1>7, <1>8, <1>9, <1>10, <1>11, <1>12, <1>13, <1>14,
     <1>15 DEF Run

\* A step of p leaves the others where they are: only its removal of the file makes
\* what they have open stale.
Kept(q) ==
    \/ proc'[q] = proc[q]
    \/ /\ proc[q].handle = "open" /\ file' = Absent
       /\ proc'[q] = [proc[q] EXCEPT !.handle = "stale"]

LEMMA OthersKept ==
  ASSUME TypeOK, NEW p \in Procs, Run(p) \/ Crash(p), NEW q \in Procs, q # p
  PROVE  Kept(q)
<1> USE DEF TypeOK, Kept, Goto, Path
<1>1. CASE RemoveCredentials(p)
  BY <1>1 DEF RemoveCredentials, SetCredentialsFails, SetCredentialsEnds, ShouldLoginReturns
<1>2. CASE WriteCredentials(p) \/ ReadForUpdate(p)
  BY <1>2 DEF WriteCredentials, ReadForUpdate, SetCredentialsFails, SetCredentialsEnds, ShouldLoginReturns
<1>3. CASE Begin(p) \/ Login(p) \/ Logout(p) \/ Work(p) \/ StatCredentials(p) \/ Crash(p)
  BY <1>3 DEF Begin, Login, Logout, Work, StatCredentials, Crash
<1>4. CASE LoginFails(p) \/ GetInputToken(p)
  BY <1>4 DEF LoginFails, GetInputToken, ShouldLoginFails, MustLoginFails
<1>5. CASE CreateCredentials(p) \/ FillCredentials(p) \/ OpenCredentials(p)
  BY <1>5 DEF CreateCredentials, FillCredentials, OpenCredentials, OpenFile, SetCredentialsFails,
             SetCredentialsEnds,             ShouldLoginReturns
<1>6. CASE GetCredentialsToken(p)
  BY <1>6 DEF GetCredentialsToken, ShouldLoginFails, MustLoginFails
<1> QED
  BY <1>1, <1>2, <1>3, <1>4, <1>5, <1>6 DEF Run

LEMMA TypeOfOne ==
  ASSUME TypeOK, NEW p \in Procs, Run(p) \/ Crash(p), file' \in Contents
  PROVE  TypeOK'
<1>1. proc' \in [Procs -> Process]
  <2>1. \A q \in Procs : proc'[q] \in Process
    <3>1. ASSUME NEW q \in Procs, q # p
          PROVE  proc'[q] \in Process
      <4>1. proc[q] \in Process /\ [proc[q] EXCEPT !.handle = "stale"] \in Process
        BY DEF TypeOK, Process
      <4> QED
        BY <3>1, <4>1, OthersKept DEF Kept
    <3> QED
      BY <3>1, RecordOfOne
  <2>2. proc' = [q \in Procs |-> proc'[q]]
    <3> USE DEF TypeOK, Goto, Path
    <3>1. CASE RemoveCredentials(p)
      BY <3>1 DEF RemoveCredentials, SetCredentialsFails, SetCredentialsEnds, ShouldLoginReturns
    <3>2. CASE WriteCredentials(p) \/ ReadForUpdate(p)
      BY <3>2 DEF WriteCredentials, ReadForUpdate, SetCredentialsFails, SetCredentialsEnds, ShouldLoginReturns
    <3>3. CASE Begin(p) \/ Login(p) \/ Logout(p) \/ Work(p) \/ StatCredentials(p) \/ Crash(p)
      BY <3>3 DEF Begin, Login, Logout, Work, StatCredentials, Crash
    <3>4. CASE LoginFails(p) \/ GetInputToken(p)
      BY <3>4 DEF LoginFails, GetInputToken, ShouldLoginFails, MustLoginFails
    <3>5. CASE CreateCredentials(p) \/ FillCredentials(p) \/ OpenCredentials(p)
      BY <3>5 DEF CreateCredentials, FillCredentials, OpenCredentials, OpenFile, SetCredentialsFails,
             SetCredentialsEnds,             ShouldLoginReturns
    <3>6. CASE GetCredentialsToken(p)
      BY <3>6 DEF GetCredentialsToken, ShouldLoginFails, MustLoginFails
    <3> QED
      BY <3>1, <3>2, <3>3, <3>4, <3>5, <3>6 DEF Run
  <2> QED
    BY <2>1, <2>2
<1>2. /\ valid' \subseteq Tokens /\ alone' \in BOOLEAN
      /\ session' \in Tokens \cup {NoToken} /\ accepted' \subseteq Tokens
      /\ told' \in BOOLEAN /\ failed' \in BOOLEAN
  BY DEF diskVars, WriteFails, SetCredentialsFails, TypeOK, Run, Crash, RemoveCredentials, WriteCredentials, ReadForUpdate, Begin, Login,
         Logout, Work, StatCredentials, LoginFails, GetInputToken, CreateCredentials,
         FillCredentials, OpenCredentials, GetCredentialsToken
<1> QED
  BY <1>1, <1>2 DEF TypeOK

-----------------------------------------------------------------------------
(* What is stored. *)

\* A write leaves what was written, or a mixture that is no token and not empty, or,
\* when the writer's file was removed, what the others left.
LEMMA WhatIsWritten ==
  ASSUME TypeOK, NEW p \in Procs, NEW content \in {Bare, NoToken} \cup Tokens,
         NEW f \in Written(p, content)
  PROVE  /\ f \in Contents
         /\ f \in {content, Garbage} \/ (f = file /\ proc[p].handle = "stale")
         /\ content # Blank /\ Garbage # Blank /\ Garbage \notin Tokens
<1>1. f \in {content, Garbage} \/ (f = file /\ proc[p].handle = "stale")
  BY DEF Written
<1>2. content # Blank /\ Garbage # Blank /\ Garbage \notin Tokens
  BY SessionAssumption DEF Blank, Bare, NoToken, Garbage, Unreadable
<1> QED
  BY <1>1, <1>2 DEF TypeOK, Contents, Unreadable

\* What a step does to the file.
LEMMA FileOfOne ==
  ASSUME FileInv, NEW p \in Procs, Run(p) \/ Crash(p)
  PROVE  file' \in Contents /\ StoredWasAccepted' /\ BlankHasWriter'
<1> USE DEF FileInv
<1>1. accepted \subseteq accepted'
  BY DEF Run, Crash, RemoveCredentials, WriteCredentials, ReadForUpdate, Begin, Login,
         Logout, Work, StatCredentials, LoginFails, GetInputToken, CreateCredentials,
         FillCredentials, OpenCredentials, GetCredentialsToken
<1>2. ASSUME NEW q \in Procs, q # p, proc[q].handle = "open", file' # Absent
      PROVE  proc'[q].handle = "open"
  BY <1>2, OthersKept DEF Kept
<1>3. CASE (CreateCredentials(p) \/ OpenCredentials(p)) /\ file' # file
  <2>1. file' = Blank /\ proc'[p].handle = "open"
    BY <1>3 DEF CreateCredentials, OpenCredentials, OpenFile, TypeOK, Process
  <2> QED
    BY <2>1, SessionAssumption DEF StoredWasAccepted, BlankHasWriter, Contents, Unreadable
<1>4. CASE RemoveCredentials(p) /\ file' # file
  BY <1>4, SessionAssumption
     DEF RemoveCredentials, StoredWasAccepted, BlankHasWriter, Contents, Unreadable, Absent, Blank
<1>8. CASE WriteFails(p)
  <2>1. file' \in {file, Garbage} /\ failed'
    BY <1>8 DEF WriteFails
  <2> QED
    BY <1>1, <2>1, SessionAssumption
       DEF StoredWasAccepted, BlankHasWriter, TypeOK, Contents, Unreadable
<1>9. failed => failed'
  BY DEF diskVars, WriteFails, Run, Crash, RemoveCredentials, WriteCredentials, ReadForUpdate,
         Begin, Login, Logout, Work, StatCredentials, LoginFails, GetInputToken,
         CreateCredentials, FillCredentials, OpenCredentials, GetCredentialsToken
<1>5. CASE (FillCredentials(p) \/ WriteCredentials(p)) /\ ~WriteFails(p)
  <2>1. PICK content \in {Bare, NoToken} \cup Tokens :
            /\ file' \in Written(p, content)
            /\ content \in Tokens => content \in accepted
    <3>1. CASE FillCredentials(p)
      BY <1>5, <3>1, SessionAssumption DEF FillCredentials
    <3>2. CASE WriteCredentials(p) /\ proc[p].kind = "logout"
      BY <1>5, <3>2, SessionAssumption DEF WriteCredentials
    <3>3. CASE WriteCredentials(p) /\ proc[p].kind # "logout"
      BY <1>5, <3>3 DEF WriteCredentials, WriterInv, LoggedIn, Stores, At, TypeOK, Process
    <3> QED
      BY <1>5, <3>1, <3>2, <3>3
  <2>2. /\ file' \in Contents
        /\ file' \in {content, Garbage} \/ (file' = file /\ proc[p].handle = "stale")
        /\ content # Blank /\ Garbage # Blank /\ Garbage \notin Tokens
    BY <2>1, WhatIsWritten
  <2>3. StoredWasAccepted'
    BY <1>1, <2>1, <2>2 DEF StoredWasAccepted
  <2>4. BlankHasWriter'
    <3>1. SUFFICES ASSUME file' = Blank, ~failed'
                 PROVE  \E q \in Procs : proc'[q].handle = "open"
      BY DEF BlankHasWriter
    <3>2. file = Blank /\ proc[p].handle = "stale" /\ file' # Absent
      BY <2>2, <3>1 DEF Blank, Absent
    <3>3. PICK q \in Procs : proc[q].handle = "open"
      BY <1>9, <3>1, <3>2 DEF BlankHasWriter
    <3> QED
      BY <1>2, <3>2, <3>3
  <2> QED
    BY <2>2, <2>3, <2>4
<1>6. CASE file' = file /\ ~FillCredentials(p) /\ ~WriteCredentials(p)
  <2>1. file' \in Contents /\ StoredWasAccepted'
    BY <1>1, <1>6 DEF TypeOK, StoredWasAccepted
  <2>2. BlankHasWriter'
    <3>1. SUFFICES ASSUME file' = Blank, ~failed'
                 PROVE  \E q \in Procs : proc'[q].handle = "open"
      BY DEF BlankHasWriter
    <3>2. PICK q \in Procs : proc[q].handle = "open"
      BY <1>6, <1>9, <3>1 DEF BlankHasWriter
    <3>3. CASE q # p
      BY <1>2, <1>6, <3>1, <3>2, <3>3 DEF Blank, Absent
    <3>4. CASE q = p
      <4>1. Crash(p)
        BY <1>6, <3>1, <3>2, <3>4 DEF OpenFile, WriterInv, OpenToWrite, At, Run, RemoveCredentials, ReadForUpdate,
           Begin, Login, Logout, Work, StatCredentials, LoginFails, GetInputToken,
           CreateCredentials, OpenCredentials, GetCredentialsToken
      <4> QED
        BY <3>2, <3>4, <4>1 DEF Crash, Goto, TypeOK, Process
    <3> QED
      BY <3>3, <3>4
  <2> QED
    BY <2>1, <2>2
<1>7. file' = file \/ CreateCredentials(p) \/ OpenCredentials(p) \/ RemoveCredentials(p)
      \/ FillCredentials(p) \/ WriteCredentials(p)
  BY DEF Run, Crash, ReadForUpdate, Begin, Login, Logout, Work, StatCredentials, LoginFails,
         GetInputToken, GetCredentialsToken
<1> QED
  BY <1>3, <1>4, <1>5, <1>6, <1>7, <1>8

\* Where p is after SetCredentials, ShouldLogin and MustLogin.
LEMMA AfterUpdate ==
  ASSUME TypeOK, NEW p \in Procs, SetCredentialsEnds(p)
  PROVE  /\ proc'[p].handle = "none"
         /\ proc'[p].pc \in {"done", "work"} \/ (proc'[p].pc = "path" /\ proc'[p].then = "load")
<1>1. CASE proc[p].kind = "logout"
  BY <1>1 DEF SetCredentialsEnds, TypeOK, Process
<1>2. CASE proc[p].kind # "logout"
  <2> DEFINE q == [proc[p] EXCEPT !.loggedIn = TRUE, !.handle = "none",
                                  !.token = IF @ = NoToken THEN proc[p].tried ELSE @]
  <2>1. proc'[p] = IF q.kind # "login" THEN [q EXCEPT !.pc = "work"]
                   ELSE IF q.again THEN [q EXCEPT !.again = FALSE, !.asked = FALSE,
                                                  !.pc = "path", !.then = "load"]
                   ELSE [q EXCEPT !.pc = "done"]
    BY <1>2 DEF TypeOK, SetCredentialsEnds, ShouldLoginReturns
  <2>2. q \in Process /\ q.handle = "none"
    BY DEF TypeOK, Process
  <2> HIDE DEF q
  <2> QED
    BY <2>1, <2>2 DEF Process
<1> QED
  BY <1>1, <1>2

LEMMA AfterFailure ==
  ASSUME TypeOK, NEW p \in Procs, MustLoginFails(p)
  PROVE  /\ proc'[p].handle = proc[p].handle
         /\ proc'[p].pc = "done" \/ (proc'[p].pc = "path" /\ proc'[p].then = "load")
<1>1. CASE proc[p].again
  <2>1. proc'[p] = [proc[p] EXCEPT !.again = FALSE, !.asked = FALSE,
                                   !.pc = "path", !.then = "load"]
    BY <1>1 DEF MustLoginFails, TypeOK
  <2> QED
    BY <2>1 DEF TypeOK, Process
<1>2. CASE ~proc[p].again
  BY <1>2 DEF MustLoginFails, Goto, TypeOK, Process
<1> QED
  BY <1>1, <1>2

\* How p goes on.
LEMMA WriterOfOne ==
  ASSUME FileInv, NEW p \in Procs, Run(p) \/ Crash(p)
  PROVE  LoggedIn(p)' /\ OpenToWrite(p)'
<1> USE DEF FileInv, TypeOK, Process, WriterInv, LoggedIn, OpenToWrite, Stores, At, Goto, Path
<1>1. CASE Begin(p)
  <2>1. CASE Path(p, "load")
    BY <1>1, <2>1 DEF Begin
  <2>2. ASSUME NEW t \in Tokens,
               proc' = [proc EXCEPT ![p].pc = "login", ![p].tried = t, ![p].again = TRUE]
        PROVE  LoggedIn(p)' /\ OpenToWrite(p)'
    BY <1>1, <2>2 DEF Begin
  <2> QED
    BY <1>1, <2>1, <2>2 DEF Begin
<1>2. CASE Login(p)
  BY <1>2 DEF Login
<1>3. CASE LoginFails(p)
  BY <1>3, AfterFailure DEF LoginFails, ShouldLoginFails
<1>4. CASE GetInputToken(p)
  <2>1. CASE MustLoginFails(p)
    BY <1>4, <2>1, AfterFailure DEF GetInputToken
  <2>2. ASSUME NEW t \in Tokens,
               proc' = [proc EXCEPT ![p].pc = "login", ![p].tried = t, ![p].asked = TRUE]
        PROVE  LoggedIn(p)' /\ OpenToWrite(p)'
    BY <1>4, <2>2 DEF GetInputToken
  <2> QED
    BY <1>4, <2>1, <2>2 DEF GetInputToken
<1>5. CASE Logout(p)
  BY <1>5 DEF Logout
<1>6. CASE Work(p)
  BY <1>6 DEF Work
<1>7. CASE StatCredentials(p)
  BY <1>7 DEF StatCredentials
<1>8. CASE CreateCredentials(p)
  BY <1>8 DEF CreateCredentials, OpenFile
<1>9. CASE FillCredentials(p)
  BY <1>9 DEF FillCredentials
<1>10. CASE GetCredentialsToken(p)
  <2>1. CASE MustLoginFails(p)
    BY <1>10, <2>1, AfterFailure DEF GetCredentialsToken
  <2>2. CASE ~MustLoginFails(p)
    BY <1>10, <2>2 DEF GetCredentialsToken, ShouldLoginFails
  <2> QED
    BY <2>1, <2>2
<1>11. CASE ReadForUpdate(p)
  <2>1. CASE SetCredentialsEnds(p)
    BY <2>1, AfterUpdate
  <2>2. CASE ~SetCredentialsEnds(p)
    BY <1>11, <2>2 DEF ReadForUpdate, SetCredentialsFails
  <2> QED
    BY <2>1, <2>2
<1>12. CASE RemoveCredentials(p)
  <2>1. CASE SetCredentialsEnds(p)
    BY <2>1, AfterUpdate
  <2>2. CASE ~SetCredentialsEnds(p)
    BY <1>12, <2>2 DEF RemoveCredentials, SetCredentialsFails
  <2> QED
    BY <2>1, <2>2
<1>13. CASE OpenCredentials(p)
  <2>1. CASE SetCredentialsEnds(p)
    BY <2>1, AfterUpdate
  <2>2. CASE ~SetCredentialsEnds(p)
    BY <1>13, <2>2 DEF OpenCredentials, OpenFile, SetCredentialsFails
  <2> QED
    BY <2>1, <2>2
<1>14. CASE WriteCredentials(p)
  <2>1. CASE SetCredentialsEnds(p)
    BY <2>1, AfterUpdate
  <2>2. CASE ~SetCredentialsEnds(p)
    BY <1>14, <2>2 DEF WriteCredentials, SetCredentialsFails
  <2> QED
    BY <2>1, <2>2
<1>15. CASE Crash(p)
  BY <1>15 DEF Crash
<1> QED
  BY <1>1, <1>2, <1>3, <1>4, <1>5, <1>6, <1>7, <1>8, <1>9, <1>10, <1>11, <1>12, <1>13, <1>14,
     <1>15 DEF Run

LEMMA NextFile ==
  ASSUME FileInv, [Next]_vars
  PROVE  FileInv'
<1> USE DEF FileInv
<1>1. ASSUME NEW p \in Procs, Run(p) \/ Crash(p)
      PROVE  FileInv'
  <2>1. TypeOK' /\ StoredWasAccepted' /\ BlankHasWriter'
    BY <1>1, FileOfOne, TypeOfOne
  <2>2. accepted \subseteq accepted'
    BY <1>1 DEF Run, Crash, RemoveCredentials, WriteCredentials, ReadForUpdate, Begin, Login,
         Logout, Work, StatCredentials, LoginFails, GetInputToken, CreateCredentials,
         FillCredentials, OpenCredentials, GetCredentialsToken
  <2>3. ASSUME NEW q \in Procs, q # p
        PROVE  LoggedIn(q)' /\ OpenToWrite(q)'
    <3>1. Kept(q) /\ LoggedIn(q) /\ OpenToWrite(q) /\ proc[q] \in Process
      BY <1>1, <2>3, OthersKept DEF WriterInv, TypeOK
    <3>2. CASE proc'[q] = proc[q]
      BY <2>2, <3>1, <3>2 DEF LoggedIn, OpenToWrite, Stores
    <3>3. CASE proc'[q] = [proc[q] EXCEPT !.handle = "stale"]
      BY <2>2, <3>1, <3>3 DEF LoggedIn, OpenToWrite, Stores, Process
    <3> QED
      BY <3>1, <3>2, <3>3 DEF Kept
  <2> QED
    BY <1>1, <2>1, <2>3, WriterOfOne DEF WriterInv
<1>2. CASE Revoke
  BY <1>2 DEF Revoke, diskVars, TypeOK, WriterInv, LoggedIn, OpenToWrite, Stores, StoredWasAccepted,
              BlankHasWriter
<1>3. CASE UNCHANGED vars
  BY <1>3 DEF vars, diskVars, TypeOK, WriterInv, LoggedIn, OpenToWrite, Stores, StoredWasAccepted,
              BlankHasWriter
<1> QED
  BY <1>1, <1>2, <1>3 DEF Next

LEMMA FileInvariant == Spec => []FileInv
<1>1. FileInv /\ [Next]_vars => FileInv'
  BY NextFile
<1> QED
  BY InitFile, <1>1, PTL DEF Spec

(* The state has its type: Session.TypeOK.                                 *)
THEOREM TypeCorrect == Spec => []TypeOK
<1>1. FileInv => TypeOK
  BY DEF FileInv
<1> QED
  BY <1>1, FileInvariant, PTL

(* Whatever the commands do to the credentials file at the same time, and  *)
(* wherever they crash, a token in it is one that the server accepted.     *)
THEOREM StoredTokensWereAccepted == Spec => []StoredWasAccepted
<1>1. FileInv => StoredWasAccepted
  BY DEF FileInv
<1> QED
  BY <1>1, FileInvariant, PTL

(* An empty credentials file is one that a process has open and is about   *)
(* to write, or died before it wrote, unless a write failed.               *)
THEOREM BlankIsBeingWritten == Spec => []BlankHasWriter
<1>1. FileInv => BlankHasWriter
  BY DEF FileInv
<1> QED
  BY <1>1, FileInvariant, PTL

\* Who finds the file damaged neither writes nor removes it.
Leaves(p) == proc[p].pc \notin {"create", "fill", "remove", "open", "write"}

LEMMA DamagedStep ==
  ASSUME TypeOK, Damaged, NEW p \in Procs, Run(p) \/ Crash(p)
  PROVE  UNCHANGED file /\ Leaves(p)'
<1> USE DEF TypeOK, Process, Damaged, Leaves, At, Goto, Path
<1>1. CASE Begin(p)
  <2>1. CASE Path(p, "load")
    BY <1>1, <2>1 DEF Begin
  <2>2. ASSUME NEW t \in Tokens,
               proc' = [proc EXCEPT ![p].pc = "login", ![p].tried = t, ![p].again = TRUE]
        PROVE  Leaves(p)'
    BY <2>2
  <2> QED
    BY <1>1, <2>1, <2>2 DEF Begin
<1>2. CASE Login(p) \/ Logout(p) \/ Work(p) \/ Crash(p)
  BY <1>2 DEF Login, Logout, Work, Crash
<1>3. CASE LoginFails(p)
  BY <1>3, AfterFailure DEF LoginFails, ShouldLoginFails
<1>4. CASE GetInputToken(p)
  <2>1. CASE MustLoginFails(p)
    BY <1>4, <2>1, AfterFailure DEF GetInputToken
  <2>2. ASSUME NEW t \in Tokens,
               proc' = [proc EXCEPT ![p].pc = "login", ![p].tried = t, ![p].asked = TRUE]
        PROVE  Leaves(p)'
    BY <2>2
  <2> QED
    BY <1>4, <2>1, <2>2 DEF GetInputToken
<1>5. CASE StatCredentials(p)
  BY <1>5 DEF StatCredentials, Absent, Blank, Garbage
<1>6. CASE GetCredentialsToken(p)
  <2>1. file \in Unreadable
    BY DEF Unreadable
  <2>2. CASE MustLoginFails(p)
    BY <1>6, <2>2, AfterFailure DEF GetCredentialsToken
  <2>3. CASE ~MustLoginFails(p)
    BY <1>6, <2>1, <2>3 DEF GetCredentialsToken, ShouldLoginFails
  <2> QED
    BY <2>2, <2>3
<1>7. CASE ReadForUpdate(p)
  <2>1. SetCredentialsEnds(p) /\ UNCHANGED file
    BY <1>7 DEF ReadForUpdate, SetCredentialsFails, Unreadable
  <2> QED
    BY <2>1, AfterUpdate
<1> QED
  BY <1>1, <1>2, <1>3, <1>4, <1>5, <1>6, <1>7
     DEF Run, CreateCredentials, FillCredentials, RemoveCredentials, OpenCredentials,
         WriteCredentials

(* Once nobody is about to write the file and it is left without JSON, no  *)
(* command writes it again: SetCredentials reads it first.                 *)
THEOREM DamageIsForever == Spec => DamageStays
<1>1. ASSUME TypeOK, [Next]_vars, Damaged
      PROVE  Damaged' /\ UNCHANGED file
  <2>1. ASSUME NEW p \in Procs, Run(p) \/ Crash(p)
        PROVE  Damaged' /\ UNCHANGED file
    <3>1. UNCHANGED file /\ Leaves(p)'
      BY <1>1, <2>1, DamagedStep
    <3>2. \A q \in Procs \ {p} : proc'[q].pc = proc[q].pc
      BY <1>1, <2>1, OthersKept DEF Kept, TypeOK, Process
    <3> QED
      BY <1>1, <3>1, <3>2 DEF Damaged, Leaves
  <2> QED
    BY <1>1, <2>1 DEF Next, Revoke, vars, Damaged
<1> QED
  BY <1>1, TypeCorrect, PTL DEF DamageStays, Spec

-----------------------------------------------------------------------------
(* Commands that run one after the other. *)

LEMMA ContentsDiffer ==
  /\ {Absent, Blank, Garbage, Bare, NoToken} \cap Tokens = {}
  /\ Blank \notin {Absent, Garbage, Bare, NoToken} /\ Garbage \notin {Absent, Bare, NoToken}
  /\ Absent \notin {Bare, NoToken}
  /\ \A c \in {Absent, Blank, Garbage, Bare, NoToken} : TokenIn(c) = NoToken
  /\ \A c \in Tokens : TokenIn(c) = c
  BY SessionAssumption DEF Absent, Blank, Garbage, Bare, NoToken, Unreadable, TokenIn

\* Who writes, with nobody else at it, leaves what it writes.
LEMMA SoloWrites ==
  ASSUME NEW p \in Procs, SoloOf(p), proc[p].pc \in {"fill", "write"}, NEW content
  PROVE  Written(p, content) = {content}
  BY DEF SoloOf, Written

\* How SetCredentials and ShouldLogin end.
LEMMA StoreEnds ==
  ASSUME TypeOK, NEW p \in Procs, SetCredentialsEnds(p)
  PROVE  /\ proc'[p].kind = proc[p].kind
         /\ proc[p].kind = "logout" => proc'[p].pc = "done"
         /\ proc[p].kind # "logout" =>
               /\ proc'[p].pc = "work" \/ proc[p].kind = "login"
               /\ proc'[p].loggedIn
               /\ proc'[p].token = IF proc[p].token = NoToken THEN proc[p].tried ELSE proc[p].token
<1>1. CASE proc[p].kind = "logout"
  BY <1>1 DEF SetCredentialsEnds, TypeOK, Process
<1>2. CASE proc[p].kind # "logout"
  <2> DEFINE q == [proc[p] EXCEPT !.loggedIn = TRUE, !.handle = "none",
                                  !.token = IF @ = NoToken THEN proc[p].tried ELSE @]
  <2>1. proc'[p] = IF q.kind # "login" THEN [q EXCEPT !.pc = "work"]
                   ELSE IF q.again THEN [q EXCEPT !.again = FALSE, !.asked = FALSE,
                                                  !.pc = "path", !.then = "load"]
                   ELSE [q EXCEPT !.pc = "done"]
    BY <1>2 DEF TypeOK, SetCredentialsEnds, ShouldLoginReturns
  <2>2. /\ q \in Process /\ q.kind = proc[p].kind /\ q.loggedIn = TRUE
        /\ q.token = IF proc[p].token = NoToken THEN proc[p].tried ELSE proc[p].token
    BY DEF TypeOK, Process
  <2> HIDE DEF q
  <2>3. proc'[p].loggedIn
    BY <2>1, <2>2 DEF Process
  <2> QED
    BY <1>2, <2>1, <2>2, <2>3 DEF Process
<1> QED
  BY <1>1, <1>2

\* What the steps do to the record of p, but for the ends of SetCredentials.
LEMMA FailureOfMust ==
  ASSUME TypeOK, NEW p \in Procs, MustLoginFails(p)
  PROVE  proc'[p].kind = proc[p].kind
<1>1. CASE proc[p].again
  BY <1>1 DEF MustLoginFails, TypeOK, Process
<1>2. CASE ~proc[p].again
  BY <1>2 DEF MustLoginFails, Goto, TypeOK, Process
<1> QED
  BY <1>1, <1>2

LEMMA SoloOfOne ==
  ASSUME FileInv, NEW p \in Procs, SoloOf(p), Run(p)
  PROVE  SoloOf(p)'
<1> USE ContentsDiffer DEF FileInv, TypeOK, Process, SoloOf, Stores, At, Goto, Path, diskVars
<1>1. CASE Begin(p)
  <2>1. /\ UNCHANGED <<file, session, told>> /\ TokenIn(file)' = TokenIn(file)
        /\ TokenIn(file) = session \/ told
        /\ proc[p].pc = "idle"
    BY <1>1 DEF Begin, TokenIn, Ended, AtRest
  <2>2. CASE Path(p, "load")
    BY <2>1, <2>2
  <2>3. ASSUME NEW t \in Tokens, proc[p].kind = "login",
               proc' = [proc EXCEPT ![p].pc = "login", ![p].tried = t, ![p].again = TRUE]
        PROVE  SoloOf(p)'
    <3>1. proc'[p].pc = "login" /\ proc'[p].kind = "login"
      BY <2>3
    <3> QED
      BY <2>1, <3>1
  <2> QED
    BY <1>1, <2>2, <2>3 DEF Begin
<1>2. CASE Login(p)
  <2>1. /\ UNCHANGED file
        /\ session' = proc[p].tried
        /\ proc'[p].pc = "path" /\ proc'[p].then = "update"
        /\ proc'[p].tried = proc[p].tried /\ proc'[p].kind = proc[p].kind
        /\ proc[p].kind # "logout"
    BY <1>2 DEF Login
  <2> QED
    BY <2>1
<1>3. CASE LoginFails(p)
  BY <1>3, AfterFailure DEF LoginFails, ShouldLoginFails, TokenIn
<1>4. CASE GetInputToken(p)
  <2>1. CASE MustLoginFails(p)
    BY <1>4, <2>1, AfterFailure DEF GetInputToken, TokenIn
  <2>2. ASSUME NEW t \in Tokens,
               proc' = [proc EXCEPT ![p].pc = "login", ![p].tried = t, ![p].asked = TRUE]
        PROVE  SoloOf(p)'
    <3>1. /\ UNCHANGED <<file, session, told>> /\ TokenIn(file)' = TokenIn(file)
          /\ TokenIn(file) = session \/ told
          /\ proc[p].kind # "logout"
      BY <1>4 DEF GetInputToken, TokenIn
    <3>2. proc'[p].pc = "login" /\ proc'[p].kind = proc[p].kind
      BY <2>2
    <3> QED
      BY <3>1, <3>2
  <2> QED
    BY <1>4, <2>1, <2>2 DEF GetInputToken
<1>5. CASE Logout(p)
  BY <1>5 DEF Logout, WriterInv, LoggedIn, TokenIn
<1>6. CASE Work(p)
  BY <1>6 DEF Work, TokenIn
<1>7. CASE StatCredentials(p)
  BY <1>7 DEF StatCredentials, TokenIn
<1>8. CASE CreateCredentials(p)
  BY <1>8 DEF CreateCredentials, OpenFile
<1>9. CASE FillCredentials(p)
  <2>1. file' = Bare
    BY <1>9, SoloWrites DEF FillCredentials
  <2> QED
    BY <1>9, <2>1 DEF FillCredentials
<1>10. CASE GetCredentialsToken(p)
  <2>1. CASE MustLoginFails(p)
    BY <1>10, <2>1, AfterFailure DEF GetCredentialsToken, TokenIn
  <2>2. CASE ~MustLoginFails(p)
    BY <1>10, <2>2 DEF GetCredentialsToken, ShouldLoginFails, TokenIn
  <2> QED
    BY <2>1, <2>2
<1>15. CASE SetCredentialsFails(p)
  <2>1. /\ ~Stores(p)' /\ told' = TRUE /\ proc'[p].kind = proc[p].kind
        /\ proc'[p].pc \notin {"fill", "write", "create", "login", "ask"}
        /\ proc'[p].pc = "path" => proc'[p].then = "load"
    BY <1>15, AfterUpdate, StoreEnds DEF SetCredentialsFails
  <2> QED
    BY <2>1
<1>11. CASE ReadForUpdate(p)
  BY <1>11, <1>15 DEF ReadForUpdate
<1>12. CASE RemoveCredentials(p)
  BY <1>12, <1>15 DEF RemoveCredentials
<1>13. CASE OpenCredentials(p)
  BY <1>13, <1>15 DEF OpenCredentials, OpenFile
<1>14. CASE WriteCredentials(p) /\ ~SetCredentialsFails(p)
  <2>1. file' = IF proc[p].kind = "logout" THEN NoToken ELSE proc[p].tried
    BY <1>14, SoloWrites DEF WriteCredentials
  <2>2. file' = session' /\ file' \in Tokens \cup {NoToken}
    BY <1>14, <2>1 DEF WriteCredentials
  <2>3. TokenIn(file)' = session'
    BY <2>2 DEF TokenIn
  <2> QED
    BY <1>14, <2>2, <2>3, AfterUpdate DEF WriteCredentials
<1> QED
  BY <1>1, <1>2, <1>3, <1>4, <1>5, <1>6, <1>7, <1>8, <1>9, <1>10, <1>11, <1>12, <1>13, <1>14,
     <1>15 DEF Run

LEMMA ApplyOfOne ==
  ASSUME FileInv, NEW p \in Procs, SoloOf(p), proc[p].kind = "apply", ApplyOf(p), Run(p)
  PROVE  ApplyOf(p)'
<1> USE ContentsDiffer DEF FileInv, TypeOK, Process, SoloOf, ApplyOf, Stores, At, Goto, Path,
                           diskVars
<1>1. CASE Begin(p)
  BY <1>1 DEF Begin
<1>2. CASE Login(p)
  BY <1>2 DEF Login
<1>3. CASE LoginFails(p)
  BY <1>3 DEF LoginFails, ShouldLoginFails
<1>4. CASE GetInputToken(p) \/ Logout(p)
  BY <1>4 DEF GetInputToken, Logout
<1>5. CASE Work(p)
  BY <1>5 DEF Work
<1>6. CASE StatCredentials(p)
  BY <1>6 DEF StatCredentials
<1>7. CASE CreateCredentials(p)
  BY <1>7 DEF CreateCredentials, OpenFile
<1>8. CASE FillCredentials(p)
  BY <1>8 DEF FillCredentials
<1>9. CASE GetCredentialsToken(p)
  BY <1>9 DEF GetCredentialsToken, ShouldLoginFails, TokenIn
<1>10. CASE SetCredentialsEnds(p) /\ Stores(p) /\ UNCHANGED session
  <2>1. /\ proc'[p].pc = "work" /\ proc'[p].loggedIn
        /\ proc'[p].token = IF proc[p].token = NoToken THEN proc[p].tried ELSE proc[p].token
    BY <1>10, StoreEnds
  <2>2. proc[p].token = session /\ proc[p].tried = session
    BY <1>10
  <2> QED
    BY <1>10, <2>1, <2>2
<1>11. CASE ReadForUpdate(p) \/ RemoveCredentials(p)
  BY <1>10, <1>11 DEF ReadForUpdate, RemoveCredentials, SetCredentialsFails
<1>12. CASE OpenCredentials(p)
  BY <1>10, <1>12 DEF OpenCredentials, OpenFile, SetCredentialsFails
<1>13. CASE WriteCredentials(p)
  BY <1>10, <1>13 DEF WriteCredentials, SetCredentialsFails
<1> QED
  BY <1>1, <1>2, <1>3, <1>4, <1>5, <1>6, <1>7, <1>8, <1>9, <1>11, <1>12, <1>13 DEF Run

LEMMA KindOfOne ==
  ASSUME TypeOK, NEW p \in Procs, Run(p)
  PROVE  proc'[p].kind = proc[p].kind
<1> USE DEF TypeOK, Process, Goto, Path
<1>1. CASE MustLoginFails(p) \/ SetCredentialsEnds(p)
  BY <1>1, FailureOfMust, StoreEnds
<1>2. CASE Begin(p) \/ Login(p) \/ Logout(p) \/ Work(p) \/ StatCredentials(p)
  BY <1>2 DEF Begin, Login, Logout, Work, StatCredentials
<1>3. CASE LoginFails(p) \/ GetInputToken(p)
  BY <1>1, <1>3 DEF LoginFails, GetInputToken, ShouldLoginFails
<1>4. CASE CreateCredentials(p) \/ FillCredentials(p) \/ OpenCredentials(p)
  BY <1>1, <1>4 DEF CreateCredentials, FillCredentials, OpenCredentials, OpenFile,
                    SetCredentialsFails
<1>5. CASE GetCredentialsToken(p)
  BY <1>1, <1>5 DEF GetCredentialsToken, ShouldLoginFails
<1>6. CASE RemoveCredentials(p) \/ WriteCredentials(p) \/ ReadForUpdate(p)
  BY <1>1, <1>6 DEF RemoveCredentials, WriteCredentials, ReadForUpdate, SetCredentialsFails
<1> QED
  BY <1>2, <1>3, <1>4, <1>5, <1>6 DEF Run

LEMMA InitSolo == Init => SoloInv
<1> SUFFICES ASSUME Init PROVE SoloInv
  OBVIOUS
<1>1. TokenIn(file) = session /\ file \notin {Blank, Garbage}
  BY ContentsDiffer DEF Init
<1>2. \A p \in Procs : /\ proc[p].pc = "idle" /\ proc[p].then = "load"
                       /\ proc[p].token = NoToken /\ ~proc[p].loggedIn
  <2>1. PICK kind \in [Procs -> Kinds] :
          proc = [p \in Procs |->
                    [kind |-> kind[p], pc |-> "idle", then |-> "load",
                     handle |-> "none", token |-> NoToken, tried |-> NoToken,
                     asked |-> FALSE, again |-> FALSE, loggedIn |-> FALSE]]
    BY DEF Init
  <2> QED
    BY <2>1
<1> QED
  BY <1>1, <1>2 DEF SoloInv, SoloOf, ApplyOf, Stores, AtRest

LEMMA NextSolo ==
  ASSUME FileInv, SoloInv, [Next]_vars
  PROVE  SoloInv'
<1>1. ASSUME NEW p \in Procs, Run(p)
      PROVE  SoloInv'
  <2> SUFFICES ASSUME alone', NobodyCrashed'
               PROVE  /\ NobodyRuns' => TokenIn(file)' = session' \/ told'
                      /\ \A q \in Procs :
                            /\ proc'[q].pc \notin AtRest => Lone(q)'
                            /\ Lone(q)' => SoloOf(q)'
                            /\ proc'[q].kind = "apply" => ApplyOf(q)'
    BY DEF SoloInv
  <2>1. \A q \in Procs \ {p} : Kept(q) /\ proc[q] \in Process
    BY <1>1, OthersKept DEF FileInv, TypeOK
  <2>2. \A q \in Procs \ {p} : proc'[q].pc = proc[q].pc /\ proc'[q].kind = proc[q].kind
    BY <2>1 DEF Kept, Process
  <2>3. alone = alone' /\ proc[p].pc \notin Ended
    BY <1>1 DEF Run, RemoveCredentials, WriteCredentials, ReadForUpdate, Begin, Login, At, Ended,
         Logout, Work, StatCredentials, LoginFails, GetInputToken, CreateCredentials,
         FillCredentials, OpenCredentials, GetCredentialsToken
  <2>4. NobodyCrashed
    BY <2>2, <2>3 DEF NobodyCrashed, At, Ended
  <2>5. Lone(p)
    <3>1. CASE Begin(p)
      BY <2>3, <3>1 DEF Begin, Lone
    <3>2. CASE ~Begin(p)
      <4>1. proc[p].pc \notin AtRest
        BY <1>1, <3>2 DEF Run, RemoveCredentials, WriteCredentials, ReadForUpdate, Login, At,
         Ended, AtRest, Logout, Work, StatCredentials, LoginFails, GetInputToken,
         CreateCredentials, FillCredentials, OpenCredentials, GetCredentialsToken
      <4> QED
        BY <2>3, <2>4, <4>1 DEF SoloInv
    <3> QED
      BY <3>1, <3>2
  <2>6. SoloOf(p)'
    BY <1>1, <2>3, <2>4, <2>5, SoloOfOne DEF SoloInv
  <2>7. Lone(p)' /\ \A q \in Procs \ {p} : proc'[q].pc \in AtRest
    BY <2>2, <2>5 DEF Lone
  <2>8. proc'[p].pc \in AtRest =>
           TokenIn(file)' = session' \/ told'
    BY <2>6 DEF SoloOf, Stores, AtRest, Ended
  <2>9. ASSUME NEW q \in Procs \ {p}
        PROVE  /\ proc'[q].pc \notin AtRest => Lone(q)'
               /\ Lone(q)' => SoloOf(q)'
               /\ proc'[q].kind = "apply" => ApplyOf(q)'
    <3>1. Lone(q)' => proc'[p].pc \in AtRest
      BY DEF Lone
    <3>2. Lone(q)' => SoloOf(q)'
      BY <2>7, <2>8, <3>1 DEF SoloOf, Stores, AtRest, Ended
    <3>3. ASSUME proc'[q].kind = "apply"
          PROVE  ApplyOf(q)'
      <4>1. ApplyOf(q) /\ proc[q].pc \in AtRest
        BY <2>2, <2>3, <2>4, <2>5, <3>3 DEF SoloInv, Lone
      <4>2. /\ proc'[q].pc = proc[q].pc /\ proc'[q].then = proc[q].then
            /\ proc'[q].token = proc[q].token /\ proc'[q].loggedIn = proc[q].loggedIn
        BY <2>1 DEF Kept, Process
      <4> QED
        BY <4>1, <4>2 DEF ApplyOf, Stores, AtRest, Ended
    <3> QED
      BY <2>7, <3>2, <3>3
  <2>10. proc'[p].kind = "apply" => ApplyOf(p)'
    <3>1. proc'[p].kind = proc[p].kind
      BY <1>1, KindOfOne DEF FileInv
    <3> QED
      BY <1>1, <2>3, <2>4, <2>5, <3>1, ApplyOfOne DEF SoloInv
  <2> QED
    BY <2>6, <2>7, <2>8, <2>9, <2>10 DEF NobodyRuns
<1>2. ASSUME NEW p \in Procs, Crash(p)
      PROVE  SoloInv'
  <2>1. ~NobodyCrashed'
    BY <1>2 DEF Crash, Goto, NobodyCrashed, At, FileInv, TypeOK, Process
  <2> QED
    BY <2>1 DEF SoloInv
<1>3. CASE Revoke
  BY <1>3 DEF Revoke, diskVars, SoloInv, SoloOf, ApplyOf, Stores, Lone, NobodyCrashed, NobodyRuns, At, TokenIn
<1>4. CASE UNCHANGED vars
  BY <1>4 DEF vars, diskVars, SoloInv, SoloOf, ApplyOf, Stores, Lone, NobodyCrashed, NobodyRuns, At, TokenIn
<1> QED
  BY <1>1, <1>2, <1>3, <1>4 DEF Next

LEMMA SoloInvariant == Spec => []SoloInv
<1>1. FileInv /\ SoloInv /\ [Next]_vars => SoloInv'
  BY NextSolo
<1> QED
  BY InitSolo, <1>1, FileInvariant, PTL DEF Spec

(* Between commands that run one after the other, none of which crashes,   *)
(* the file holds the token of the last login that the server accepted,    *)
(* and none after a logout, or the user was told that it was not stored.   *)
THEOREM FileHoldsSession == Spec => []FileIsSession
<1>1. SoloInv => FileIsSession
  BY DEF SoloInv, FileIsSession
<1> QED
  BY <1>1, SoloInvariant, PTL

(* Among such commands an apply works with the token of that login when it *)
(* could log in with it, and without one after a logout that was stored.   *)
THEOREM ApplyHasSession == Spec => []ApplyUsesSession
<1>1. SoloInv => ApplyUsesSession
  BY DEF SoloInv, ApplyUsesSession, ApplyOf, At
<1> QED
  BY <1>1, SoloInvariant, PTL
=============================================================================
