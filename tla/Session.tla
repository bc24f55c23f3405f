------------------------------- MODULE Session -------------------------------
(***************************************************************************)
(* How the commands of selefra log in and out.  Every process has a global *)
(* token; all of them share the credentials file of the user's home, which *)
(* they create when it is missing, read, and replace by removing it and    *)
(* writing a new one.  `login` and `init --relevance` insist on a login    *)
(* and ask the user for a token when the stored one is refused; `apply`    *)
(* (and `init` without --relevance) tries the stored token and goes on     *)
(* whatever the answer; `logout` has the server end the session and stores *)
(* an empty token.                                                         *)
(*                                                                         *)
(* The file is modelled as the file system sees it: os.WriteFile first     *)
(* creates or truncates the file and then writes, os.Remove leaves who has *)
(* the old file open with a file that nobody finds any more.  The system   *)
(* may refuse to open, write or remove the file.  The server is external:  *)
(* it accepts a token or refuses it.                                       *)
(***************************************************************************)
EXTENDS Naturals

CONSTANTS Procs,    \* the processes, each of which runs one command
          Tokens,   \* the access tokens, all of one length
          Kinds,    \* the commands that may run
          Faults    \* "crash": of a process; "net": a call to the server fails;
                    \* "revoke": the server stops accepting a token; "disk": a
                    \* call to the file system fails

NoToken == ""
Absent  == "absent"     \* there is no file
Blank   == "blank"      \* the file was created or truncated and is still empty
Garbage == "garbage"    \* two writes, or a part of one: it is no JSON
Bare    == "{}"         \* what GetCredentialsPath writes

Unreadable == {Absent, Blank, Garbage}
Contents   == Unreadable \cup {Bare, NoToken} \cup Tokens

ASSUME SessionAssumption ==
    /\ Tokens \cap (Unreadable \cup {Bare, NoToken}) = {}
    /\ Kinds \subseteq {"login", "init", "apply", "logout"}
    /\ Faults \subseteq {"crash", "net", "revoke", "disk"}

VARIABLES
    file,       \* the credentials file; a token, or NoToken, stands for its JSON
    valid,      \* the tokens that the server accepts
    proc,       \* per process: see Process
    alone,      \* the commands run one after the other
    session,    \* the token of the last login the server accepted, NoToken after
                \* a logout
    accepted,   \* the tokens the server accepted
    told,       \* the last SetCredentials returned an error, which was printed
    failed      \* a write of the file failed

diskVars == <<told, failed>>
vars     == <<file, valid, proc, alone, session, accepted, diskVars>>

Steps == {"path", "create", "fill", "load", "login", "ask", "update", "remove",
          "open", "write", "work", "logout"}
Ended == {"done", "crashed"}
AtRest == {"idle"} \cup Ended

Process ==
    [kind : Kinds,
     pc : AtRest \cup Steps,
     then : {"load", "ask", "update"},  \* what follows GetCredentialsPath
     handle : {"none", "open", "stale"},\* the file it opened for writing
     token : Tokens \cup {NoToken},     \* global.Token()
     tried : Tokens \cup {NoToken},     \* the token that ShouldLogin tries
     asked : BOOLEAN,                   \* MustLogin asked the user already
     again : BOOLEAN,                   \* RunFunc has another MustLogin to call
     loggedIn : BOOLEAN]                \* its last ShouldLogin returned nil

TypeOK ==
    /\ file \in Contents
    /\ valid \subseteq Tokens
    /\ proc \in [Procs -> Process]
    /\ alone \in BOOLEAN
    /\ session \in Tokens \cup {NoToken}
    /\ accepted \subseteq Tokens
    /\ told \in BOOLEAN /\ failed \in BOOLEAN

TokenIn(content) == IF content \in Tokens THEN content ELSE NoToken

\* No command has begun; an earlier login or logout may have left a file.
Init ==
    /\ file \in {Absent, Bare, NoToken} \cup Tokens
    /\ valid \in SUBSET Tokens
    /\ alone \in BOOLEAN
    /\ session = TokenIn(file)
    /\ accepted = {session} \ {NoToken}
    /\ told = FALSE /\ failed = FALSE
    /\ \E kind \in [Procs -> Kinds] :
        proc = [p \in Procs |->
                  [kind |-> kind[p], pc |-> "idle", then |-> "load",
                   handle |-> "none", token |-> NoToken, tried |-> NoToken,
                   asked |-> FALSE, again |-> FALSE, loggedIn |-> FALSE]]

At(p, step) == proc[p].pc = step

Goto(p, step) == proc' = [proc EXCEPT ![p].pc = step]

\* GetCredentialsPath, and then what it is called for.
Path(p, step) == proc' = [proc EXCEPT ![p].pc = "path", ![p].then = step]

-----------------------------------------------------------------------------
(* The control of ShouldLogin, MustLogin and RunFunc. *)

\* MustLogin fails.  RunFunc forgets the error of its first call and makes the
\* second; otherwise the command fails.
MustLoginFails(p) ==
    IF proc[p].again
      THEN proc' = [proc EXCEPT ![p].again = FALSE, ![p].asked = FALSE,
                                ![p].pc = "path", ![p].then = "load"]
      ELSE Goto(p, "done")

\* ShouldLogin returns an error: apply ignores it, MustLogin asks the user once.
ShouldLoginFails(p) ==
    IF proc[p].kind = "apply" THEN Goto(p, "work")
    ELSE IF ~proc[p].asked    THEN Path(p, "ask")
    ELSE MustLoginFails(p)

\* ShouldLogin returns nil: the global token is set if it was empty.
ShouldLoginReturns(p) ==
    LET q == [proc[p] EXCEPT !.loggedIn = TRUE, !.handle = "none",
                             !.token = IF @ = NoToken THEN proc[p].tried ELSE @]
    IN proc' = [proc EXCEPT ![p] =
          IF q.kind # "login" THEN [q EXCEPT !.pc = "work"]
          ELSE IF q.again THEN [q EXCEPT !.again = FALSE, !.asked = FALSE,
                                         !.pc = "path", !.then = "load"]
          ELSE [q EXCEPT !.pc = "done"]]

Begin(p) ==
    /\ At(p, "idle")
    /\ alone => \A q \in Procs \ {p} : proc[q].pc \in AtRest
    /\ \/ Path(p, "load")
       \/ /\ proc[p].kind = "login"
          /\ \E t \in Tokens :
                proc' = [proc EXCEPT ![p].pc = "login", ![p].tried = t,
                                     ![p].again = TRUE]
    /\ UNCHANGED <<file, valid, alone, session, accepted, diskVars>>

Login(p) ==
    /\ At(p, "login")
    /\ proc[p].tried \in valid
    /\ Path(p, "update")
    /\ session' = proc[p].tried
    /\ accepted' = accepted \cup {proc[p].tried}
    /\ UNCHANGED <<file, valid, alone, diskVars>>

\* Mutant: the token is stored before the answer of the server is looked at.
LoginFails_Stores(p) ==
    /\ At(p, "login")
    /\ proc[p].tried \notin valid \/ "net" \in Faults
    /\ Path(p, "update")
    /\ UNCHANGED <<file, valid, alone, session, accepted, diskVars>>

LoginFails(p) ==
    /\ At(p, "login")
    /\ proc[p].tried \notin valid \/ "net" \in Faults
    /\ ShouldLoginFails(p)
    /\ UNCHANGED <<file, valid, alone, session, accepted, diskVars>>

\* getInputToken: the user enters a token, or none.
GetInputToken(p) ==
    /\ At(p, "ask")
    /\ \/ MustLoginFails(p)
       \/ \E t \in Tokens :
            proc' = [proc EXCEPT ![p].pc = "login", ![p].tried = t, ![p].asked = TRUE]
    /\ UNCHANGED <<file, valid, alone, session, accepted, diskVars>>

\* Mutant: logout leaves the token in the file.
Logout_KeepsFile(p) ==
    /\ At(p, "logout")
    /\ proc[p].tried \in valid
    /\ valid' \in {valid, valid \ {proc[p].tried}}
    /\ session' = NoToken
    /\ Goto(p, "done")
    /\ UNCHANGED <<file, alone, accepted, diskVars>>

\* The server may or may not stop accepting the token that logged out.
Logout(p) ==
    /\ At(p, "logout")
    /\ \/ /\ proc[p].tried \in valid
          /\ valid' \in {valid, valid \ {proc[p].tried}}
          /\ session' = NoToken
          /\ Path(p, "update")
       \/ /\ proc[p].tried \notin valid \/ "net" \in Faults
          /\ Goto(p, "done")
          /\ UNCHANGED <<valid, session>>
    /\ UNCHANGED <<file, alone, accepted, diskVars>>

\* The Try calls of the cloud client send the global token, if there is one.  The
\* command ends when one fails, or when its work is done.
Work(p) ==
    /\ At(p, "work")
    /\ Goto(p, "done")
    /\ UNCHANGED <<file, valid, alone, session, accepted, diskVars>>

-----------------------------------------------------------------------------
(* The credentials file. *)

Size(content) ==
    CASE content = Bare -> 1 [] content = NoToken -> 2 [] content \in Tokens -> 3

\* What the file may hold after p wrote content in the file that it opened.  A
\* shorter text leaves the end of a longer one that somebody wrote meanwhile.
Written(p, content) ==
    IF proc[p].handle = "stale" THEN {file}
    ELSE IF file = Blank        THEN {content}
    ELSE IF file = Garbage      THEN {content, Garbage}
    ELSE IF Size(content) >= Size(file) THEN {content} ELSE {Garbage}

\* The write fails, and leaves the file as it was opened or with a part of the text.
WriteFails(p) ==
    /\ "disk" \in Faults
    /\ file' \in {file} \cup (IF proc[p].handle = "open" THEN {Garbage} ELSE {})
    /\ failed' = TRUE

\* os.WriteFile creates or truncates the file.
OpenFile(p, step) ==
    /\ file' = Blank
    /\ proc' = [proc EXCEPT ![p].pc = step, ![p].handle = "open"]

StatCredentials(p) ==
    /\ At(p, "path")
    /\ Goto(p, IF file = Absent THEN "create" ELSE proc[p].then)
    /\ UNCHANGED <<file, valid, alone, session, accepted, diskVars>>

\* GetCredentialsPath ignores the error of os.WriteFile.
CreateCredentials(p) ==
    /\ At(p, "create")
    /\ \/ OpenFile(p, "fill")
       \/ "disk" \in Faults /\ Goto(p, proc[p].then) /\ UNCHANGED file
    /\ UNCHANGED <<valid, alone, session, accepted, diskVars>>

FillCredentials(p) ==
    /\ At(p, "fill")
    /\ \/ file' \in Written(p, Bare) /\ UNCHANGED failed
       \/ WriteFails(p)
    /\ proc' = [proc EXCEPT ![p].pc = proc[p].then, ![p].handle = "none"]
    /\ UNCHANGED <<valid, alone, session, accepted, told>>

\* Mutant: the text of the file is taken for the token.
GetCredentialsToken_Text(p) ==
    /\ At(p, "load")
    /\ proc' = [proc EXCEPT ![p].tried = file, ![p].token = file,
                            ![p].pc = "login"]
    /\ UNCHANGED <<file, valid, alone, session, accepted, diskVars>>

\* The token it reads becomes the global one if that is empty, whatever the server
\* will say of it.
GetCredentialsToken(p) ==
    /\ At(p, "load")
    /\ IF file \notin Unreadable
         THEN proc' = [proc EXCEPT
                ![p].tried = TokenIn(file),
                ![p].token = IF @ = NoToken THEN TokenIn(file) ELSE @,
                ![p].pc = IF proc[p].kind = "logout" THEN "logout" ELSE "login"]
         ELSE IF proc[p].kind = "logout" THEN Goto(p, "done")
         ELSE ShouldLoginFails(p)
    /\ UNCHANGED <<file, valid, alone, session, accepted, diskVars>>

\* What follows SetCredentials.
SetCredentialsEnds(p) ==
    IF proc[p].kind = "logout"
      THEN proc' = [proc EXCEPT ![p].pc = "done", ![p].handle = "none"]
      ELSE ShouldLoginReturns(p)

\* Its error is printed, and the command goes on as without one.
SetCredentialsFails(p) == told' = TRUE /\ SetCredentialsEnds(p)

\* Mutant: a file that cannot be read is replaced.
ReadForUpdate_StartsAnew(p) ==
    /\ At(p, "update")
    /\ IF file # Absent THEN Goto(p, "remove") /\ UNCHANGED told
       ELSE SetCredentialsFails(p)
    /\ UNCHANGED <<file, valid, alone, session, accepted, failed>>

ReadForUpdate(p) ==
    /\ At(p, "update")
    /\ IF file \notin Unreadable THEN Goto(p, "remove") /\ UNCHANGED told
       ELSE SetCredentialsFails(p)
    /\ UNCHANGED <<file, valid, alone, session, accepted, failed>>

\* Mutant: the file is emptied and not removed.
RemoveCredentials_Empties(p) ==
    /\ At(p, "remove")
    /\ file' = Blank
    /\ Goto(p, "open")
    /\ UNCHANGED <<valid, alone, session, accepted, diskVars>>

RemoveCredentials(p) ==
    /\ At(p, "remove")
    /\ \/ /\ file = Absent \/ "disk" \in Faults
          /\ SetCredentialsFails(p) /\ UNCHANGED file
       \/ /\ file # Absent
          /\ file' = Absent
          /\ proc' = [q \in Procs |->
                IF q = p THEN [proc[q] EXCEPT !.pc = "open"]
                ELSE IF proc[q].handle = "open"
                  THEN [proc[q] EXCEPT !.handle = "stale"] ELSE proc[q]]
          /\ UNCHANGED told
    /\ UNCHANGED <<valid, alone, session, accepted, failed>>

\* The old file is gone by now, whether or not a new one can be opened.
OpenCredentials(p) ==
    /\ At(p, "open")
    /\ \/ OpenFile(p, "write") /\ UNCHANGED told
       \/ "disk" \in Faults /\ SetCredentialsFails(p) /\ UNCHANGED file
    /\ UNCHANGED <<valid, alone, session, accepted, failed>>

\* Mutant: SetCredentials forgets the error of the write.
WriteCredentials_Silently(p) ==
    /\ At(p, "write")
    /\ \/ /\ file' \in Written(p, IF proc[p].kind = "logout" THEN NoToken ELSE proc[p].tried)
          /\ UNCHANGED failed
       \/ WriteFails(p)
    /\ told' = FALSE /\ SetCredentialsEnds(p)
    /\ UNCHANGED <<valid, alone, session, accepted>>

WriteCredentials(p) ==
    /\ At(p, "write")
    /\ \/ /\ file' \in Written(p, IF proc[p].kind = "logout" THEN NoToken ELSE proc[p].tried)
          /\ told' = FALSE /\ SetCredentialsEnds(p) /\ UNCHANGED failed
       \/ WriteFails(p) /\ SetCredentialsFails(p)
    /\ UNCHANGED <<valid, alone, session, accepted>>

-----------------------------------------------------------------------------
(* The environment. *)

Crash(p) ==
    /\ "crash" \in Faults
    /\ proc[p].pc \notin AtRest
    /\ Goto(p, "crashed")
    /\ UNCHANGED <<file, valid, alone, session, accepted, diskVars>>

Revoke ==
    /\ "revoke" \in Faults
    /\ \E t \in valid : valid' = valid \ {t}
    /\ UNCHANGED <<file, proc, alone, session, accepted, diskVars>>

Run(p) ==
    \/ Begin(p) \/ Login(p) \/ LoginFails(p) \/ GetInputToken(p) \/ Logout(p)
    \/ Work(p) \/ StatCredentials(p) \/ CreateCredentials(p) \/ FillCredentials(p)
    \/ GetCredentialsToken(p) \/ ReadForUpdate(p) \/ RemoveCredentials(p)
    \/ OpenCredentials(p) \/ WriteCredentials(p)

Next == (\E p \in Procs : Run(p) \/ Crash(p)) \/ Revoke

Spec == Init /\ [][Next]_vars

-----------------------------------------------------------------------------
(* Properties. *)

NobodyRuns    == \A p \in Procs : proc[p].pc \in AtRest
NobodyCrashed == \A p \in Procs : ~At(p, "crashed")

\* Whatever the commands do to the file at the same time, and wherever they crash,
\* a token in it is one that the server accepted.
StoredWasAccepted == file \in Tokens => file \in accepted

\* An empty credentials file is one that a process has open and is about to write,
\* or died before it wrote, unless a write failed.
BlankHasWriter ==
    file = Blank => failed \/ \E p \in Procs : proc[p].handle = "open"

\* When the commands run one after the other and none crashes, the file says
\* between them what the server last agreed to: a login is there for the next
\* command, and a logout is not undone; or the user saw that it was not stored.
FileIsSession ==
    alone /\ NobodyRuns /\ NobodyCrashed => TokenIn(file) = session \/ told

\* An apply among such commands works with the token of that login when it could
\* log in with it, and without one after a logout, if that was stored.
ApplyUsesSession ==
    \A p \in Procs :
        alone /\ NobodyCrashed /\ proc[p].kind = "apply" /\ At(p, "work")
            => /\ proc[p].loggedIn => proc[p].token = session
               /\ session = NoToken => proc[p].token = NoToken \/ told

\* The file is damaged, and no process is about to write or to remove it.
Damaged ==
    /\ file \in {Blank, Garbage}
    /\ \A p \in Procs : proc[p].pc \notin {"create", "fill", "remove", "open", "write"}

\* Once a crash or a write that failed left the file without JSON, it stays so: each
\* later login is accepted and none is stored, since SetCredentials reads first.
DamageStays == [][Damaged => Damaged' /\ UNCHANGED file]_vars

\* "if login successfully, global token will be set, else return an error": after
\* a login the command works with the token that the server accepted.
LoginSetsToken ==
    \A p \in Procs :
        At(p, "work") /\ proc[p].loggedIn => proc[p].token = proc[p].tried
=============================================================================
