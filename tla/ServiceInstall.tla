--------------------------- MODULE ServiceInstall ---------------------------
(***************************************************************************)
(* Files and packages on the device: InstallServiceJar, InstallServiceApk  *)
(* (services/install_service.go) and Device.Push, each over fresh ADB      *)
(* connections (adb/connect.go) and the sync protocol (adb/sync.go).       *)
(*                                                                         *)
(* A connection is dialled, routed to the device, and then serves exactly  *)
(* one service: a shell command or sync.  A push creates the remote file   *)
(* anew and appends chunks to it, so that others can see it half written.  *)
(***************************************************************************)
EXTENDS Naturals

CONSTANTS
  Installers,  \* goroutines or programs that install on the same device
  Kinds,       \* what they install
  Chunks,      \* DATA chunks of every file
  MaxRuns,     \* bound: operations started in a behaviour
  LossyLink,   \* connections may break, the device may refuse
  SlowLink     \* a push may take 2 s, a shell command be quiet for 3 s

AllKinds == {"jar", "apk", "file"}

ASSUME InstallAssumption ==
  /\ Kinds \subseteq AllKinds
  /\ Chunks \in Nat \ {0}
  /\ MaxRuns \in Nat
  /\ {LossyLink, SlowLink} \subseteq BOOLEAN

Runs == 1..MaxRuns
None == 0           \* no run; no file

VARIABLES
  pc,         \* pc[i]: where installer i is
  run,        \* run[i]: its current or last operation
  runs,       \* operations started so far
  kind,       \* kind[r]: what r installs; each kind has a path of its own
  result,     \* result[r]: "none", "ok" or "error"
  channel,    \* channel[i]: "none", "routed", "sync" or "shell"
  late,       \* late[r]: the write deadline set for the sync: command has passed
  file,       \* file[k]: the run whose file is at k's path, or None
  written,    \* written[r]: chunks in the file that r created
  torn,       \* runs that broke off after they created the file
  pm          \* pm[r]: "none", "running", "success" or "failure"

operation == <<run, runs, kind>>
storage   == <<file, written, torn>>
vars == <<pc, operation, result, channel, late, storage, pm>>

Pushing == {"send", "data", "status"}

Goto(i, label) == pc' = [pc EXCEPT ![i] = label]
Kind(i) == kind[run[i]]
Channel(i, c) == channel' = [channel EXCEPT ![i] = c]

\* The function returns r; its deferred Close ends the connection.
Return(i, r) == /\ Goto(i, "idle")
                /\ result' = [result EXCEPT ![run[i]] = r]
                /\ Channel(i, "none")

-----------------------------------------------------------------------------
(* Connections.                                                            *)

\* DialADB and TransportTo for what stands at label.
ConnectToDevice(i, label) ==
  \/ Channel(i, "routed") /\ Goto(i, label) /\ UNCHANGED result
  \/ LossyLink /\ Return(i, "error")

\* A routed connection obeys one command; later ones reach nobody.
Obeyed(i) == channel[i] = "routed"

-----------------------------------------------------------------------------
(* The operations.                                                         *)

Begin(i, k, force) ==
  /\ pc[i] = "idle"
  /\ runs < MaxRuns
  /\ runs' = runs + 1
  /\ run' = [run EXCEPT ![i] = runs + 1]
  /\ kind' = [kind EXCEPT ![runs + 1] = k]
  /\ Goto(i, IF force \/ k = "file" THEN "connect" ELSE "check")
  /\ UNCHANGED <<result, channel, late, storage, pm>>

\* What follows once the file is on the device.
Pushed(i) == IF Kind(i) = "apk"
             THEN Goto(i, "install") /\ Channel(i, "none") /\ UNCHANGED result
             ELSE Return(i, "ok")

\* Taking a check that failed for a file that is there.
Check_Trusting(i) ==
  /\ pc[i] = "check"
  /\ \/ (file[Kind(i)] # None \/ LossyLink) /\ Pushed(i)
     \/ file[Kind(i)] = None /\ Goto(i, "connect") /\ UNCHANGED <<result, channel>>
  /\ UNCHANGED <<operation, late, storage, pm>>

\* fileExistsOnDevice on a connection of its own; any error counts as "no".
Check(i) ==
  /\ pc[i] = "check"
  /\ \/ file[Kind(i)] # None /\ Pushed(i)
     \/ /\ file[Kind(i)] = None \/ LossyLink \/ SlowLink
        /\ Goto(i, "connect")
        /\ UNCHANGED <<result, channel>>
  /\ UNCHANGED <<operation, late, storage, pm>>

Connect(i) ==
  /\ pc[i] = "connect"
  /\ ConnectToDevice(i, "sync")
  /\ UNCHANGED <<operation, late, storage, pm>>

\* SyncPushFile opens the local file first; then WriteAdbCmd("sync:"), which sets
\* a write deadline that nobody takes back.
StartSync(i) ==
  /\ pc[i] = "sync"
  /\ Obeyed(i)
  /\ \/ Channel(i, "sync") /\ Goto(i, "send") /\ UNCHANGED result
     \/ (LossyLink \/ Kind(i) = "file") /\ Return(i, "error")
  /\ UNCHANGED <<operation, late, storage, pm>>

Elapse(i) ==
  /\ SlowLink
  /\ pc[i] \in Pushing
  /\ late' = [late EXCEPT ![run[i]] = TRUE]
  /\ UNCHANGED <<pc, operation, result, channel, storage, pm>>

\* An error in the middle of a push: the device may drop the unfinished file.
BreakOff(i) ==
  /\ Return(i, "error")
  /\ torn' = torn \cup {run[i]}
  /\ file' \in {file, [file EXCEPT ![Kind(i)] = None]}
  /\ UNCHANGED written

WriteFails(i) == LossyLink \/ late[run[i]]

\* SEND: the device unlinks what is at the path and creates the file.
Send(i) ==
  /\ pc[i] = "send"
  /\ \/ /\ ~late[run[i]]
        /\ file' = [file EXCEPT ![Kind(i)] = run[i]]
        /\ Goto(i, "data")
        /\ UNCHANGED <<result, channel, written, torn>>
     \/ WriteFails(i) /\ Return(i, "error") /\ UNCHANGED storage
  /\ UNCHANGED <<operation, late, pm>>

\* A read error of the local file that ends the loop like its end does.
Data_EndsEarly(i) ==
  /\ pc[i] = "data"
  /\ written[run[i]] < Chunks
  /\ \/ written' = [written EXCEPT ![run[i]] = @ + 1] /\ UNCHANGED pc
     \/ Kind(i) = "file" /\ Goto(i, "status") /\ UNCHANGED written
  /\ UNCHANGED <<operation, result, channel, late, file, torn, pm>>

\* A loop that sends a chunk for the last, empty Read as well (`n >= 0`).
Data_OneMore(i) ==
  /\ pc[i] = "data"
  /\ written[run[i]] <= Chunks
  /\ \/ /\ ~late[run[i]]
        /\ written' = [written EXCEPT ![run[i]] = @ + 1]
        /\ UNCHANGED <<pc, result, channel, file, torn>>
     \/ (WriteFails(i) \/ Kind(i) = "file") /\ BreakOff(i)
  /\ UNCHANGED <<operation, late, pm>>

\* One DATA chunk; reading the local file of Device.Push may fail.
Data(i) ==
  /\ pc[i] = "data"
  /\ written[run[i]] < Chunks
  /\ \/ /\ ~late[run[i]]
        /\ written' = [written EXCEPT ![run[i]] = @ + 1]
        /\ UNCHANGED <<pc, result, channel, file, torn>>
     \/ (WriteFails(i) \/ Kind(i) = "file") /\ BreakOff(i)
  /\ UNCHANGED <<operation, late, pm>>

Done(i) ==
  /\ pc[i] = "data"
  /\ written[run[i]] = Chunks
  /\ \/ ~late[run[i]] /\ Goto(i, "status") /\ UNCHANGED <<result, channel, storage>>
     \/ WriteFails(i) /\ BreakOff(i)
  /\ UNCHANGED <<operation, late, pm>>

\* ReadSyncStatus: OKAY, or FAIL, another word, or a lost connection.
Status(i) ==
  /\ pc[i] = "status"
  /\ \/ Pushed(i) /\ UNCHANGED storage
     \/ LossyLink /\ BreakOff(i)
  /\ UNCHANGED <<operation, late, pm>>

\* SyncPushFile and SyncPushData after StartSync.
Push(i) == Send(i) \/ Data(i) \/ Done(i) \/ Status(i)

\* InstallApkOnDevice: a new connection, then pm install in a shell.
Install(i) ==
  /\ pc[i] = "install"
  /\ ConnectToDevice(i, "pm")
  /\ UNCHANGED <<operation, late, storage, pm>>

ExecShell(i) ==
  /\ pc[i] = "pm"
  /\ Obeyed(i)
  /\ \/ /\ pm' = [pm EXCEPT ![run[i]] = "running"]
        /\ Channel(i, "shell")
        /\ Goto(i, "output")
        /\ UNCHANGED result
     \/ LossyLink /\ Return(i, "error") /\ UNCHANGED pm
  /\ UNCHANGED <<operation, late, storage>>

\* rm -f on the connection that pm install used; its error is ignored.
RemoveTemp(i) ==
  IF Obeyed(i) THEN file' = [file EXCEPT ![Kind(i)] = None] ELSE UNCHANGED file

\* Taking a shell that ended for one that succeeded.
Output_Unread(i) ==
  /\ pc[i] = "output"
  /\ \/ /\ pm[run[i]] # "running" \/ SlowLink
        /\ RemoveTemp(i)
        /\ Return(i, "ok")
     \/ LossyLink /\ Return(i, "error") /\ UNCHANGED file
  /\ UNCHANGED <<operation, late, written, torn, pm>>

\* ExecShell reads until the shell ends or has been quiet for 3 s; success is the
\* word "success" in what it read.
Output(i) ==
  /\ pc[i] = "output"
  /\ \/ /\ pm[run[i]] # "running" \/ SlowLink
        /\ RemoveTemp(i)
        /\ Return(i, IF pm[run[i]] = "success" THEN "ok" ELSE "error")
     \/ LossyLink /\ Return(i, "error") /\ UNCHANGED file
  /\ UNCHANGED <<operation, late, written, torn, pm>>

-----------------------------------------------------------------------------
\* The package manager on the device; it needs the complete file.
Complete(k) == file[k] # None /\ written[file[k]] = Chunks

PackageManager(r) ==
  /\ pm[r] = "running"
  /\ pm' = [pm EXCEPT ![r] = IF Complete("apk") THEN "success" ELSE "failure"]
  /\ UNCHANGED <<pc, operation, result, channel, late, storage>>

Init ==
  /\ pc = [i \in Installers |-> "idle"]
  /\ run = [i \in Installers |-> 0]
  /\ runs = 0
  /\ kind = [r \in 0..MaxRuns |-> "none"]
  /\ result = [r \in Runs |-> "none"]
  /\ channel = [i \in Installers |-> "none"]
  /\ late = [r \in Runs |-> FALSE]
  /\ file = [k \in AllKinds |-> None]
  /\ written = [r \in Runs |-> 0]
  /\ torn = {}
  /\ pm = [r \in Runs |-> "none"]

Operation(i) == \/ \E k \in Kinds, force \in BOOLEAN : Begin(i, k, force)
                \/ Check(i) \/ Connect(i) \/ StartSync(i) \/ Push(i)
                \/ Install(i) \/ ExecShell(i) \/ Output(i)

Next == \/ \E i \in Installers : Operation(i) \/ Elapse(i)
        \/ \E r \in Runs : PackageManager(r)

Spec == Init /\ [][Next]_vars

-----------------------------------------------------------------------------
(* Properties.                                                             *)

\* Every variable keeps its type; a file never has more chunks than were pushed.
TypeOK ==
  /\ pc \in [Installers -> {"idle", "check", "connect", "sync", "install", "pm", "output"}
                             \cup Pushing]
  /\ run \in [Installers -> 0..MaxRuns]
  /\ runs \in 0..MaxRuns
  /\ kind \in [0..MaxRuns -> Kinds \cup {"none"}]
  /\ result \in [Runs -> {"none", "ok", "error"}]
  /\ channel \in [Installers -> {"none", "routed", "sync", "shell"}]
  /\ late \in [Runs -> BOOLEAN]
  /\ file \in [AllKinds -> 0..MaxRuns]
  /\ written \in [Runs -> 0..Chunks]
  /\ torn \subseteq Runs
  /\ pm \in [Runs -> {"none", "running", "success", "failure"}]

\* A file that is incomplete belongs to a push that is still under way or that
\* returned an error: no push reports success for part of a file.
NoSilentPartial ==
  \A k \in AllKinds : file[k] # None /\ ~Complete(k) =>
    \/ file[k] \in torn
    \/ \E i \in Installers : run[i] = file[k] /\ pc[i] = "data"

\* Once InstallServiceJar has returned nil, the jar is there in full, unless some
\* push broke off or one is still under way (the check is by name only).
JarUsable ==
  /\ torn = {}
  /\ \A i \in Installers : pc[i] \notin Pushing
  /\ \E r \in Runs : kind[r] = "jar" /\ result[r] = "ok"
  => Complete("jar")

\* InstallServiceApk returns nil only after the package manager said that it
\* installed the package.
SuccessMeansInstalled ==
  \A r \in Runs : kind[r] = "apk" /\ result[r] = "ok" => pm[r] = "success"

-----------------------------------------------------------------------------
(* The inductive invariant that the properties above follow from.          *)

\* An operation belongs to one installer and has no result while it runs; files are
\* those of operations.
TicketInv ==
  /\ \A i \in Installers :
       /\ run[i] <= runs
       /\ pc[i] # "idle" => /\ run[i] # 0 /\ Kind(i) \in Kinds
                            /\ result[run[i]] = "none"
  /\ \A i, j \in Installers : run[i] = run[j] => i = j \/ run[i] = 0
  /\ \A k \in AllKinds : file[k] <= runs
  /\ \A r \in Runs : r > runs => result[r] = "none"

\* Only packages are installed; a shell whose output is read is used up.
ChannelInv ==
  \A i \in Installers :
    /\ pc[i] \in {"install", "pm", "output"} => Kind(i) = "apk"
    /\ pc[i] = "output" => channel[i] = "shell"

\* As long as no push has broken off, a file that was created is there, and so is the
\* jar that somebody was told of.
FileInv ==
  torn = {} =>
    /\ \A i \in Installers : pc[i] \in {"data", "status"} => file[Kind(i)] # None
    /\ (\E r \in Runs : kind[r] = "jar" /\ result[r] = "ok") => file["jar"] # None

IInv ==
  /\ TypeOK /\ NoSilentPartial /\ SuccessMeansInstalled
  /\ TicketInv /\ ChannelInv /\ FileInv

-----------------------------------------------------------------------------
(* What the sources say and the code does not do.                          *)

\* sync.go:123, SyncPushData pushes the data to the device: over a link that never
\* fails it does not return an error.
HealthyPushSucceeds ==
  ~LossyLink => \A r \in Runs : kind[r] = "jar" => result[r] # "error"
=============================================================================
