------------------------ MODULE ServiceInstallProofs ------------------------
(* What holds of ServiceInstall for every value of its constants.          *)
EXTENDS ServiceInstall, TLAPS

USE InstallAssumption

Labels   == {"idle", "check", "connect", "sync", "install", "pm", "output", "send", "data", "status"}
Results  == {"none", "ok", "error"}
Channels == {"none", "routed", "sync", "shell"}

(***************************************************************************)
(* Initially the invariant holds.                                          *)
(***************************************************************************)
LEMMA InitInv == Init => IInv
<1> SUFFICES ASSUME Init PROVE IInv
  OBVIOUS
<1>1. TypeOK
  BY DEF Init, TypeOK, None, Pushing
<1>2. NoSilentPartial /\ SuccessMeansInstalled
  BY DEF Init, NoSilentPartial, SuccessMeansInstalled
<1>3. TicketInv /\ ChannelInv /\ FileInv
  BY DEF Init, TicketInv, ChannelInv, FileInv, None
<1> QED
  BY <1>1, <1>2, <1>3 DEF IInv

(***************************************************************************)
(* A jar that somebody was told of is complete if nobody disturbs it.      *)
(***************************************************************************)
LEMMA JarFollows == IInv => JarUsable
<1> SUFFICES ASSUME NoSilentPartial, FileInv,
                    torn = {}, \A i \in Installers : pc[i] \notin Pushing,
                    \E r \in Runs : kind[r] = "jar" /\ result[r] = "ok"
             PROVE  Complete("jar")
  BY DEF JarUsable, IInv
<1>1. file["jar"] # None
  BY DEF FileInv
<1> QED
  BY <1>1 DEF NoSilentPartial, Pushing, AllKinds

(***************************************************************************)
(* Beginning an operation.                                                 *)
(***************************************************************************)
LEMMA BeginStep ==
  ASSUME IInv, NEW i \in Installers, NEW k \in Kinds, NEW force \in BOOLEAN, Begin(i, k, force)
  PROVE  IInv'
<1>1. /\ TypeOK /\ NoSilentPartial /\ SuccessMeansInstalled /\ TicketInv /\ ChannelInv /\ FileInv
  BY DEF IInv
<1>2. /\ pc[i] = "idle" /\ runs < MaxRuns /\ runs' = runs + 1
      /\ run' = [run EXCEPT ![i] = runs + 1] /\ kind' = [kind EXCEPT ![runs + 1] = k]
      /\ UNCHANGED <<result, channel, late, file, written, torn, pm>>
      /\ runs \in Nat /\ runs + 1 \in Runs /\ runs + 1 \in 0..MaxRuns
  BY <1>1 DEF Begin, storage, TypeOK, Runs
<1>3. /\ pc'[i] \in {"connect", "check"} /\ pc' \in [Installers -> Labels]
      /\ \A j \in Installers \ {i} : pc'[j] = pc[j]
  BY <1>1 DEF Begin, Goto, TypeOK, Pushing, Labels
<1>4. /\ run'[i] = runs + 1 /\ kind'[runs + 1] = k /\ result[runs + 1] = "none"
      /\ \A j \in Installers \ {i} : run'[j] = run[j] /\ run[j] \in 0..runs
      /\ \A r \in 0..runs : kind'[r] = kind[r]
  BY <1>1, <1>2 DEF TypeOK, TicketInv
<1>5. TypeOK'
  BY <1>1, <1>2, <1>3 DEF TypeOK, Labels, Pushing
<1>6. NoSilentPartial'
  <2>1. \A j \in Installers : pc[j] = "data" => pc'[j] = "data" /\ run'[j] = run[j]
    BY <1>2, <1>3, <1>4
  <2> QED
    BY <1>1, <1>2, <2>1 DEF NoSilentPartial, Complete
<1>7. \A r \in Runs : result[r] = "ok" => kind'[r] = kind[r]
  <2>1. \A r \in Runs : result[r] = "ok" => r \in 0..runs
    BY <1>1, <1>2 DEF TicketInv, Runs
  <2> QED
    BY <1>4, <2>1
<1>8. SuccessMeansInstalled'
  BY <1>1, <1>2, <1>7 DEF SuccessMeansInstalled
<1>9. TicketInv'
  <2>1. ASSUME NEW j \in Installers
        PROVE  /\ run'[j] <= runs'
               /\ pc'[j] # "idle" => run'[j] # 0 /\ Kind(j)' \in Kinds /\ result'[run'[j]] = "none"
    <3>1. CASE j = i
      BY <1>2, <1>4, <3>1 DEF Kind
    <3>2. CASE j # i
      BY <1>1, <1>2, <1>3, <1>4, <3>2 DEF Kind, TicketInv
    <3> QED
      BY <3>1, <3>2
  <2>2. \A j, h \in Installers : run'[j] = run'[h] => j = h \/ run'[j] = 0
    BY <1>1, <1>2, <1>4 DEF TicketInv
  <2>3. \A c \in AllKinds : file'[c] <= runs'
    BY <1>1, <1>2 DEF TicketInv, TypeOK
  <2>4. \A r \in Runs : r > runs' => result'[r] = "none"
    BY <1>1, <1>2 DEF TicketInv, Runs
  <2> QED
    BY <2>1, <2>2, <2>3, <2>4 DEF TicketInv
<1>10. ChannelInv'
  <2>1. \A j \in Installers : pc'[j] \in {"install", "pm", "output"} =>
          pc'[j] = pc[j] /\ Kind(j)' = Kind(j)
    BY <1>3, <1>4 DEF Kind
  <2> QED
    BY <1>1, <1>2, <2>1 DEF ChannelInv
<1>11. FileInv'
  <2>1. \A j \in Installers : pc'[j] \in {"data", "status"} => pc[j] = pc'[j] /\ Kind(j)' = Kind(j)
    BY <1>3, <1>4 DEF Kind
  <2> QED
    BY <1>1, <1>2, <1>7, <2>1 DEF FileInv
<1> QED
  BY <1>5, <1>6, <1>8, <1>9, <1>10, <1>11 DEF IInv

(***************************************************************************)
(* What a step of an installer does to the files: nothing, with no part of *)
(* a push behind or before it; the end of the data; a new file; a chunk;   *)
(* or breaking off.                                                        *)
(***************************************************************************)
Stores(i, l) ==
  \/ /\ UNCHANGED <<file, written, torn>>
     /\ pc[i] # "data" /\ l \notin {"data", "status"}
  \/ /\ UNCHANGED <<file, written, torn>>
     /\ pc[i] = "data" /\ l = "status" /\ written[run[i]] = Chunks
  \/ /\ UNCHANGED <<written, torn>>
     /\ file' = [file EXCEPT ![Kind(i)] = run[i]]
     /\ pc[i] # "data" /\ l = "data"
  \/ /\ UNCHANGED <<file, torn>>
     /\ written[run[i]] < Chunks /\ written' = [written EXCEPT ![run[i]] = @ + 1]
     /\ pc[i] = "data" /\ l = "data"
  \/ /\ UNCHANGED written
     /\ torn' = torn \cup {run[i]}
     /\ file' \in {file, [file EXCEPT ![Kind(i)] = None]}
     /\ l = "idle"

\* What it may report.
Reports(i, l, r) ==
  /\ l # "idle" => r = "none"
  /\ r = "ok" => /\ Kind(i) = "jar" /\ torn' = {} => file'["jar"] # None
                 /\ Kind(i) = "apk" => pm'[run[i]] = "success"

LEMMA InstallerStep ==
  ASSUME IInv, NEW i \in Installers, NEW l \in Labels, NEW c \in Channels, NEW r \in Results,
         pc[i] # "idle", UNCHANGED <<run, runs, kind, late>>,
         pc' = [pc EXCEPT ![i] = l], channel' = [channel EXCEPT ![i] = c],
         result' = [result EXCEPT ![run[i]] = r],
         l = "output" => c = "shell",
         l \in {"install", "pm", "output"} => Kind(i) = "apk",
         Stores(i, l), Reports(i, l, r),
         pm' \in {pm, [pm EXCEPT ![run[i]] = "running"]}
  PROVE  IInv'
<1>1. /\ TypeOK /\ NoSilentPartial /\ SuccessMeansInstalled /\ TicketInv /\ ChannelInv /\ FileInv
  BY DEF IInv
<1>2. /\ run[i] \in Runs /\ run[i] \in Nat /\ run[i] <= runs /\ Kind(i) \in AllKinds
      /\ result[run[i]] = "none" /\ runs \in Nat
  BY <1>1 DEF TypeOK, TicketInv, Runs
<1>3. /\ pc'[i] = l /\ channel'[i] = c /\ result'[run[i]] = r
      /\ \A j \in Installers \ {i} : /\ pc'[j] = pc[j] /\ channel'[j] = channel[j]
                                     /\ run[j] # run[i]
      /\ \A q \in Runs \ {run[i]} : result'[q] = result[q] /\ pm'[q] = pm[q]
      /\ \A j \in Installers : Kind(j)' = Kind(j)
  BY <1>1, <1>2 DEF TypeOK, TicketInv, Kind
<1>4. /\ file' \in [AllKinds -> 0..MaxRuns] /\ \A k \in AllKinds : file'[k] \in 0..runs
      /\ written' \in [Runs -> 0..Chunks] /\ torn' \subseteq Runs /\ torn \subseteq torn'
  <2>1. /\ file \in [AllKinds -> 0..MaxRuns] /\ \A k \in AllKinds : file[k] \in 0..runs
        /\ written \in [Runs -> 0..Chunks] /\ torn \subseteq Runs
        /\ run[i] \in 0..MaxRuns /\ run[i] \in 0..runs /\ None \in 0..MaxRuns /\ None \in 0..runs
    BY <1>1, <1>2 DEF TypeOK, TicketInv, None
  <2>2. CASE UNCHANGED <<file, written, torn>>
    BY <2>1, <2>2
  <2>3. CASE UNCHANGED <<written, torn>> /\ file' = [file EXCEPT ![Kind(i)] = run[i]]
    BY <1>2, <2>1, <2>3
  <2>4. CASE /\ UNCHANGED <<file, torn>>
             /\ written[run[i]] < Chunks /\ written' = [written EXCEPT ![run[i]] = @ + 1]
    BY <1>2, <2>1, <2>4
  <2>5. CASE /\ UNCHANGED written /\ torn' = torn \cup {run[i]}
             /\ file' \in {file, [file EXCEPT ![Kind(i)] = None]}
    BY <1>2, <2>1, <2>5
  <2> QED
    BY <2>2, <2>3, <2>4, <2>5 DEF Stores
<1>5. TypeOK'
  <2>1. pc' \in [Installers -> Labels] /\ channel' \in [Installers -> Channels]
    BY <1>1 DEF TypeOK, Labels, Channels, Pushing
  <2>2. /\ result' \in [Runs -> Results]
        /\ pm' \in [Runs -> {"none", "running", "success", "failure"}]
    BY <1>1, <1>2 DEF TypeOK, Results
  <2> QED
    BY <1>1, <1>4, <2>1, <2>2 DEF TypeOK, Labels, Channels, Results, Pushing
<1>6. NoSilentPartial'
  <2> SUFFICES ASSUME NEW k \in AllKinds, file'[k] # None, ~Complete(k)'
               PROVE  \/ file'[k] \in torn'
                      \/ \E j \in Installers : run'[j] = file'[k] /\ pc'[j] = "data"
    BY DEF NoSilentPartial
  <2>1. CASE file'[k] = run[i]
    <3>1. pc[i] = "data" /\ l # "data" => run[i] \in torn' \/ written'[run[i]] = Chunks
      BY DEF Stores
    <3>2. CASE l = "data"
      BY <1>3, <2>1, <3>2
    <3>3. CASE pc[i] = "data" /\ l # "data"
      BY <2>1, <3>1, <3>3 DEF Complete
    <3>4. CASE pc[i] # "data" /\ l # "data"
      <4>1. file'[k] = file[k] /\ written' = written
        BY <1>1, <1>2, <2>1, <3>4 DEF Stores, TypeOK, None
      <4>2. ~Complete(k)
        BY <4>1 DEF Complete
      <4>3. \/ file[k] \in torn
            \/ \E j \in Installers : run[j] = file[k] /\ pc[j] = "data"
        BY <1>1, <4>1, <4>2 DEF NoSilentPartial
      <4> QED
        BY <1>3, <1>4, <2>1, <3>4, <4>1, <4>3
    <3> QED
      BY <3>2, <3>3, <3>4
  <2>2. CASE file'[k] # run[i]
    <3>1. file'[k] = file[k] /\ written'[file[k]] = written[file[k]]
      <4>1. file \in [AllKinds -> 0..MaxRuns] /\ written \in [Runs -> 0..Chunks]
        BY <1>1 DEF TypeOK
      <4>2. file'[k] = file[k]
        BY <1>2, <2>2, <4>1 DEF Stores
      <4>3. file[k] \in Runs
        BY <4>1, <4>2 DEF None, Runs
      <4> QED
        BY <1>2, <2>2, <4>1, <4>2, <4>3 DEF Stores
    <3>2. ~Complete(k)
      BY <3>1 DEF Complete
    <3>3. \/ file[k] \in torn
          \/ \E j \in Installers : run[j] = file[k] /\ pc[j] = "data"
      BY <1>1, <3>1, <3>2 DEF NoSilentPartial
    <3> QED
      BY <1>3, <1>4, <2>2, <3>1, <3>3
  <2> QED
    BY <2>1, <2>2
<1>7. SuccessMeansInstalled'
  BY <1>1, <1>2, <1>3 DEF SuccessMeansInstalled, Reports, Kind
<1>8. TicketInv'
  <2>1. \A j \in Installers : pc'[j] # "idle" => /\ run[j] # 0 /\ Kind(j)' \in Kinds
                                                 /\ result'[run[j]] = "none"
    BY <1>1, <1>2, <1>3 DEF TicketInv, Reports, TypeOK, Runs
  <2>2. \A q \in Runs : q > runs => result'[q] = "none"
    BY <1>1, <1>2, <1>3 DEF TicketInv
  <2>3. \A k \in AllKinds : file'[k] <= runs
    BY <1>4
  <2> QED
    BY <1>1, <2>1, <2>2, <2>3 DEF TicketInv
<1>9. ChannelInv'
  BY <1>1, <1>3 DEF ChannelInv
<1>10. FileInv'
  <2> SUFFICES ASSUME torn' = {}
               PROVE  /\ \A j \in Installers : pc'[j] \in {"data", "status"} => file'[Kind(j)'] # None
                      /\ (\E q \in Runs : kind'[q] = "jar" /\ result'[q] = "ok") => file'["jar"] # None
    BY DEF FileInv
  <2>1. torn = {} /\ run[i] \notin torn'
    BY <1>4
  <2>2. \A k \in AllKinds : file[k] # None => file'[k] # None
    BY <1>1, <1>2, <2>1 DEF Stores, TypeOK, None, Runs
  <2>3. l \in {"data", "status"} => file'[Kind(i)] # None
    BY <1>1, <1>2, <2>1, <2>2 DEF Stores, TypeOK, FileInv, None, Runs
  <2>4. \A j \in Installers : pc[j] # "idle" => Kind(j) \in AllKinds
    BY <1>1 DEF TicketInv
  <2>5. \A j \in Installers : pc'[j] \in {"data", "status"} => file'[Kind(j)'] # None
    BY <1>1, <1>3, <2>1, <2>2, <2>3, <2>4 DEF FileInv
  <2>6. ASSUME NEW q \in Runs, kind'[q] = "jar", result'[q] = "ok" PROVE file'["jar"] # None
    <3>1. CASE q = run[i]
      BY <1>3, <2>6, <3>1 DEF Reports, Kind
    <3>2. CASE q # run[i]
      BY <1>1, <1>3, <2>1, <2>2, <2>6, <3>2 DEF FileInv, AllKinds
    <3> QED
      BY <3>1, <3>2
  <2> QED
    BY <2>5, <2>6
<1> QED
  BY <1>5, <1>6, <1>7, <1>8, <1>9, <1>10 DEF IInv

(***************************************************************************)
(* The steps of an installer, one action after the other.                  *)
(***************************************************************************)
LEMMA Leaving ==
  ASSUME IInv, NEW i \in Installers, pc[i] # "idle"
  PROVE  /\ result[run[i]] = "none" /\ channel[i] \in Channels
         /\ \A l : Goto(i, l) /\ UNCHANGED result =>
              pc' = [pc EXCEPT ![i] = l] /\ result' = [result EXCEPT ![run[i]] = "none"]
         /\ UNCHANGED channel => channel' = [channel EXCEPT ![i] = channel[i]]
  BY DEF IInv, TicketInv, TypeOK, Goto, Channels

LEMMA QuietStep ==
  ASSUME IInv, NEW i \in Installers, NEW l \in Labels, NEW c \in Channels, NEW r \in {"none", "error"},
         pc[i] \notin {"idle", "data"}, UNCHANGED <<run, runs, kind, late>>,
         pc' = [pc EXCEPT ![i] = l], channel' = [channel EXCEPT ![i] = c],
         result' = [result EXCEPT ![run[i]] = r],
         l = "output" => c = "shell",
         l \in {"install", "pm", "output"} => Kind(i) = "apk", l \notin {"data", "status"}, l # "idle" => r = "none",
         UNCHANGED <<file, written, torn>>,
         pm' \in {pm, [pm EXCEPT ![run[i]] = "running"]}
  PROVE  IInv'
<1>1. Stores(i, l) /\ Reports(i, l, r) /\ r \in Results
  BY DEF Stores, Reports, Results
<1> QED
  BY <1>1, InstallerStep

LEMMA CheckStep ==
  ASSUME IInv, NEW i \in Installers, Check(i)
  PROVE  IInv'
<1>1. /\ pc[i] = "check" /\ UNCHANGED <<run, runs, kind, late, file, written, torn, pm>>
  BY DEF Check, operation, storage
<1>2. CASE file[Kind(i)] # None /\ Pushed(i)
  <2>1. CASE Kind(i) = "apk"
    <3>1. /\ pc' = [pc EXCEPT ![i] = "install"] /\ channel' = [channel EXCEPT ![i] = "none"]
          /\ result' = [result EXCEPT ![run[i]] = "none"]
      BY <1>1, <1>2, <2>1, Leaving DEF Pushed, Goto, Channel
    <3> QED
      BY <1>1, <2>1, <3>1, QuietStep DEF Labels, Channels
  <2>2. CASE Kind(i) # "apk"
    <3>1. /\ pc' = [pc EXCEPT ![i] = "idle"] /\ channel' = [channel EXCEPT ![i] = "none"]
          /\ result' = [result EXCEPT ![run[i]] = "ok"]
      BY <1>2, <2>2 DEF Pushed, Return, Goto, Channel
    <3>2. Stores(i, "idle") /\ Reports(i, "idle", "ok")
      BY <1>1, <1>2, <2>2 DEF Stores, Reports
    <3> QED
      BY <1>1, <3>1, <3>2, InstallerStep DEF Labels, Channels, Results
  <2> QED
    BY <2>1, <2>2
<1>3. CASE Goto(i, "connect") /\ UNCHANGED <<result, channel>>
  <2>1. /\ pc' = [pc EXCEPT ![i] = "connect"] /\ channel' = [channel EXCEPT ![i] = channel[i]]
        /\ result' = [result EXCEPT ![run[i]] = "none"] /\ channel[i] \in Channels
    BY <1>1, <1>3, Leaving
  <2> QED
    BY <1>1, <2>1, QuietStep DEF Labels
<1> QED
  BY <1>2, <1>3 DEF Check

LEMMA ConnectStep ==
  ASSUME IInv, NEW i \in Installers, Connect(i) \/ StartSync(i) \/ Install(i) \/ ExecShell(i)
  PROVE  IInv'
<1>1. /\ pc[i] \in {"connect", "sync", "install", "pm"}
      /\ UNCHANGED <<run, runs, kind, late, file, written, torn>>
      /\ pm' \in {pm, [pm EXCEPT ![run[i]] = "running"]}
  BY DEF Connect, StartSync, Install, ExecShell, operation, storage
<1>2. CASE Return(i, "error")
  <2>1. /\ pc' = [pc EXCEPT ![i] = "idle"] /\ channel' = [channel EXCEPT ![i] = "none"]
        /\ result' = [result EXCEPT ![run[i]] = "error"]
    BY <1>2 DEF Return, Goto, Channel
  <2> QED
    BY <1>1, <2>1, QuietStep DEF Labels, Channels
<1>3. CASE \E l \in {"sync", "send", "pm", "output"}, c \in {"routed", "sync", "shell"} :
             /\ Goto(i, l) /\ Channel(i, c) /\ UNCHANGED result
             /\ l = "output" => c = "shell"
             /\ l \in {"pm", "output"} => pc[i] \in {"install", "pm"}
  <2>1. PICK l \in {"sync", "send", "pm", "output"}, c \in {"routed", "sync", "shell"} :
             /\ Goto(i, l) /\ Channel(i, c) /\ UNCHANGED result
             /\ l = "output" => c = "shell"
             /\ l \in {"pm", "output"} => pc[i] \in {"install", "pm"}
    BY <1>3
  <2>2. /\ pc' = [pc EXCEPT ![i] = l] /\ channel' = [channel EXCEPT ![i] = c]
        /\ result' = [result EXCEPT ![run[i]] = "none"]
    BY <1>1, <2>1, Leaving DEF Channel
  <2>3. l \in Labels /\ c \in Channels /\ l \notin {"idle", "data", "status"}
    BY DEF Labels, Channels
  <2>4. l \in {"install", "pm", "output"} => Kind(i) = "apk"
    BY <2>1 DEF IInv, ChannelInv
  <2> QED
    BY <1>1, <2>1, <2>2, <2>3, <2>4, QuietStep
<1> QED
  BY <1>2, <1>3 DEF Connect, StartSync, Install, ExecShell, ConnectToDevice

LEMMA PushStep ==
  ASSUME IInv, NEW i \in Installers, Push(i)
  PROVE  IInv'
<1>1. /\ pc[i] \in {"send", "data", "status"}
      /\ UNCHANGED <<run, runs, kind, late, pm>>
  BY DEF Push, Send, Data, Done, Status, operation
<1>2. CASE BreakOff(i)
  <2>1. /\ pc' = [pc EXCEPT ![i] = "idle"] /\ channel' = [channel EXCEPT ![i] = "none"]
        /\ result' = [result EXCEPT ![run[i]] = "error"]
    BY <1>2 DEF BreakOff, Return, Goto, Channel
  <2>2. Stores(i, "idle") /\ Reports(i, "idle", "error")
    BY <1>2 DEF BreakOff, Stores, Reports
  <2> QED
    BY <1>1, <2>1, <2>2, InstallerStep DEF Labels, Channels, Results
<1>3. CASE pc[i] = "send" /\ Return(i, "error") /\ UNCHANGED storage
  <2>1. /\ pc' = [pc EXCEPT ![i] = "idle"] /\ channel' = [channel EXCEPT ![i] = "none"]
        /\ result' = [result EXCEPT ![run[i]] = "error"]
        /\ UNCHANGED <<file, written, torn>>
    BY <1>3 DEF Return, Goto, Channel, storage
  <2> QED
    BY <1>1, <1>3, <2>1, QuietStep DEF Labels, Channels
<1>4. CASE /\ UNCHANGED <<result, channel>>
           /\ \E l \in {"data", "status"} : pc' = [pc EXCEPT ![i] = l] /\ Stores(i, l)
  <2>1. PICK l \in {"data", "status"} : pc' = [pc EXCEPT ![i] = l] /\ Stores(i, l)
    BY <1>4
  <2>2. /\ channel' = [channel EXCEPT ![i] = channel[i]] /\ channel[i] \in Channels
        /\ result' = [result EXCEPT ![run[i]] = "none"]
    BY <1>1, <1>4, <2>1, Leaving DEF Goto
  <2>3. Reports(i, l, "none") /\ l \in Labels /\ "none" \in Results /\ l # "output"
    BY DEF Reports, Labels, Results
  <2> QED
    BY <1>1, <2>1, <2>2, <2>3, InstallerStep
<1>5. CASE Send(i)
  <2>1. ASSUME file' = [file EXCEPT ![Kind(i)] = run[i]], Goto(i, "data"),
               UNCHANGED <<result, channel, written, torn>>
        PROVE  IInv'
    BY <1>4, <1>5, <2>1 DEF Send, Goto, Stores
  <2> QED
    BY <1>3, <1>5, <2>1 DEF Send
<1>6. CASE Data(i)
  <2>1. ASSUME written' = [written EXCEPT ![run[i]] = @ + 1],
               UNCHANGED <<pc, result, channel, file, torn>>
        PROVE  IInv'
    <3>1. pc' = [pc EXCEPT ![i] = "data"]
      BY <1>6, <2>1 DEF Data, IInv, TypeOK
    <3>2. Stores(i, "data")
      BY <1>6, <2>1 DEF Data, Stores
    <3> QED
      BY <1>4, <2>1, <3>1, <3>2
  <2> QED
    BY <1>2, <1>6, <2>1 DEF Data
<1>7. CASE Done(i)
  <2>1. ASSUME Goto(i, "status"), UNCHANGED <<result, channel, storage>>
        PROVE  IInv'
    BY <1>4, <1>7, <2>1 DEF Done, Goto, Stores, storage
  <2> QED
    BY <1>2, <1>7, <2>1 DEF Done
<1>8. CASE Status(i)
  <2>1. CASE Kind(i) = "apk" /\ Pushed(i) /\ UNCHANGED storage
    <3>1. /\ pc' = [pc EXCEPT ![i] = "install"] /\ channel' = [channel EXCEPT ![i] = "none"]
          /\ result' = [result EXCEPT ![run[i]] = "none"]
          /\ UNCHANGED <<file, written, torn>>
      BY <1>1, <2>1, Leaving DEF Pushed, Goto, Channel, storage
    <3>2. pc[i] = "status"
      BY <1>8 DEF Status
    <3> QED
      BY <1>1, <2>1, <3>1, <3>2, QuietStep DEF Labels, Channels
  <2>2. CASE Kind(i) # "apk" /\ Pushed(i) /\ UNCHANGED storage
    <3>1. /\ pc' = [pc EXCEPT ![i] = "idle"] /\ channel' = [channel EXCEPT ![i] = "none"]
          /\ result' = [result EXCEPT ![run[i]] = "ok"]
          /\ UNCHANGED <<file, written, torn>>
      BY <2>2 DEF Pushed, Return, Goto, Channel, storage
    <3>2. pc[i] = "status"
      BY <1>8 DEF Status
    <3>3. Stores(i, "idle")
      BY <3>1, <3>2 DEF Stores
    <3>4. Reports(i, "idle", "ok")
      BY <2>2, <3>1, <3>2 DEF Reports, IInv, FileInv
    <3> QED
      BY <1>1, <3>1, <3>3, <3>4, InstallerStep DEF Labels, Channels, Results
  <2> QED
    BY <1>2, <1>8, <2>1, <2>2 DEF Status
<1> QED
  BY <1>5, <1>6, <1>7, <1>8 DEF Push

LEMMA OutputStep ==
  ASSUME IInv, NEW i \in Installers, Output(i)
  PROVE  IInv'
<1>1. /\ pc[i] = "output" /\ UNCHANGED <<run, runs, kind, late, file, written, torn, pm>>
  BY DEF Output, operation, RemoveTemp, Obeyed, IInv, ChannelInv
<1>2. PICK r \in {"ok", "error"} : Return(i, r) /\ (r = "ok" => pm[run[i]] = "success")
  BY DEF Output
<1>3. /\ pc' = [pc EXCEPT ![i] = "idle"] /\ channel' = [channel EXCEPT ![i] = "none"]
      /\ result' = [result EXCEPT ![run[i]] = r]
  BY <1>2 DEF Return, Goto, Channel
<1>4. Stores(i, "idle")
  BY <1>1 DEF Stores
<1>5. Kind(i) = "apk"
  BY <1>1 DEF IInv, ChannelInv
<1>6. Reports(i, "idle", r)
  BY <1>1, <1>2, <1>5 DEF Reports
<1> QED
  BY <1>1, <1>3, <1>4, <1>6, InstallerStep DEF Labels, Channels, Results

(***************************************************************************)
(* Time that passes, and the package manager.                              *)
(***************************************************************************)
LEMMA ElapseStep ==
  ASSUME IInv, NEW i \in Installers, Elapse(i)
  PROVE  IInv'
<1>1. /\ pc[i] \in Pushing /\ late' = [late EXCEPT ![run[i]] = TRUE]
      /\ UNCHANGED <<pc, run, runs, kind, result, channel, file, written, torn, pm>>
  BY DEF Elapse, operation, storage
<1>2. late' \in [Runs -> BOOLEAN]
  BY <1>1, Zenon DEF IInv, TypeOK
<1>3. TypeOK'
  BY <1>1, <1>2 DEF IInv, TypeOK
<1>4. NoSilentPartial' /\ SuccessMeansInstalled' /\ TicketInv' /\ ChannelInv' /\ FileInv'
  BY <1>1 DEF IInv, NoSilentPartial, SuccessMeansInstalled, TicketInv, ChannelInv, FileInv,
              Kind, Complete
<1> QED
  BY <1>3, <1>4 DEF IInv

LEMMA ManagerStep ==
  ASSUME IInv, NEW r \in Runs, PackageManager(r)
  PROVE  IInv'
<1>1. /\ pm[r] = "running"
      /\ \E s \in {"success", "failure"} : pm' = [pm EXCEPT ![r] = s]
      /\ UNCHANGED <<pc, run, runs, kind, result, channel, late, file, written, torn>>
  BY DEF PackageManager, operation, storage
<1>2. TypeOK'
  BY <1>1 DEF IInv, TypeOK
<1>3. \A q \in Runs : pm[q] = "success" => pm'[q] = "success"
  BY <1>1 DEF IInv, TypeOK
<1>4. SuccessMeansInstalled'
  BY <1>1, <1>3 DEF IInv, SuccessMeansInstalled
<1>5. NoSilentPartial' /\ TicketInv' /\ ChannelInv' /\ FileInv'
  BY <1>1 DEF IInv, NoSilentPartial, TicketInv, ChannelInv, FileInv, Kind, Complete
<1> QED
  BY <1>2, <1>4, <1>5 DEF IInv

LEMMA NextStep == IInv /\ [Next]_vars => IInv'
<1> SUFFICES ASSUME IInv, [Next]_vars PROVE IInv'
  OBVIOUS
<1>1. ASSUME NEW i \in Installers, Operation(i) PROVE IInv'
  <2>1. CASE \E k \in Kinds, force \in BOOLEAN : Begin(i, k, force)
    BY <2>1, BeginStep
  <2>2. CASE Connect(i) \/ StartSync(i) \/ Install(i) \/ ExecShell(i)
    BY <2>2, ConnectStep
  <2> QED
    BY <1>1, <2>1, <2>2, CheckStep, PushStep, OutputStep DEF Operation
<1>2. CASE UNCHANGED vars
  <2>1. UNCHANGED <<pc, run, runs, kind, result, channel, late, file, written, torn, pm>>
    BY <1>2 DEF vars, operation, storage
  <2> QED
    BY <2>1 DEF IInv, TypeOK, NoSilentPartial, SuccessMeansInstalled, TicketInv, ChannelInv,
                FileInv, Kind, Complete
<1> QED
  BY <1>1, <1>2, ElapseStep, ManagerStep DEF Next

(***************************************************************************)
(* The invariant holds in every state, whatever the number of installers   *)
(* and chunks, with or without a link that fails or is slow.               *)
(***************************************************************************)
THEOREM InvariantHolds == Spec => []IInv
  BY InitInv, NextStep, PTL DEF Spec

(***************************************************************************)
(* Every variable of an installation keeps its type: no file gets more     *)
(* chunks than SyncPushData and SyncPushFile were given.                   *)
(***************************************************************************)
THEOREM TypeCorrect == Spec => []TypeOK
<1>1. IInv => TypeOK
  BY DEF IInv
<1> QED
  BY <1>1, InvariantHolds, PTL

(***************************************************************************)
(* No push of SyncPushData or SyncPushFile reports success for a part of   *)
(* a file: a file that is incomplete is being pushed, or its push failed.  *)
(***************************************************************************)
THEOREM NoPartialSuccess == Spec => []NoSilentPartial
<1>1. IInv => NoSilentPartial
  BY DEF IInv
<1> QED
  BY <1>1, InvariantHolds, PTL

(***************************************************************************)
(* Once InstallServiceJar has returned nil the jar is complete, unless a   *)
(* push broke off or one is under way.                                     *)
(***************************************************************************)
THEOREM JarIsUsable == Spec => []JarUsable
  BY JarFollows, InvariantHolds, PTL

(***************************************************************************)
(* InstallServiceApk returns nil only for a package that the package       *)
(* manager installed.                                                      *)
(***************************************************************************)
THEOREM InstalledOnSuccess == Spec => []SuccessMeansInstalled
<1>1. IInv => SuccessMeansInstalled
  BY DEF IInv
<1> QED
  BY <1>1, InvariantHolds, PTL
=============================================================================
