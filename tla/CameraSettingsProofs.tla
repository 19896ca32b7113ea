------------------------- MODULE CameraSettingsProofs -------------------------
(***************************************************************************)
(* For all values, posts, saves, restarts and numbers of concurrent saves:   *)
(* what is restored was saved, what is saved is fresh, a save that nothing    *)
(* disturbed lasts, and a POST sets what it names.                           *)
(***************************************************************************)
EXTENDS CameraSettings, TLAPS

\* The two orders go through settings; extract_order through all of them.
LEMMA Orders ==
    /\ Len(from_json_order) = 3 /\ Len(extract_order) = 4
    /\ \A i \in 1 .. 3 : from_json_order[i] \in Fields
    /\ \A i \in 1 .. 4 : extract_order[i] \in Fields
    /\ \A f \in Fields : \E i \in 1 .. 4 : extract_order[i] = f
<1>1. \A i \in 1 .. 3 : i = 1 \/ i = 2 \/ i = 3
  OBVIOUS
<1>2. \A i \in 1 .. 4 : i = 1 \/ i = 2 \/ i = 3 \/ i = 4
  OBVIOUS
<1> QED
  BY <1>1, <1>2 DEF from_json_order, extract_order, Fields

LEMMA Initials ==
    /\ Defaults \in Configs
    /\ [f \in Fields |-> 0] \in Configs
    /\ NoSave \in SaveStates
    /\ NoPost \in [k : 0 .. Len(from_json_order), want : Configs]
    /\ Nobody \in [task : SaveTasks \union {"none"}, cfg : Configs]
    /\ Nothing \in [known : BOOLEAN, cfg : Configs]
    /\ Short \in [state : {"absent", "short", "whole"}, cfg : Configs]
BY CameraAssumption, Orders
DEF CameraAssumption, Configs, NoSave, NoPost, Nobody, Nothing, Short, SaveStates

LEMMA SaveStep ==
    ASSUME NEW r \in SaveStates, NEW q \in {"none", "extract", "open", "write", "close"},
           NEW n \in 0 .. Len(extract_order)
    PROVE  [r EXCEPT !.pc = q, !.k = n] \in SaveStates /\ [r EXCEPT !.k = n, !.pc = q] \in SaveStates
BY DEF SaveStates

-----------------------------------------------------------------------------
(* Types.                                                                    *)

LEMMA InitType == Init => TypeOK
<1> SUFFICES ASSUME Init PROVE TypeOK
  OBVIOUS
<1>1. SensorTypeOK /\ HttpdTypeOK
  BY Initials DEF Init, SensorTypeOK, HttpdTypeOK
<1>2. DiskTypeOK
  BY Initials DEF Init, DiskTypeOK
<1>3. SaveTypeOK
  BY Initials DEF Init, SaveTypeOK
<1>4. PromiseTypeOK
  BY Initials DEF Init, PromiseTypeOK
<1> QED
  BY <1>1, <1>2, <1>3, <1>4 DEF TypeOK

LEMMA InitializeType == TypeOK /\ initialize => TypeOK'
<1> SUFFICES ASSUME TypeOK, initialize PROVE TypeOK'
  OBVIOUS
<1>1. UNCHANGED <<volume, posted, before, file, written, httpd, posts, saves, restarts, save, seen,
                  quiet, durable>>
  BY DEF initialize, disk, counters, promise
<1>2. SensorTypeOK'
  <2>1. file[volume].cfg \in Configs
    BY DEF TypeOK, SensorTypeOK, DiskTypeOK
  <2>2. status' \in Configs /\ m_config' \in Configs /\ refused' \subseteq Fields
    BY <2>1 DEF initialize, load, apply_config, TypeOK, SensorTypeOK, Configs
  <2>3. unread' \in BOOLEAN
    <3>1. unread' = (file[volume].state = "whole") \/ unread' = unread
      BY DEF initialize, load
    <3> QED
      BY <3>1 DEF TypeOK, SensorTypeOK
  <2> QED
    BY <1>1, <2>2, <2>3 DEF initialize, TypeOK, SensorTypeOK
<1> QED
  BY <1>1, <1>2 DEF TypeOK, DiskTypeOK, HttpdTypeOK, SaveTypeOK, PromiseTypeOK

LEMMA RestartType == TypeOK /\ Restart => TypeOK'
<1> SUFFICES ASSUME TypeOK, Restart PROVE TypeOK'
  OBVIOUS
<1>1. SensorTypeOK' /\ HttpdTypeOK'
  <2>1. SensorTypeOK'
    BY Initials DEF Restart, SensorTypeOK
  <2>2. HttpdTypeOK'
    BY Initials DEF Restart, TypeOK, HttpdTypeOK
  <2> QED
    BY <2>1, <2>2
<1>2. DiskTypeOK'
  BY DEF Restart, TypeOK, DiskTypeOK, disk
<1>3. save' \in [SaveTasks -> SaveStates]
  BY Initials DEF Restart
<1>4. seen' \in [SaveTasks -> [Fields -> SUBSET Values]]
  BY DEF Restart
<1>5. SaveTypeOK' /\ PromiseTypeOK'
  BY <1>3, <1>4, Initials DEF Restart, TypeOK, SaveTypeOK, PromiseTypeOK
<1> QED
  BY <1>1, <1>2, <1>5 DEF TypeOK

LEMMA PostType == TypeOK /\ camera_post => TypeOK'
<1> SUFFICES ASSUME TypeOK, camera_post PROVE TypeOK'
  OBVIOUS
<1>1. SensorTypeOK' /\ HttpdTypeOK'
  BY Orders DEF camera_post, TypeOK, SensorTypeOK, HttpdTypeOK, start
<1>2. DiskTypeOK' /\ SaveTypeOK'
  BY DEF camera_post, TypeOK, DiskTypeOK, SaveTypeOK, disk
<1>3. PromiseTypeOK'
  BY Initials DEF camera_post, TypeOK, PromiseTypeOK
<1> QED
  BY <1>1, <1>2, <1>3 DEF TypeOK

LEMMA FromJsonType == TypeOK /\ from_json => TypeOK'
<1> SUFFICES ASSUME TypeOK, from_json PROVE TypeOK'
  OBVIOUS
<1> DEFINE f == from_json_order[httpd.k]
           v == httpd.want[f]
<1>1. httpd.k \in 1 .. 3 /\ f \in Fields /\ v \in Values
  BY Orders DEF from_json, TypeOK, HttpdTypeOK, Configs
<1>2. UNCHANGED <<volume, initialized, unread, m_config, before, posted, file, written, posts, saves,
                  restarts, save, quiet, durable>>
  BY DEF from_json, start, disk, counters, promise
<1>3. status' \in Configs /\ refused' \subseteq Fields
  BY <1>1 DEF from_json, TypeOK, SensorTypeOK, Configs
<1>4. seen' \in [SaveTasks -> [Fields -> SUBSET Values]]
  BY <1>1 DEF from_json, TypeOK, SaveTypeOK
<1>5. next_field(httpd.k) \in 0 .. Len(from_json_order)
  BY <1>1, Orders DEF next_field
<1>6. httpd' \in [k : 0 .. Len(from_json_order), want : Configs]
  BY <1>5 DEF from_json, TypeOK, HttpdTypeOK
<1> QED
  BY <1>2, <1>3, <1>4, <1>6
  DEF TypeOK, SensorTypeOK, DiskTypeOK, HttpdTypeOK, SaveTypeOK, PromiseTypeOK

LEMMA SaveType == TypeOK /\ camera_save => TypeOK'
<1> SUFFICES ASSUME TypeOK, camera_save PROVE TypeOK'
  OBVIOUS
<1>1. /\ UNCHANGED <<volume, initialized, unread, status, m_config, before, posted, refused, file,
                     written, httpd, posts, restarts>>
      /\ saves' = saves + 1 /\ durable' = [durable EXCEPT ![volume] = Nothing]
  BY DEF camera_save, start, disk
<1>2. PICK t \in SaveTasks :
         /\ save' = [save EXCEPT ![t] = [NoSave EXCEPT !.pc = "extract", !.k = 1]]
         /\ seen' = [seen EXCEPT ![t] = [f \in Fields |-> {status[f]}]]
         /\ quiet' = IF \A u \in SaveTasks : ~Live(u) THEN [task |-> t, cfg |-> status]
                                                       ELSE Nobody
  BY DEF camera_save
<1>3. [NoSave EXCEPT !.pc = "extract", !.k = 1] \in SaveStates
  <2>1. NoSave \in SaveStates /\ 1 \in 0 .. Len(extract_order)
    BY Initials, Orders
  <2> QED
    BY <2>1, SaveStep, Zenon
<1>4. [f \in Fields |-> {status[f]}] \in [Fields -> SUBSET Values]
  BY DEF TypeOK, SensorTypeOK, Configs
<1>5. SaveTypeOK'
  BY <1>2, <1>3, <1>4 DEF TypeOK, SaveTypeOK
<1>6. PromiseTypeOK'
  <2>1. status \in Configs
    BY DEF TypeOK, SensorTypeOK
  <2>2. quiet' \in {Nobody, [task |-> t, cfg |-> status]}
    BY <1>2
  <2>3. quiet' \in [task : SaveTasks \union {"none"}, cfg : Configs]
    BY <2>1, <2>2, Initials
  <2> QED
    BY <1>1, <2>3, Initials DEF TypeOK, PromiseTypeOK
<1> QED
  BY <1>1, <1>5, <1>6 DEF TypeOK, SensorTypeOK, DiskTypeOK, HttpdTypeOK

LEMMA SaveTaskType == ASSUME NEW t \in SaveTasks PROVE TypeOK /\ save_task(t) => TypeOK'
<1> SUFFICES ASSUME TypeOK, save_task(t) PROVE TypeOK'
  OBVIOUS
<1>1. UNCHANGED <<volume, initialized, unread, status, before, posted, refused, httpd, posts, saves,
                  restarts, seen>>
  BY DEF save_task, extract_config, fopen, fwrite, fclose, SaveFrame, start, counters
<1>2. HttpdTypeOK'
  BY <1>1 DEF TypeOK, HttpdTypeOK
<1>3. ASSUME extract_config(t) PROVE TypeOK'
  <2>1. save[t] \in SaveStates /\ save[t].k \in 0 .. 4
    BY Orders DEF TypeOK, SaveTypeOK, SaveStates
  <2>2. [save[t] EXCEPT !.k = 0, !.pc = "open"] \in SaveStates
    <3>1. 0 \in 0 .. Len(extract_order)
      BY Orders
    <3> QED
      BY <2>1, <3>1, SaveStep, Zenon
  <2>3. save[t].k # Len(extract_order) => [save[t] EXCEPT !.k = save[t].k + 1] \in SaveStates
    BY <2>1, Orders DEF SaveStates
  <2>4. SaveTypeOK'
    <3>1. CASE save[t].k = Len(extract_order)
      BY <1>1, <1>3, <2>2, <3>1 DEF extract_config, TypeOK, SaveTypeOK
    <3>2. CASE save[t].k # Len(extract_order)
      BY <1>1, <1>3, <2>3, <3>2 DEF extract_config, TypeOK, SaveTypeOK
    <3> QED
      BY <3>1, <3>2
  <2>5. SensorTypeOK'
    BY <1>1, <1>3 DEF extract_config, TypeOK, SensorTypeOK, Configs
  <2>6. DiskTypeOK' /\ PromiseTypeOK'
    BY <1>3 DEF extract_config, disk, promise, TypeOK, DiskTypeOK, PromiseTypeOK
  <2> QED
    BY <1>2, <2>4, <2>5, <2>6 DEF TypeOK
<1>4. ASSUME fopen(t) \/ fwrite(t) \/ fclose(t) PROVE TypeOK'
  <2>1. m_config' = m_config
    BY <1>4 DEF fopen, fwrite, fclose
  <2>2. SensorTypeOK'
    BY <1>1, <2>1 DEF TypeOK, SensorTypeOK
  <2>3. \/ save' = [save EXCEPT ![t] = NoSave]
        \/ save' = [save EXCEPT ![t] = [save[t] EXCEPT !.pc = "write"]]
        \/ save' = [save EXCEPT ![t] = [save[t] EXCEPT !.pc = "close", !.buf = m_config]]
    BY <1>4 DEF fopen, fwrite, fclose, Fails, Succeeds
  <2>4. /\ [save[t] EXCEPT !.pc = "write"] \in SaveStates
        /\ [save[t] EXCEPT !.pc = "close", !.buf = m_config] \in SaveStates
    BY DEF TypeOK, SensorTypeOK, SaveTypeOK, SaveStates
  <2>5. SaveTypeOK'
    BY <1>1, <2>3, <2>4, Initials DEF TypeOK, SaveTypeOK
  <2>6. save[t].buf \in Configs
    BY DEF TypeOK, SaveTypeOK, SaveStates
  <2>7. DiskTypeOK'
    <3>1. \/ file' = file
          \/ file' = [file EXCEPT ![volume] = Short]
          \/ file' = [file EXCEPT ![volume] = Whole(save[t].buf)]
      BY <1>4 DEF fopen, fwrite, fclose, disk
    <3>2. \/ written' = written
          \/ written' = [written EXCEPT ![volume].cut = TRUE]
          \/ written' = [written EXCEPT ![volume] =
                            [known |-> TRUE, cfg |-> save[t].buf, cut |-> FALSE]]
      BY <1>4 DEF fopen, fwrite, fclose, Succeeds, disk
    <3>3. file' \in [Volumes -> [state : {"absent", "short", "whole"}, cfg : Configs]]
      BY <2>6, <3>1, Initials DEF TypeOK, DiskTypeOK, Whole
    <3>4. written' \in [Volumes -> [known : BOOLEAN, cfg : Configs, cut : BOOLEAN]]
      <4>1. CASE written' = written
        BY <4>1 DEF TypeOK, DiskTypeOK
      <4>2. CASE written' = [written EXCEPT ![volume].cut = TRUE]
        BY <4>2 DEF TypeOK, DiskTypeOK
      <4>3. CASE written' = [written EXCEPT ![volume] =
                                [known |-> TRUE, cfg |-> save[t].buf, cut |-> FALSE]]
        BY <2>6, <4>3 DEF TypeOK, DiskTypeOK
      <4> QED
        BY <3>2, <4>1, <4>2, <4>3
    <3> QED
      BY <3>3, <3>4 DEF DiskTypeOK
  <2>8. PromiseTypeOK'
    <3>1. quiet' \in {quiet, Nobody}
      BY <1>4 DEF fopen, fwrite, fclose, Fails, Succeeds, promise
    <3>2. quiet.cfg \in Configs /\ durable \in [Volumes -> [known : BOOLEAN, cfg : Configs]]
      BY DEF TypeOK, PromiseTypeOK
    <3>3. quiet' \in [task : SaveTasks \union {"none"}, cfg : Configs]
      BY <3>1, Initials DEF TypeOK, PromiseTypeOK
    <3>4. durable' \in [Volumes -> [known : BOOLEAN, cfg : Configs]]
      <4>1. \/ durable' = durable
            \/ durable' = [durable EXCEPT ![volume] =
                              IF quiet.task = t THEN [known |-> TRUE, cfg |-> quiet.cfg] ELSE @]
        BY <1>4 DEF fopen, fwrite, fclose, Fails, Succeeds, promise
      <4>2. [known |-> TRUE, cfg |-> quiet.cfg] \in [known : BOOLEAN, cfg : Configs]
        BY <3>2
      <4> QED
        BY <3>2, <4>1, <4>2
    <3> QED
      BY <3>3, <3>4 DEF PromiseTypeOK
  <2> QED
    BY <1>2, <2>2, <2>5, <2>7, <2>8 DEF TypeOK
<1> QED
  BY <1>3, <1>4 DEF save_task

\* Every variable has a value of its type.
THEOREM CameraTypeCorrect == Spec => []TypeOK
<1>1. TypeOK /\ UNCHANGED vars => TypeOK'
  BY DEF vars, start, disk, counters, promise, TypeOK, SensorTypeOK, DiskTypeOK, HttpdTypeOK,
         SaveTypeOK, PromiseTypeOK
<1>2. TypeOK /\ [Next]_vars => TypeOK'
  BY <1>1, InitializeType, RestartType, PostType, FromJsonType, SaveType, SaveTaskType
  DEF Next, camera_post_partial
<1> QED
  BY <1>2, InitType, PTL DEF Spec

-----------------------------------------------------------------------------
(* The inductive invariant.                                                  *)

\* Whatever a live task has copied was the setting's value since its request.
FreshCopies ==
    \A t \in SaveTasks, f \in Fields : Live(t) =>
        /\ status[f] \in seen[t][f]
        /\ save[t].pc = "extract" =>
              \A i \in 1 .. 4 : i < save[t].k /\ extract_order[i] = f => m_config[f] \in seen[t][f]
        /\ save[t].pc \in {"open", "write"} => m_config[f] \in seen[t][f]
        /\ save[t].pc = "close" => save[t].buf[f] \in seen[t][f]

\* Nothing runs before the sensor is initialized.
Order ==
    /\ ~initialized => /\ ~posted /\ status = Defaults
                       /\ \A t \in SaveTasks : ~Live(t)
    /\ httpd.k > 0 => posted

\* Without a POST there is one value per setting to save.
Steady ==
    ~posted => \A t \in SaveTasks, f \in Fields : Live(t) => seen[t][f] \subseteq {status[f]}

\* A whole file holds what was last written whole to its volume; any other was cut,
\* or never was.
FileIsWritten ==
    \A v \in Volumes :
        /\ file[v].state = "whole" => written[v].known /\ file[v].cfg = written[v].cfg
        /\ file[v].state # "whole" => ~written[v].known \/ written[v].cut

\* The undisturbed save is alone, and has one value per setting to save.
Undisturbed ==
    \A t \in SaveTasks : quiet.task = t =>
        /\ Live(t) /\ httpd.k = 0
        /\ \A u \in SaveTasks : Live(u) => u = t
        /\ \A f \in Fields : seen[t][f] \subseteq {quiet.cfg[f]}

\* Nobody writes the file while an undisturbed save is what it holds; save tasks
\* write to the volume that is mounted.
Durable ==
    \A v \in Volumes : durable[v].known =>
        /\ v = volume => \A t \in SaveTasks : ~Live(t)
        /\ file[v] = Whole(durable[v].cfg)

\* from_json compares dcw with a denoise that it has not set yet.
PostInProgress ==
    /\ PostedFieldsApplied
    /\ posted /\ httpd.k \in {1, 2} => status["denoise"] = before["denoise"]

IInv == /\ TypeOK /\ FreshCopies /\ Order /\ Steady /\ FileIsWritten /\ RestoredIsWritten
        /\ Undisturbed /\ Durable /\ PostInProgress

LEMMA InitIInv == Init => IInv
<1> SUFFICES ASSUME Init PROVE IInv
  OBVIOUS
<1>1. TypeOK
  BY InitType
<1>2. FreshCopies /\ Order /\ Steady /\ Undisturbed
  BY CameraAssumption
  DEF Init, FreshCopies, Order, Steady, Undisturbed, Live, NoSave, NoPost, Nobody,
      CameraAssumption
<1>3. FileIsWritten /\ RestoredIsWritten /\ Durable /\ PostInProgress
  BY DEF Init, FileIsWritten, RestoredIsWritten, Durable, Nothing, PostInProgress,
         PostedFieldsApplied
<1> QED
  BY <1>1, <1>2, <1>3 DEF IInv

LEMMA InitializeIInv == IInv /\ initialize => IInv'
<1> SUFFICES ASSUME IInv, initialize PROVE IInv'
  OBVIOUS
<1>1. TypeOK'
  BY InitializeType DEF IInv
<1>2. /\ ~posted /\ ~posted' /\ initialized'
      /\ UNCHANGED <<volume, file, written, httpd, save, seen, quiet, durable>>
      /\ \A t \in SaveTasks : ~Live(t)
  BY DEF IInv, Order, initialize, disk, promise
<1>3. \A t \in SaveTasks : ~Live(t)'
  BY <1>2 DEF Live
<1>4. FreshCopies' /\ Order' /\ Steady' /\ Undisturbed'
  BY <1>2, <1>3 DEF IInv, Order, FreshCopies, Steady, Undisturbed
<1>5. FileIsWritten' /\ Durable'
  BY <1>2, <1>3 DEF IInv, FileIsWritten, Durable
<1>6. PostInProgress'
  BY <1>2 DEF PostInProgress, PostedFieldsApplied
<1>7. RestoredIsWritten'
  <2>1. volume \in Volumes
    BY DEF IInv, TypeOK, SensorTypeOK
  <2>2. CASE status' = status /\ unread' = (file[volume].state = "whole")
    <3>1. status' = Defaults
      BY <2>2 DEF initialize, IInv, Order
    <3>2. ~written[volume].known \/ written[volume].cut \/ unread'
      BY <2>1, <2>2 DEF IInv, FileIsWritten
    <3> QED
      BY <1>2, <3>1, <3>2 DEF RestoredIsWritten
  <2>3. CASE file[volume].state = "whole" /\ apply_config(file[volume].cfg)
    <3>1. \A f \in Fields \ refused' : status'[f] = file[volume].cfg[f]
      BY <2>3 DEF apply_config
    <3>2. written[volume].known /\ file[volume].cfg = written[volume].cfg
      BY <2>1, <2>3 DEF IInv, FileIsWritten
    <3> QED
      BY <1>2, <3>1, <3>2 DEF RestoredIsWritten
  <2> QED
    BY <2>2, <2>3 DEF initialize, load
<1> QED
  BY <1>1, <1>4, <1>5, <1>6, <1>7 DEF IInv

LEMMA RestartIInv == IInv /\ Restart => IInv'
<1> SUFFICES ASSUME IInv, Restart PROVE IInv'
  OBVIOUS
<1>1. TypeOK'
  BY RestartType DEF IInv
<1>2. /\ ~posted' /\ ~initialized' /\ httpd' = NoPost /\ status' = Defaults
      /\ quiet' = Nobody /\ UNCHANGED <<file, written, durable>>
      /\ save' = [t \in SaveTasks |-> NoSave]
  BY DEF Restart, disk
<1>3. \A t \in SaveTasks : ~Live(t)'
  BY <1>2 DEF Live, NoSave
<1>4. FreshCopies' /\ Order' /\ Steady' /\ Undisturbed'
  BY <1>2, <1>3, CameraAssumption
  DEF FreshCopies, Order, Steady, Undisturbed, NoPost, Nobody, CameraAssumption
<1>5. FileIsWritten' /\ Durable'
  BY <1>2, <1>3 DEF IInv, FileIsWritten, Durable
<1>6. PostInProgress' /\ RestoredIsWritten'
  BY <1>2 DEF PostInProgress, PostedFieldsApplied, RestoredIsWritten
<1> QED
  BY <1>1, <1>4, <1>5, <1>6 DEF IInv

LEMMA PostIInv == IInv /\ camera_post => IInv'
<1> SUFFICES ASSUME IInv, camera_post PROVE IInv'
  OBVIOUS
<1>1. TypeOK'
  BY PostType DEF IInv
<1>2. /\ initialized /\ posted' = TRUE /\ httpd'.k = 1 /\ before' = status
      /\ quiet' = Nobody
      /\ UNCHANGED <<volume, initialized, status, m_config, file, written, save, seen, durable>>
  BY DEF camera_post, start, disk
<1>3. FreshCopies'
  BY <1>2 DEF IInv, FreshCopies, Live
<1>4. Order' /\ Steady' /\ RestoredIsWritten'
  BY <1>2 DEF Order, Steady, RestoredIsWritten
<1>5. Undisturbed'
  BY <1>2, CameraAssumption DEF Undisturbed, Nobody, CameraAssumption
<1>6. FileIsWritten' /\ Durable'
  BY <1>2 DEF IInv, FileIsWritten, Durable, Live
<1>7. PostInProgress'
  <2>1. DOMAIN from_json_order = 1 .. 3
    BY DEF from_json_order
  <2> QED
    BY <1>2, <2>1 DEF PostInProgress, PostedFieldsApplied
<1> QED
  BY <1>1, <1>3, <1>4, <1>5, <1>6, <1>7 DEF IInv

LEMMA FromJsonIInv == IInv /\ from_json => IInv'
<1> SUFFICES ASSUME IInv, from_json PROVE IInv'
  OBVIOUS
<1> DEFINE g == from_json_order[httpd.k]
           v == httpd.want[g]
<1>1. TypeOK'
  BY FromJsonType DEF IInv
<1>2. httpd.k \in 1 .. 3 /\ g \in Fields /\ posted /\ initialized
  BY Orders DEF IInv, TypeOK, HttpdTypeOK, Order, from_json
<1>3. UNCHANGED <<volume, initialized, m_config, file, written, save, before, posted, quiet, durable>>
  BY DEF from_json, start, disk, counters, promise
<1>4. \/ v = status[compared(g)] /\ UNCHANGED <<status, refused, seen>>
      \/ /\ status' = [status EXCEPT ![g] = v]
         /\ seen' = [t \in SaveTasks |-> IF Live(t)
                       THEN [seen[t] EXCEPT ![g] = @ \union {v}] ELSE seen[t]]
         /\ UNCHANGED refused
      \/ refused' = refused \union {g} /\ UNCHANGED <<status, seen>>
  BY DEF from_json
<1>5. httpd' = [httpd EXCEPT !.k = next_field(httpd.k)]
  BY DEF from_json
<1>6. FreshCopies'
  <2> SUFFICES ASSUME NEW t \in SaveTasks, NEW f \in Fields, Live(t)
               PROVE  status'[f] \in seen'[t][f] /\ seen[t][f] \subseteq seen'[t][f]
    BY <1>3 DEF IInv, FreshCopies, Live
  <2>1. status[f] \in seen[t][f]
    BY DEF IInv, FreshCopies
  <2>2. CASE UNCHANGED <<status, seen>>
    BY <2>1, <2>2
  <2>3. CASE /\ status' = [status EXCEPT ![g] = v]
             /\ seen' = [u \in SaveTasks |-> IF Live(u)
                           THEN [seen[u] EXCEPT ![g] = @ \union {v}] ELSE seen[u]]
    <3> HIDE DEF g, v
    <3>1. seen'[t] = [seen[t] EXCEPT ![g] = seen[t][g] \union {v}]
      BY <2>3
    <3>2. seen[t] \in [Fields -> SUBSET Values] /\ status \in [Fields -> Values]
      BY DEF IInv, TypeOK, SensorTypeOK, SaveTypeOK, Configs
    <3> QED
      BY <2>1, <2>3, <3>1, <3>2
  <2> QED
    BY <1>4, <2>2, <2>3
<1>7. Order' /\ Steady' /\ RestoredIsWritten'
  BY <1>2, <1>3 DEF Order, Steady, RestoredIsWritten
<1>8. Undisturbed'
  <2>1. \A t \in SaveTasks : quiet.task # t
    BY <1>2 DEF IInv, Undisturbed
  <2> QED
    BY <1>3, <2>1 DEF Undisturbed
<1>9. FileIsWritten' /\ Durable'
  BY <1>3 DEF IInv, FileIsWritten, Durable, Live
<1>10. PostInProgress'
  <2>1. /\ httpd.k = 1 => g = "framesize" /\ httpd'.k = 2
        /\ httpd.k = 2 => g = "dcw" /\ httpd'.k = 3
        /\ httpd.k = 3 => g = "denoise" /\ httpd'.k = 0
        /\ httpd'.want = httpd.want
    BY <1>2, <1>5 DEF next_field, from_json_order, IInv, TypeOK, HttpdTypeOK
  <2>2. \A f \in Fields : f # g => status'[f] = status[f]
    BY <1>2, <1>4 DEF IInv, TypeOK, SensorTypeOK, Configs
  <2>3. status'["aec"] = before'["aec"]
    BY <1>2, <1>3, <2>1, <2>2 DEF IInv, PostInProgress, PostedFieldsApplied, Fields
  <2>4. httpd'.k = 2 => status'["denoise"] = before'["denoise"]
    BY <1>2, <1>3, <2>1, <2>2 DEF IInv, PostInProgress, Fields
  <2>5. g \in refused' \/ status'[g] = v \/ (g = "dcw" /\ v = before["denoise"])
    <3> HIDE DEF g, v
    <3>0. httpd.k = 1 \/ httpd.k = 2 \/ httpd.k = 3
      BY <1>2
    <3>1. compared(g) = g \/ (g = "dcw" /\ compared(g) = "denoise" /\ httpd.k = 2)
      BY <2>1, <3>0 DEF compared
    <3>2. httpd.k = 2 => status["denoise"] = before["denoise"]
      BY <1>2 DEF IInv, PostInProgress
    <3>3. status \in [Fields -> Values]
      BY DEF IInv, TypeOK, SensorTypeOK, Configs
    <3>4. CASE UNCHANGED status /\ v = status[compared(g)]
      BY <3>1, <3>2, <3>4
    <3>5. CASE status' = [status EXCEPT ![g] = v]
      BY <1>2, <3>3, <3>5
    <3>6. CASE refused' = refused \union {g}
      BY <3>6
    <3> QED
      BY <1>4, <3>4, <3>5, <3>6
  <2>6. ASSUME NEW i \in 1 .. 3, i < httpd.k, from_json_order[i] \notin refused'
        PROVE  \/ status'[from_json_order[i]] = httpd.want[from_json_order[i]]
               \/ from_json_order[i] = "dcw" /\ httpd.want[from_json_order[i]] = before["denoise"]
    <3>1. from_json_order[i] # g /\ from_json_order[i] \in Fields
      BY <1>2, <2>6, Orders DEF from_json_order
    <3>2. from_json_order[i] \notin refused
      BY <1>4, <2>6
    <3>3. DOMAIN from_json_order = 1 .. 3
      BY DEF from_json_order
    <3> QED
      BY <1>2, <2>2, <2>6, <3>1, <3>2, <3>3 DEF IInv, PostInProgress, PostedFieldsApplied
  <2>7. ASSUME NEW i \in 1 .. 3, httpd'.k = 0 \/ i < httpd'.k PROVE i = httpd.k \/ i < httpd.k
    BY <1>2, <2>1, <2>7
  <2>8. DOMAIN from_json_order = 1 .. 3
    BY DEF from_json_order
  <2>9. PostedFieldsApplied'
    BY <1>3, <2>1, <2>3, <2>5, <2>6, <2>7, <2>8 DEF PostedFieldsApplied
  <2> QED
    BY <1>2, <1>3, <2>1, <2>4, <2>9 DEF PostInProgress
<1> QED
  BY <1>1, <1>6, <1>7, <1>8, <1>9, <1>10 DEF IInv

LEMMA SaveIInv == IInv /\ camera_save => IInv'
<1> SUFFICES ASSUME IInv, camera_save PROVE IInv'
  OBVIOUS
<1>1. TypeOK'
  BY SaveType DEF IInv
<1>2. /\ initialized /\ httpd.k = 0 /\ durable' = [durable EXCEPT ![volume] = Nothing]
      /\ UNCHANGED <<volume, initialized, unread, status, m_config, file, written, httpd, refused,
                     before, posted>>
  BY DEF camera_save, start, disk
<1>3. PICK t \in SaveTasks :
         /\ ~Live(t)
         /\ save' = [save EXCEPT ![t] = [NoSave EXCEPT !.pc = "extract", !.k = 1]]
         /\ seen' = [seen EXCEPT ![t] = [f \in Fields |-> {status[f]}]]
         /\ quiet' = IF \A u \in SaveTasks : ~Live(u) THEN [task |-> t, cfg |-> status]
                                                       ELSE Nobody
  BY DEF camera_save
<1>4. /\ save'[t].pc = "extract" /\ save'[t].k = 1
      /\ \A f \in Fields : seen'[t][f] = {status[f]}
      /\ \A u \in SaveTasks : u # t => save'[u] = save[u] /\ seen'[u] = seen[u]
  BY <1>3 DEF IInv, TypeOK, SaveTypeOK, NoSave
<1>5. FreshCopies'
  <2> SUFFICES ASSUME NEW u \in SaveTasks, NEW f \in Fields, Live(u)'
               PROVE /\ status'[f] \in seen'[u][f]
                     /\ save'[u].pc = "extract" =>
                           \A i \in 1 .. 4 : i < save'[u].k /\ extract_order[i] = f
                                             => m_config'[f] \in seen'[u][f]
                     /\ save'[u].pc \in {"open", "write"} => m_config'[f] \in seen'[u][f]
                     /\ save'[u].pc = "close" => save'[u].buf[f] \in seen'[u][f]
    BY DEF FreshCopies
  <2>1. CASE u = t
    BY <1>2, <1>4, <2>1
  <2>2. CASE u # t
    BY <1>2, <1>4, <2>2 DEF IInv, FreshCopies, Live
  <2> QED
    BY <2>1, <2>2
<1>6. Order' /\ RestoredIsWritten' /\ FileIsWritten' /\ PostInProgress'
  BY <1>2 DEF IInv, Order, RestoredIsWritten, FileIsWritten, PostInProgress, PostedFieldsApplied
<1>7. Steady'
  <2> SUFFICES ASSUME ~posted, NEW u \in SaveTasks, NEW f \in Fields, Live(u)'
               PROVE  seen'[u][f] \subseteq {status[f]}
    BY <1>2 DEF Steady
  <2> QED
    BY <1>4 DEF IInv, Steady, Live
<1>8. Undisturbed'
  <2>1. CASE \A u \in SaveTasks : ~Live(u)
    <3>1. quiet'.task = t /\ quiet'.cfg = status
      BY <1>3, <2>1
    <3>2. \A u \in SaveTasks : Live(u)' <=> u = t
      BY <1>4, <2>1 DEF Live
    <3> QED
      BY <1>2, <1>4, <3>1, <3>2 DEF Undisturbed
  <2>2. CASE ~\A u \in SaveTasks : ~Live(u)
    BY <1>3, <2>2, CameraAssumption DEF Undisturbed, Nobody, CameraAssumption
  <2> QED
    BY <2>1, <2>2
<1>9. Durable'
  <2>1. ~durable'[volume].known /\ \A v \in Volumes : v # volume => durable'[v] = durable[v]
    BY <1>2 DEF IInv, TypeOK, SensorTypeOK, PromiseTypeOK, Nothing
  <2> QED
    BY <1>2, <2>1 DEF IInv, Durable
<1> QED
  BY <1>1, <1>5, <1>6, <1>7, <1>8, <1>9 DEF IInv

\* What the steps of a save task have in common.
LEMMA SaveTaskFrame ==
    ASSUME TypeOK, NEW t \in SaveTasks, save_task(t)
    PROVE  /\ Live(t)
           /\ UNCHANGED <<volume, initialized, unread, status, httpd, refused, before, seen, posted>>
           /\ \A u \in SaveTasks : u # t => save'[u] = save[u]
           /\ \A u \in SaveTasks : Live(u)' => Live(u)
<1>1. /\ Live(t)
      /\ UNCHANGED <<volume, initialized, unread, status, httpd, refused, before, seen, posted>>
  BY DEF save_task, extract_config, fopen, fwrite, fclose, SaveFrame, start, Live
<1>2. \A u \in SaveTasks : u # t => save'[u] = save[u]
  BY DEF save_task, extract_config, fopen, fwrite, fclose, Fails, Succeeds, TypeOK, SaveTypeOK
<1> QED
  BY <1>1, <1>2 DEF Live

LEMMA ExtractFresh ==
    ASSUME IInv, NEW t \in SaveTasks, extract_config(t)
    PROVE  FreshCopies'
<1> DEFINE g == extract_order[save[t].k]
<1>1. UNCHANGED <<status, seen>> /\ Live(t) /\ \A u \in SaveTasks : u # t => save'[u] = save[u]
  BY SaveTaskFrame DEF save_task, IInv
<1>2. save[t] \in SaveStates /\ save[t].k \in 0 .. 4 /\ m_config \in [Fields -> Values]
  BY Orders DEF IInv, TypeOK, SensorTypeOK, SaveTypeOK, SaveStates, Configs
<1>3. \A f \in Fields : m_config'[f] = IF f = g THEN status[f] ELSE m_config[f]
  BY <1>2 DEF extract_config
<1>4. /\ save[t].k = 4 => save'[t].pc = "open"
      /\ save[t].k # 4 => save'[t].pc = "extract" /\ save'[t].k = save[t].k + 1
  <2>1. CASE save[t].k = 4
    BY <1>2, <2>1, Orders DEF extract_config, IInv, TypeOK, SaveTypeOK, SaveStates
  <2>2. CASE save[t].k # 4
    BY <1>2, <2>2, Orders DEF extract_config, IInv, TypeOK, SaveTypeOK, SaveStates
  <2> QED
    BY <2>1, <2>2
<1> SUFFICES ASSUME NEW u \in SaveTasks, NEW f \in Fields, Live(u)'
             PROVE /\ status[f] \in seen[u][f]
                   /\ save'[u].pc = "extract" =>
                         \A i \in 1 .. 4 : i < save'[u].k /\ extract_order[i] = f
                                           => m_config'[f] \in seen[u][f]
                   /\ save'[u].pc \in {"open", "write"} => m_config'[f] \in seen[u][f]
                   /\ save'[u].pc = "close" => save'[u].buf[f] \in seen[u][f]
  BY <1>1 DEF FreshCopies
<1>5. Live(u) /\ status[f] \in seen[u][f]
  BY <1>1 DEF IInv, FreshCopies, Live
<1>6. CASE u # t
  BY <1>1, <1>3, <1>5, <1>6 DEF IInv, FreshCopies
<1>7. CASE u = t
  <2>1. save[t].pc = "extract"
    BY DEF extract_config
  <2>2. \A i \in 1 .. 4 : i < save[t].k /\ extract_order[i] = f => m_config[f] \in seen[t][f]
    BY <1>1, <2>1 DEF IInv, FreshCopies
  <2>3. \A i \in 1 .. 4 : i <= save[t].k /\ extract_order[i] = f => m_config'[f] \in seen[t][f]
    <3> TAKE i \in 1 .. 4
    <3>1. CASE i = save[t].k
      BY <1>3, <1>5, <1>7, <3>1
    <3>2. CASE i # save[t].k
      BY <1>2, <1>3, <1>5, <1>7, <2>2, <3>2
    <3> QED
      BY <3>1, <3>2
  <2>4. CASE save[t].k = 4
    <3>1. PICK i \in 1 .. 4 : extract_order[i] = f
      BY Orders
    <3>2. m_config'[f] \in seen[t][f]
      BY <2>3, <2>4, <3>1
    <3> QED
      BY <1>4, <1>5, <1>7, <2>4, <3>2
  <2>5. CASE save[t].k # 4
    <3>1. \A i \in 1 .. 4 : i < save[t].k + 1 => i <= save[t].k
      BY <1>2
    <3> QED
      BY <1>4, <1>5, <1>7, <2>3, <2>5, <3>1
  <2> QED
    BY <2>4, <2>5
<1> QED
  BY <1>6, <1>7

LEMMA FileFresh ==
    ASSUME IInv, NEW t \in SaveTasks, fopen(t) \/ fwrite(t) \/ fclose(t)
    PROVE  FreshCopies'
<1>1. /\ UNCHANGED <<status, seen>> /\ Live(t)
      /\ \A u \in SaveTasks : u # t => save'[u] = save[u]
      /\ \A u \in SaveTasks : Live(u)' => Live(u)
  BY SaveTaskFrame DEF save_task, IInv
<1>2. m_config' = m_config
  BY DEF fopen, fwrite, fclose
<1>3. \/ save'[t].pc = "none"
      \/ save[t].pc = "open" /\ save'[t].pc = "write"
      \/ save[t].pc = "write" /\ save'[t].pc = "close" /\ save'[t].buf = m_config
  <2>1. save[t] \in SaveStates
    BY DEF IInv, TypeOK, SaveTypeOK
  <2>2. \/ save'[t] = NoSave
        \/ save[t].pc = "open" /\ save'[t] = [save[t] EXCEPT !.pc = "write"]
        \/ save[t].pc = "write" /\ save'[t] = [save[t] EXCEPT !.pc = "close", !.buf = m_config]
    BY DEF fopen, fwrite, fclose, Fails, Succeeds, IInv, TypeOK, SaveTypeOK
  <2>3. CASE save'[t] = NoSave
    BY <2>3 DEF NoSave
  <2>4. CASE save[t].pc = "open" /\ save'[t] = [save[t] EXCEPT !.pc = "write"]
    BY <2>1, <2>4 DEF SaveStates
  <2>5. CASE save[t].pc = "write" /\ save'[t] = [save[t] EXCEPT !.pc = "close", !.buf = m_config]
    BY <2>1, <2>5 DEF SaveStates
  <2> QED
    BY <2>2, <2>3, <2>4, <2>5
<1> SUFFICES ASSUME NEW u \in SaveTasks, NEW f \in Fields, Live(u)'
             PROVE /\ status[f] \in seen[u][f]
                   /\ save'[u].pc = "extract" =>
                         \A i \in 1 .. 4 : i < save'[u].k /\ extract_order[i] = f
                                           => m_config[f] \in seen[u][f]
                   /\ save'[u].pc \in {"open", "write"} => m_config[f] \in seen[u][f]
                   /\ save'[u].pc = "close" => save'[u].buf[f] \in seen[u][f]
  BY <1>1, <1>2 DEF FreshCopies
<1>4. CASE u # t
  BY <1>1, <1>4 DEF IInv, FreshCopies
<1>5. CASE u = t
  BY <1>1, <1>3, <1>5 DEF IInv, FreshCopies, Live
<1> QED
  BY <1>4, <1>5

LEMMA SaveTaskIInv == ASSUME NEW t \in SaveTasks PROVE IInv /\ save_task(t) => IInv'
<1> SUFFICES ASSUME IInv, save_task(t) PROVE IInv'
  OBVIOUS
<1>1. TypeOK'
  BY SaveTaskType DEF IInv
<1>2. /\ UNCHANGED <<volume, initialized, unread, status, httpd, refused, before, seen, posted>>
      /\ Live(t)
      /\ \A u \in SaveTasks : u # t => save'[u] = save[u]
      /\ \A u \in SaveTasks : Live(u)' => Live(u)
  BY SaveTaskFrame DEF IInv
<1>3. initialized
  BY <1>2 DEF IInv, Order
<1>4. ~durable[volume].known /\ volume \in Volumes
  BY <1>2 DEF IInv, Durable, TypeOK, SensorTypeOK
<1>5. FreshCopies'
  BY ExtractFresh, FileFresh DEF save_task
<1>6. Order' /\ Steady'
  BY <1>2, <1>3 DEF IInv, Order, Steady
<1>7. \/ UNCHANGED <<file, written>>
      \/ /\ file' \in {file, [file EXCEPT ![volume] = Short]}
         /\ written' = [written EXCEPT ![volume].cut = TRUE]
      \/ /\ fclose(t) /\ file' = [file EXCEPT ![volume] = Whole(save[t].buf)]
         /\ written' = [written EXCEPT ![volume] =
                           [known |-> TRUE, cfg |-> save[t].buf, cut |-> FALSE]]
  BY DEF save_task, extract_config, fopen, fwrite, fclose, Succeeds, disk
<1>8. /\ written \in [Volumes -> [known : BOOLEAN, cfg : Configs, cut : BOOLEAN]]
      /\ file \in [Volumes -> [state : {"absent", "short", "whole"}, cfg : Configs]]
  BY DEF IInv, TypeOK, DiskTypeOK
<1>9. FileIsWritten'
  <2> SUFFICES ASSUME NEW v \in Volumes
               PROVE  /\ file'[v].state = "whole" => written'[v].known /\ file'[v].cfg = written'[v].cfg
                      /\ file'[v].state # "whole" => ~written'[v].known \/ written'[v].cut
    BY DEF FileIsWritten
  <2>1. CASE file'[v] = file[v] /\ written'[v] = written[v]
    BY <2>1 DEF IInv, FileIsWritten
  <2>2. CASE file'[v] \in {file[v], Short} /\ written'[v] = [written[v] EXCEPT !.cut = TRUE]
    BY <1>8, <2>2 DEF IInv, FileIsWritten, Short
  <2>3. CASE /\ file'[v] = Whole(save[t].buf)
             /\ written'[v] = [known |-> TRUE, cfg |-> save[t].buf, cut |-> FALSE]
    BY <2>3 DEF Whole
  <2> QED
    BY <1>7, <1>8, <2>1, <2>2, <2>3
<1>10. RestoredIsWritten'
  <2>1. CASE UNCHANGED <<file, written>>
    BY <1>2, <2>1 DEF IInv, RestoredIsWritten
  <2>2. CASE written' = [written EXCEPT ![volume].cut = TRUE]
    <3>1. written'[volume] = [written[volume] EXCEPT !.cut = TRUE]
      BY <1>4, <1>8, <2>2
    <3> QED
      BY <1>2, <1>4, <1>8, <3>1 DEF IInv, RestoredIsWritten
  <2>3. CASE /\ fclose(t)
             /\ written' = [written EXCEPT ![volume] =
                               [known |-> TRUE, cfg |-> save[t].buf, cut |-> FALSE]]
    <3>1. ASSUME ~posted, NEW f \in Fields PROVE save[t].buf[f] = status[f]
      <4>1. save[t].buf[f] \in seen[t][f]
        BY <1>2, <2>3 DEF IInv, FreshCopies, fclose
      <4>2. seen[t][f] \subseteq {status[f]}
        BY <1>2, <3>1 DEF IInv, Steady
      <4> QED
        BY <4>1, <4>2
    <3>2. written'[volume] = [known |-> TRUE, cfg |-> save[t].buf, cut |-> FALSE]
      BY <1>4, <1>8, <2>3
    <3> QED
      BY <1>2, <3>1, <3>2 DEF RestoredIsWritten
  <2> QED
    BY <1>7, <2>1, <2>2, <2>3
<1>11. quiet' = Nobody \/ Live(t)' \/ quiet.task # t
  <2>1. save \in [SaveTasks -> SaveStates]
    BY DEF IInv, TypeOK, SaveTypeOK
  <2>2. CASE extract_config(t)
    <3>1. CASE save[t].k = Len(extract_order)
      BY <2>1, <2>2, <3>1 DEF extract_config, Live, SaveStates
    <3>2. CASE save[t].k # Len(extract_order)
      BY <2>1, <2>2, <3>2 DEF extract_config, Live, SaveStates
    <3> QED
      BY <3>1, <3>2
  <2>3. CASE fopen(t)
    BY <2>1, <2>3 DEF fopen, Fails, Live, SaveStates
  <2>4. CASE fwrite(t)
    BY <2>1, <2>4 DEF fwrite, Live, SaveStates
  <2>5. CASE fclose(t)
    BY <2>5 DEF fclose, Fails, Succeeds
  <2> QED
    BY <2>2, <2>3, <2>4, <2>5 DEF save_task
<1>12. quiet' \in {quiet, Nobody}
  BY DEF save_task, extract_config, fopen, fwrite, fclose, Fails, Succeeds, promise
<1>13. Undisturbed'
  <2> SUFFICES ASSUME NEW u \in SaveTasks, quiet'.task = u
               PROVE  /\ Live(u)' /\ httpd.k = 0
                      /\ \A w \in SaveTasks : Live(w)' => w = u
                      /\ \A f \in Fields : seen[u][f] \subseteq {quiet'.cfg[f]}
    BY <1>2 DEF Undisturbed
  <2>1. quiet' = quiet /\ quiet' # Nobody
    BY <1>12, CameraAssumption DEF Nobody, CameraAssumption
  <2>2. u = t
    BY <1>2, <2>1 DEF IInv, Undisturbed
  <2> QED
    BY <1>2, <1>11, <2>1, <2>2 DEF IInv, Undisturbed
<1>14. Durable'
  <2> SUFFICES ASSUME NEW v \in Volumes, durable'[v].known
               PROVE  /\ v = volume => \A u \in SaveTasks : ~Live(u)'
                      /\ file'[v] = Whole(durable'[v].cfg)
    BY <1>2 DEF Durable
  <2>1. durable \in [Volumes -> [known : BOOLEAN, cfg : Configs]]
    BY DEF IInv, TypeOK, PromiseTypeOK
  <2>2. CASE v # volume
    <3>1. durable'[v] = durable[v]
      BY <2>1, <2>2 DEF save_task, extract_config, fopen, fwrite, fclose, Fails, Succeeds, promise
    <3>2. file'[v] = file[v]
      BY <1>7, <1>8, <2>2
    <3> QED
      BY <2>2, <3>1, <3>2 DEF IInv, Durable
  <2>3. CASE v = volume
    <3>1. /\ fclose(t) /\ quiet.task = t
          /\ file' = [file EXCEPT ![volume] = Whole(save[t].buf)]
          /\ save' = [save EXCEPT ![t] = NoSave]
          /\ durable' = [durable EXCEPT ![volume] = [known |-> TRUE, cfg |-> quiet.cfg]]
      <4>1. durable' # durable
        BY <1>4, <2>3
      <4>2. fclose(t) /\ Succeeds(t) /\ file' = [file EXCEPT ![volume] = Whole(save[t].buf)]
        BY <4>1 DEF save_task, extract_config, fopen, fwrite, fclose, Fails, promise
      <4>3. quiet.task = t
        BY <1>4, <2>1, <4>1, <4>2 DEF Succeeds
      <4> QED
        BY <4>2, <4>3 DEF Succeeds
    <3>2. save[t].buf = quiet.cfg
      <4>1. save[t].buf \in Configs /\ quiet.cfg \in Configs
        BY DEF IInv, TypeOK, SaveTypeOK, PromiseTypeOK, SaveStates
      <4>2. \A f \in Fields : save[t].buf[f] = quiet.cfg[f]
        BY <1>2, <3>1 DEF IInv, FreshCopies, Undisturbed, fclose
      <4> QED
        BY <4>1, <4>2 DEF Configs
    <3>3. \A u \in SaveTasks : ~Live(u)'
      <4>1. \A u \in SaveTasks : Live(u) => u = t
        BY <3>1 DEF IInv, Undisturbed
      <4>2. save'[t] = NoSave
        BY <3>1 DEF IInv, TypeOK, SaveTypeOK
      <4> QED
        BY <1>2, <4>1, <4>2 DEF Live, NoSave
    <3>4. file'[volume] = Whole(save[t].buf) /\ durable'[volume].cfg = quiet.cfg
      BY <1>4, <1>8, <2>1, <3>1
    <3> QED
      BY <2>3, <3>2, <3>3, <3>4
  <2> QED
    BY <2>2, <2>3
<1>15. PostInProgress'
  BY <1>2 DEF IInv, PostInProgress, PostedFieldsApplied
<1> QED
  BY <1>1, <1>5, <1>6, <1>9, <1>10, <1>13, <1>14, <1>15 DEF IInv

LEMMA Invariance == Spec => []IInv
<1>1. IInv /\ UNCHANGED vars => IInv'
  <2> SUFFICES ASSUME IInv, UNCHANGED vars PROVE IInv'
    OBVIOUS
  <2>1. UNCHANGED <<volume, initialized, unread, status, m_config, file, written, httpd, save, posts,
                    saves, restarts, refused, before, seen, posted, quiet, durable>>
    BY DEF vars, start, disk, counters, promise
  <2>2. TypeOK' /\ FreshCopies' /\ Order' /\ Steady'
    BY <2>1 DEF IInv, TypeOK, SensorTypeOK, DiskTypeOK, HttpdTypeOK, SaveTypeOK, PromiseTypeOK,
                FreshCopies, Order, Steady, Live
  <2>3. FileIsWritten' /\ RestoredIsWritten' /\ Undisturbed' /\ Durable'
    BY <2>1 DEF IInv, FileIsWritten, RestoredIsWritten, Undisturbed, Durable, Live
  <2>4. PostInProgress'
    BY <2>1 DEF IInv, PostInProgress, PostedFieldsApplied
  <2> QED
    BY <2>2, <2>3, <2>4 DEF IInv
<1>2. IInv /\ [Next]_vars => IInv'
  BY <1>1, InitializeIInv, RestartIInv, PostIInv, FromJsonIInv, SaveIInv, SaveTaskIInv
  DEF Next, camera_post_partial
<1> QED
  BY <1>2, InitIInv, PTL DEF Spec

\* After a start the settings are those last saved whole to the volume mounted at
\* this start, or the sensor's own, and its own only for the reasons it states.
THEOREM RestoredIsWrittenCorrect == Spec => []RestoredIsWritten
<1>1. IInv => RestoredIsWritten
  BY DEF IInv
<1> QED
  BY <1>1, Invariance, PTL

\* No part of what a save writes is older than the request to save.
THEOREM SavedIsFreshCorrect == Spec => []SavedIsFresh
<1>1. IInv => SavedIsFresh
  BY DEF IInv, FreshCopies, SavedIsFresh, Live
<1> QED
  BY <1>1, Invariance, PTL

\* What an undisturbed save wrote stays in its volume's file until the next save.
THEOREM QuietSaveIsDurableCorrect == Spec => []QuietSaveIsDurable
<1>1. IInv => QuietSaveIsDurable
  BY DEF IInv, Durable, QuietSaveIsDurable
<1> QED
  BY <1>1, Invariance, PTL

\* A POST sets what it names, unless refused; dcw is compared with denoise.
THEOREM PostedFieldsAppliedCorrect == Spec => []PostedFieldsApplied
<1>1. IInv => PostedFieldsApplied
  BY DEF IInv, PostInProgress
<1> QED
  BY <1>1, Invariance, PTL
=============================================================================
