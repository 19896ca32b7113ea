--------------------------- MODULE CameraSettings ---------------------------
(***************************************************************************)
(* The settings of the camera's sensor: posted over HTTP field by field,     *)
(* saved by tasks that read them back field by field into one shared        *)
(* structure and write it to a file, and applied from that file at the next *)
(* start.  The device may restart at any moment: its power fails, or a      *)
(* handler follows a null pointer.  At each start the path of the file is    *)
(* on the SD card or, if that does not mount, on LittleFS in its place.      *)
(***************************************************************************)
EXTENDS Integers, Sequences, FiniteSets

CONSTANTS
    Values,         \* the values of a setting
    Defaults,       \* the sensor's settings after power-on
    SaveTasks,      \* save tasks that may exist at the same time
    MaxPosts, MaxSaves, MaxRestarts     \* bounds

\* Of the 26 settings: "framesize" stands for those that are handled alike, the
\* other three are handled in a way of their own.
Fields == {"framesize", "dcw", "denoise", "aec"}
Configs == [Fields -> Values]

\* The order in which from_json, which never sets aec, and extract_config go.
from_json_order == <<"framesize", "dcw", "denoise">>
extract_order == <<"framesize", "denoise", "dcw", "aec">>

\* What may be mounted at /sd.
Volumes == {"card", "littlefs"}

ASSUME CameraAssumption ==
    /\ 0 \in Values
    /\ Defaults \in Configs
    /\ "none" \notin SaveTasks
    /\ MaxPosts \in Nat /\ MaxSaves \in Nat /\ MaxRestarts \in Nat

VARIABLES
    volume,         \* what is mounted at this start
    initialized,    \* the camera's flag
    status,         \* sensor->status
    m_config,       \* the structure shared by the save tasks
    file,           \* camera.bin of each volume: "absent", "short" or "whole", and
                    \* what is in it
    httpd,          \* the POST that is being applied: next position and values
    save,           \* per save task: where it is, and the stdio buffer of its file
    posts, saves, restarts, \* counters
    refused,        \* history: settings whose last write the sensor refused
    before,         \* history: the settings as they were when the POST began
    seen,           \* history: per save task and field, the values since its request
    written,        \* history: the last structure written whole to each volume, and
                    \* whether a save there was cut short since then
    unread,         \* history: whether load could not read a file that is whole
    posted,         \* history: whether something was posted since the start
    quiet,          \* history: the save task that nothing disturbed so far, and what
                    \* it has to save
    durable         \* history: what an undisturbed save wrote to each volume

disk == <<file, written>>
counters == <<posts, saves, restarts>>
promise == <<quiet, durable>>
start == <<volume, initialized, unread>>
vars == <<start, status, m_config, disk, httpd, save, counters, refused, before, seen, posted,
          promise>>

NoPost == [k |-> 0, want |-> Defaults]
NoSave == [pc |-> "none", k |-> 0, buf |-> Defaults]
Short == [state |-> "short", cfg |-> Defaults]
Nobody == [task |-> "none", cfg |-> Defaults]
Nothing == [known |-> FALSE, cfg |-> Defaults]
Whole(cfg) == [state |-> "whole", cfg |-> cfg]

Live(t) == save[t].pc # "none"

Init ==
    /\ volume \in Volumes
    /\ initialized = FALSE /\ unread = FALSE
    /\ status = Defaults
    /\ m_config = [f \in Fields |-> 0]
    /\ file = [v \in Volumes |-> [state |-> "absent", cfg |-> Defaults]]
    /\ written = [v \in Volumes |-> [known |-> FALSE, cfg |-> Defaults, cut |-> FALSE]]
    /\ httpd = NoPost
    /\ save = [t \in SaveTasks |-> NoSave]
    /\ posts = 0 /\ saves = 0 /\ restarts = 0
    /\ refused = {} /\ before = Defaults
    /\ seen = [t \in SaveTasks |-> [f \in Fields |-> {}]]
    /\ posted = FALSE
    /\ quiet = Nobody /\ durable = [v \in Volumes |-> Nothing]

-----------------------------------------------------------------------------
(* Start.                                                                    *)

\* apply_config sets every field, and does not look at what the sensor answers.
apply_config(cfg) ==
    \E ok \in SUBSET Fields :
        /\ refused' = Fields \ ok
        /\ status' = [f \in Fields |-> IF f \in ok THEN cfg[f] ELSE status[f]]

\* Applying whatever fread left in the structure (faulty).
LoadUnchecked ==
    /\ m_config' = IF file[volume].state = "whole" THEN file[volume].cfg ELSE m_config
    /\ apply_config(m_config')
    /\ UNCHANGED unread

\* load: a file that is absent or short, or that cannot be opened or read, leaves
\* the sensor alone; whatever fread left in the structure, no save writes.
load ==
    \/ /\ UNCHANGED <<m_config, status>> /\ refused' = {}
       /\ unread' = (file[volume].state = "whole")
    \/ /\ file[volume].state = "whole"
       /\ m_config' = file[volume].cfg
       /\ apply_config(file[volume].cfg)
       /\ UNCHANGED unread

\* initialize, on the bus task at FS_READY, when no web server runs yet.  A
\* sensor that does not answer leaves the flag down for good.
initialize ==
    /\ ~initialized
    /\ initialized' = TRUE
    /\ load
    /\ UNCHANGED <<volume, disk, httpd, save, counters, before, seen, posted, promise>>

\* Everything in memory is gone and the files are what they are; the card may
\* mount at one start and not at another.
Restart ==
    /\ restarts < MaxRestarts
    /\ restarts' = restarts + 1
    /\ volume' \in Volumes
    /\ initialized' = FALSE /\ unread' = FALSE
    /\ status' = Defaults
    /\ m_config' = [f \in Fields |-> 0]
    /\ httpd' = NoPost
    /\ save' = [t \in SaveTasks |-> NoSave]
    /\ refused' = {} /\ before' = Defaults
    /\ seen' = [t \in SaveTasks |-> [f \in Fields |-> {}]]
    /\ posted' = FALSE
    /\ quiet' = Nobody
    /\ UNCHANGED <<disk, posts, saves, durable>>

-----------------------------------------------------------------------------
(* The web server's task, which handles one request at a time.               *)

\* camera_post of an object with all keys; from_json has read them all before it
\* sets the first field.
camera_post ==
    /\ initialized /\ httpd.k = 0
    /\ posts < MaxPosts
    /\ posts' = posts + 1
    /\ \E want \in Configs : httpd' = [k |-> 1, want |-> want]
    /\ before' = status /\ posted' = TRUE /\ refused' = {}
    /\ quiet' = Nobody
    /\ UNCHANGED <<start, status, m_config, disk, save, saves, restarts, seen, durable>>

\* An object with some of the keys passes from_json's test, which asks for one
\* of them; a missing one is a null pointer, followed before anything is set.
camera_post_partial ==
    /\ initialized /\ httpd.k = 0
    /\ Restart

\* The same slip once more, in denoise (faulty).
ComparedCrosswise(f) == CASE f = "dcw" -> "denoise" [] f = "denoise" -> "dcw" [] OTHER -> f

\* What from_json compares a field with: "downsize" with denoise.
compared(f) == IF f = "dcw" THEN "denoise" ELSE f

\* Going on behind the last field (faulty).
one_past(k) == k + 1

\* The next of from_json's fields; 0 when it is through.
next_field(k) == IF k = Len(from_json_order) THEN 0 ELSE k + 1

\* from_json sets the field at position k if it differs; the sensor may refuse.
from_json ==
    /\ httpd.k > 0
    /\ LET f == from_json_order[httpd.k]
           v == httpd.want[f]
       IN  \/ /\ v = status[compared(f)]
              /\ UNCHANGED <<status, refused, seen>>
           \/ /\ v # status[compared(f)]
              /\ status' = [status EXCEPT ![f] = v]
              /\ seen' = [t \in SaveTasks |-> IF Live(t)
                            THEN [seen[t] EXCEPT ![f] = @ \union {v}] ELSE seen[t]]
              /\ UNCHANGED refused
           \/ /\ v # status[compared(f)]
              /\ refused' = refused \union {f}
              /\ UNCHANGED <<status, seen>>
    /\ httpd' = [httpd EXCEPT !.k = next_field(@)]
    /\ UNCHANGED <<start, m_config, disk, save, counters, before, posted, promise>>

\* camera_save answers as soon as the task is created.
camera_save ==
    /\ initialized /\ httpd.k = 0
    /\ saves < MaxSaves
    /\ saves' = saves + 1
    /\ \E t \in SaveTasks :
          /\ ~Live(t)
          /\ save' = [save EXCEPT ![t] = [NoSave EXCEPT !.pc = "extract", !.k = 1]]
          /\ seen' = [seen EXCEPT ![t] = [f \in Fields |-> {status[f]}]]
          /\ quiet' = IF \A u \in SaveTasks : ~Live(u) THEN [task |-> t, cfg |-> status]
                                                       ELSE Nobody
    /\ durable' = [durable EXCEPT ![volume] = Nothing]
    /\ UNCHANGED <<start, status, m_config, disk, httpd, posts, restarts, refused, before,
                   posted>>

-----------------------------------------------------------------------------
(* The save tasks.                                                           *)

SaveFrame == UNCHANGED <<start, status, httpd, counters, refused, before, seen, posted>>

\* Stopping one field early (faulty).
ExtractAllButLast(t) ==
    /\ save[t].pc = "extract"
    /\ m_config' = [m_config EXCEPT ![extract_order[save[t].k]] = status[extract_order[save[t].k]]]
    /\ save' = [save EXCEPT ![t] =
                   IF save[t].k = Len(extract_order) - 1 THEN [@ EXCEPT !.k = 0, !.pc = "open"]
                                                         ELSE [@ EXCEPT !.k = save[t].k + 1]]
    /\ UNCHANGED <<disk, promise>>
    /\ SaveFrame

\* extract_config copies one field after the other into the shared structure.
extract_config(t) ==
    /\ save[t].pc = "extract"
    /\ LET f == extract_order[save[t].k] IN
          m_config' = [m_config EXCEPT ![f] = status[f]]
    /\ save' = [save EXCEPT ![t] =
                   IF save[t].k = Len(extract_order) THEN [@ EXCEPT !.k = 0, !.pc = "open"]
                                                     ELSE [@ EXCEPT !.k = save[t].k + 1]]
    /\ UNCHANGED <<disk, promise>>
    /\ SaveFrame

\* The save goes wrong: whoever asked for it has been answered already.
Fails(t) ==
    /\ save' = [save EXCEPT ![t] = NoSave]
    /\ quiet' = IF quiet.task = t THEN Nobody ELSE quiet
    /\ UNCHANGED durable

\* fopen for writing truncates the file: at once on the card's FAT, not before it
\* is closed on LittleFS.
fopen(t) ==
    /\ save[t].pc = "open"
    /\ \/ /\ file' = IF volume = "card" THEN [file EXCEPT ![volume] = Short] ELSE file
          /\ written' = [written EXCEPT ![volume].cut = TRUE]
          /\ save' = [save EXCEPT ![t] = [@ EXCEPT !.pc = "write"]]
          /\ UNCHANGED promise
       \/ UNCHANGED disk /\ Fails(t)
    /\ UNCHANGED m_config
    /\ SaveFrame

\* fwrite copies the structure into the file's buffer.
fwrite(t) ==
    /\ save[t].pc = "write"
    /\ save' = [save EXCEPT ![t] = [@ EXCEPT !.pc = "close", !.buf = m_config]]
    /\ UNCHANGED <<m_config, disk, promise>>
    /\ SaveFrame

\* The save has gone well.
Succeeds(t) ==
    /\ written' = [written EXCEPT ![volume] = [known |-> TRUE, cfg |-> save[t].buf, cut |-> FALSE]]
    /\ save' = [save EXCEPT ![t] = NoSave]
    /\ durable' = [durable EXCEPT ![volume] =
                       IF quiet.task = t THEN [known |-> TRUE, cfg |-> quiet.cfg] ELSE @]
    /\ quiet' = IF quiet.task = t THEN Nobody ELSE quiet

\* Opening the file to append: load reads what comes first (faulty).
FcloseAppending(t) ==
    /\ save[t].pc = "close"
    /\ file' = IF file[volume].state = "whole" THEN file
                                               ELSE [file EXCEPT ![volume] = Whole(save[t].buf)]
    /\ Succeeds(t)
    /\ UNCHANGED m_config
    /\ SaveFrame

\* fclose writes the buffer, or as much of it as there is room for.
fclose(t) ==
    /\ save[t].pc = "close"
    /\ \/ /\ file' = [file EXCEPT ![volume] = Whole(save[t].buf)]
          /\ Succeeds(t)
       \/ /\ file' \in {file, [file EXCEPT ![volume] = Short]}
          /\ written' = [written EXCEPT ![volume].cut = TRUE]
          /\ Fails(t)
    /\ UNCHANGED m_config
    /\ SaveFrame

save_task(t) == extract_config(t) \/ fopen(t) \/ fwrite(t) \/ fclose(t)

Next ==
    \/ initialize
    \/ camera_post \/ from_json \/ camera_post_partial
    \/ camera_save
    \/ \E t \in SaveTasks : save_task(t)
    \/ Restart

Spec == Init /\ [][Next]_vars
-----------------------------------------------------------------------------
SaveStates == [pc : {"none", "extract", "open", "write", "close"},
               k : 0 .. Len(extract_order), buf : Configs]

SensorTypeOK ==
    /\ volume \in Volumes
    /\ initialized \in BOOLEAN /\ unread \in BOOLEAN /\ posted \in BOOLEAN
    /\ status \in Configs /\ m_config \in Configs /\ before \in Configs
    /\ refused \subseteq Fields

DiskTypeOK ==
    /\ file \in [Volumes -> [state : {"absent", "short", "whole"}, cfg : Configs]]
    /\ written \in [Volumes -> [known : BOOLEAN, cfg : Configs, cut : BOOLEAN]]

HttpdTypeOK ==
    /\ httpd \in [k : 0 .. Len(from_json_order), want : Configs]
    /\ posts \in Nat /\ saves \in Nat /\ restarts \in Nat

SaveTypeOK ==
    /\ save \in [SaveTasks -> SaveStates]
    /\ seen \in [SaveTasks -> [Fields -> SUBSET Values]]

PromiseTypeOK ==
    /\ quiet \in [task : SaveTasks \union {"none"}, cfg : Configs]
    /\ durable \in [Volumes -> [known : BOOLEAN, cfg : Configs]]

\* Every variable has a value of its type; the positions of from_json and of
\* extract_config stay within their lists of settings.
TypeOK == SensorTypeOK /\ DiskTypeOK /\ HttpdTypeOK /\ SaveTypeOK /\ PromiseTypeOK

\* "safe fallback": after a start the settings are those of the last save that
\* was written whole to the volume mounted at this start, or the sensor's own,
\* never a part of each; and its own only if nothing was ever saved there, a later
\* save there was cut short, or the file could not be read.
RestoredIsWritten ==
    initialized /\ ~posted =>
        \E cfg \in (IF written[volume].known THEN {written[volume].cfg} ELSE {Defaults})
                   \union (IF written[volume].cut \/ unread THEN {Defaults} ELSE {}) :
            \A f \in Fields \ refused : status[f] = cfg[f]

\* Save tasks share one structure and one file, and a POST may come in between.
\* What a task writes may be a mixture, but no part of it is older than the
\* request to save.
SavedIsFresh ==
    \A t \in SaveTasks : save[t].pc = "close" => \A f \in Fields : save[t].buf[f] \in seen[t][f]

\* A save during which there was no POST and no other save is what the file of its
\* volume holds, until the next save to that volume is asked for.
QuietSaveIsDurable ==
    \A v \in Volumes : durable[v].known => file[v] = Whole(durable[v].cfg)

\* A POST sets what it names, unless the sensor refuses, and leaves the rest
\* alone.  The exception is dcw, which is set if it differs from denoise.
PostedFieldsApplied ==
    posted =>
        /\ \A i \in DOMAIN from_json_order :
              LET f == from_json_order[i] IN
              /\ httpd.k = 0 \/ i < httpd.k
              /\ f \notin refused
              => \/ status[f] = httpd.want[f]
                 \/ f = "dcw" /\ httpd.want[f] = before["denoise"]
        /\ status["aec"] = before["aec"]
=============================================================================
