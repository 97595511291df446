----------------------------- MODULE ProfileStore -----------------------------
(* The metadata of one Chromix profile (src/profile/profile-store.ts) and the
   first native start of it (start and startUnlocked of session-manager.ts).
   Updates and admissions run one at a time in the profile's queue; reads that
   migrate, deletion, restoration and purging do not queue.  Every operation
   reads the file, awaits and replaces it. *)
EXTENDS Integers, Sequences, FiniteSets

CONSTANTS Personas,        \* saved fingerprint settings
          MaxStoreOps      \* bound: operations storeCalls

VARIABLES meta,        \* metadata.json, or NoProfileFile
          cookies,     \* cookies.json exists
          trash,       \* deleted copies, oldest first
          queue,       \* serializeProfile: operations in order, the head runs
          phase, seen, \* of the head: its next step and the metadata it read
          reader,      \* an unqueued getProfile: what it read and will migrate, or NoProfileFile
          running,     \* persona and gpu the start under way uses, or << >>
          admitted,    \* history: persona and gpu of the first start that was committed, or << >>
          storeCalls,
          legacy       \* the file began with secrets in plain text

storeVars == <<meta, cookies, trash, queue, phase, seen, reader, running, admitted, storeCalls, legacy>>

NoProfileFile == [exists |-> FALSE]
Metadata(p, gpu, committed, plain) ==
    [exists |-> TRUE, persona |-> p, gpu |-> gpu, committed |-> committed, plain |-> plain]
Identity(m) == <<m.persona, m.gpu>>

StoreInit ==
    /\ legacy \in BOOLEAN /\ cookies \in BOOLEAN
    /\ \E p \in Personas, c \in {"unset", "no"} : meta = Metadata(p, "none", c, legacy)
    /\ trash = << >> /\ queue = << >> /\ phase = "idle" /\ seen = NoProfileFile /\ reader = NoProfileFile
    /\ running = << >> /\ admitted = << >> /\ storeCalls = 0

\* writeMetadata encrypts; it makes the directory again when it is gone.
Saved(m) == [m EXCEPT !.plain = FALSE]

-------------------------------------------------------------------------------
\* updateProfile, importCookies (an update without changes) and start enter the queue.
SubmitOp(op) ==
    /\ storeCalls < MaxStoreOps /\ storeCalls' = storeCalls + 1
    /\ queue' = Append(queue, op)
    /\ UNCHANGED <<meta, cookies, trash, phase, seen, reader, running, admitted, legacy>>

Leave == queue' = Tail(queue) /\ phase' = "idle" /\ seen' = NoProfileFile

\* The head reads the metadata; without a profile it fails.
OpBegins ==
    /\ queue # << >> /\ phase = "idle"
    /\ \/ meta.exists /\ phase' = "read" /\ seen' = meta /\ UNCHANGED queue
       \/ ~meta.exists /\ Leave
    /\ UNCHANGED <<meta, cookies, trash, reader, running, admitted, storeCalls, legacy>>

\* hasLegacyIdentityState decides for a profile that has no mark yet.
Committed(m) == m.committed = "yes" \/ (m.committed = "unset" /\ cookies)

\* updateProfileUnlocked: a committed identity cannot change; a changed persona
\* of the same system keeps the detected gpu.
UpdateEnds ==
    /\ phase = "read" /\ Head(queue)[1] = "update"
    /\ LET p == IF Head(queue)[2] = "same" THEN seen.persona ELSE Head(queue)[2] IN
       meta' = IF Committed(seen) /\ p # seen.persona THEN meta
               ELSE Saved([seen EXCEPT !.persona = p,
                                       !.committed = IF Committed(seen) THEN "yes" ELSE "no"])
    /\ Leave
    /\ UNCHANGED <<cookies, trash, reader, running, admitted, storeCalls, legacy>>

\* withChromixIdentityAdmission sets the mark, then runs the start in the queue.
AdmissionOpens ==
    /\ phase = "read" /\ Head(queue)[1] = "start" /\ phase' = "start"
    /\ meta' = IF seen.committed # "unset" THEN meta
               ELSE Saved([seen EXCEPT !.committed = IF cookies THEN "yes" ELSE "no"])
    /\ UNCHANGED <<cookies, trash, queue, seen, reader, running, admitted, storeCalls, legacy>>

\* startUnlocked, saveDetectedGpu and commitChromixIdentity each read the file
\* again and fail without it.
ReadsAgain ==
    /\ phase \in {"start", "commit"}
    /\ \/ /\ meta.exists /\ seen' = meta
          /\ phase' = (IF phase = "start" THEN "gpu" ELSE "mark") /\ UNCHANGED <<queue, running>>
       \/ ~meta.exists /\ Leave /\ running' = << >>
    /\ UNCHANGED <<meta, cookies, trash, reader, admitted, storeCalls, legacy>>

\* saveDetectedGpu: stored once, before a persona is generated; an update like
\* any other, so that a committed profile without a gpu fails the start.
GpuSaved ==
    /\ phase = "gpu"
    /\ IF seen.gpu = "none" /\ Committed(seen) THEN Leave /\ UNCHANGED <<meta, running>>
       ELSE LET m == IF seen.gpu # "none" THEN seen
                     ELSE Saved([seen EXCEPT !.gpu = "detected", !.committed = "no"]) IN
            /\ meta' = IF seen.gpu # "none" THEN meta ELSE m
            /\ running' = Identity(m) /\ phase' = "launch" /\ UNCHANGED <<queue, seen>>
    /\ UNCHANGED <<cookies, trash, reader, admitted, storeCalls, legacy>>

\* The browser runs with that identity, or the start fails.
Launches ==
    /\ phase = "launch"
    /\ \/ phase' = "commit" /\ UNCHANGED <<queue, seen, running>>
       \/ Leave /\ running' = << >>
    /\ UNCHANGED <<meta, cookies, trash, reader, admitted, storeCalls, legacy>>

\* Mutant: the start does not set the mark.
CommitsNothing ==
    /\ phase = "mark" /\ Leave /\ running' = << >> /\ admitted' = running
    /\ UNCHANGED <<meta, cookies, trash, reader, storeCalls, legacy>>

\* commitChromixIdentity; a browser that ran leaves cookies behind.
Commits ==
    /\ phase = "mark" /\ Leave /\ running' = << >> /\ cookies' = TRUE
    /\ meta' = IF seen.committed = "yes" THEN meta ELSE Saved([seen EXCEPT !.committed = "yes"])
    /\ admitted' = IF admitted = << >> THEN running ELSE admitted
    /\ UNCHANGED <<trash, reader, storeCalls, legacy>>

-------------------------------------------------------------------------------
\* getProfile outside the queue: a file in plain text is written back encrypted.
Reads ==
    /\ meta.exists /\ meta.plain /\ ~reader.exists /\ reader' = meta
    /\ UNCHANGED <<meta, cookies, trash, queue, phase, seen, running, admitted, storeCalls, legacy>>

Migrates ==
    /\ reader.exists /\ meta' = Saved(reader) /\ reader' = NoProfileFile
    /\ UNCHANGED <<cookies, trash, queue, phase, seen, running, admitted, storeCalls, legacy>>

\* deleteProfile moves the directory away, whoever uses it.
DeleteProfile ==
    /\ meta.exists /\ storeCalls < MaxStoreOps /\ storeCalls' = storeCalls + 1
    /\ trash' = Append(trash, meta) /\ meta' = NoProfileFile
    /\ UNCHANGED <<cookies, queue, phase, seen, reader, running, admitted, legacy>>

Latest == Len(trash)

\* restoreProfile takes the latest copy and then queues an empty update.
RestoreProfile ==
    /\ ~meta.exists /\ trash # << >> /\ meta' = trash[Latest]
    /\ trash' = [i \in 1..(Len(trash) - 1) |-> IF i < Latest THEN trash[i] ELSE trash[i + 1]]
    /\ queue' = Append(queue, <<"update", "same">>)
    /\ UNCHANGED <<cookies, phase, seen, reader, running, admitted, storeCalls, legacy>>

Purge ==
    /\ trash # << >> /\ trash' = << >>
    /\ UNCHANGED <<meta, cookies, queue, phase, seen, reader, running, admitted, storeCalls, legacy>>

StoreNext ==
    \/ \E p \in Personas \cup {"same"} : SubmitOp(<<"update", p>>)
    \/ SubmitOp(<<"start">>) \/ OpBegins \/ UpdateEnds \/ AdmissionOpens \/ ReadsAgain
    \/ GpuSaved \/ Launches \/ Commits \/ Reads \/ Migrates \/ DeleteProfile \/ RestoreProfile \/ Purge

StoreSpec == StoreInit /\ [][StoreNext]_storeVars

-------------------------------------------------------------------------------
\* Once a start was committed, the profile keeps the identity that start used,
\* whatever updates were queued before or behind it and however often it is
\* deleted and restored, unless an unqueued migration of a plain-text file was
\* under way.
PersonaFrozen ==
    ~legacy /\ admitted # << >> /\ meta.exists => Identity(meta) = admitted

\* A profile whose cookies were there before it had a mark never gets a new
\* identity: its first marked state keeps the persona it had.
LegacyStateKept ==
    ~legacy /\ cookies /\ meta.exists /\ meta.committed = "unset" /\ meta'.exists
       => meta'.persona = meta.persona

\* A profile that has browsed keeps its identity, whether the store knows it by
\* its mark or by the cookies it finds.
IdentityKept == [][PersonaFrozen' /\ LegacyStateKept]_storeVars
===============================================================================
