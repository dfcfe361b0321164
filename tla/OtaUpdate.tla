----------------------------- MODULE OtaUpdate -----------------------------
(***************************************************************************)
(* A firmware upload over HTTP (web.cpp with class OtaSession): the upload *)
(* handler stops the other services and writes the image, the idle timer   *)
(* frees the web server from a client that has gone silent, and an upload  *)
(* that failed restarts the board.                                         *)
(*                                                                         *)
(* The multipart parser of the web server is synchronous: from the start of*)
(* a file to its end or abort nothing else of loop() runs, but timer       *)
(* callbacks and the functions they hand over do, whenever the parser      *)
(* waits for bytes.  It waits for as long as the connection lives.         *)
(*                                                                         *)
(* An upload is a few chunks; a flash operation may fail at any call.  The *)
(* two delays (30 s without progress, 1.5 s before the restart) are events.*)
(***************************************************************************)
EXTENDS Naturals

CONSTANT Chunks   \* bound of the model: chunks of the largest upload

ASSUME OtaUpdateAssumption == Chunks \in Nat \ {0}

VARIABLES
    parser,   \* "idle", "file": inside a file, "done": handle_update is next
    request,  \* what the request being parsed is, see Request
    left,     \* chunks the client has not sent yet
    socket,   \* the client's connection: "open" or "closed"
    error,    \* _updaterError is not empty
    updating, \* Update.isRunning()
    staged,   \* the eboot command that selects the new image is set
    ota,      \* the fields of class OtaSession
    armed,    \* uploadIdleTimer
    checkDue, \* check_upload_timeout has been handed over
    silent,   \* 30 s have passed since the last progress
    power     \* FALSE while the board restarts

\* History: how much of its upload the image in flash is, and whether 30 s have
\* passed since the client last sent something.
VARIABLES image, quiet

services == <<updating, staged, ota, image>>
idleTimer == <<armed, checkDue, silent>>
vars == <<parser, request, left, socket, error, services, idleTimer, power, quiet>>

\* verify only reads the upload and does not write it; auth says that it is
\* authenticated, sized that its size is given, legacy that it has no query.
\* noted records that note_upload_progress has been called for it.
Request == [verify : BOOLEAN, auth : BOOLEAN, sized : BOOLEAN, legacy : BOOLEAN,
            noted : BOOLEAN]

\* Only a session that has stopped the services has something to recover.
Session == {s \in [receiving : BOOLEAN, stopped : BOOLEAN, complete : BOOLEAN,
                   recovering : BOOLEAN] : s.recovering => s.stopped}

TypeOK ==
    /\ parser \in {"idle", "file", "done"}
    /\ request \in Request
    /\ left \in 0..Chunks
    /\ socket \in {"open", "closed"}
    /\ error \in BOOLEAN
    /\ updating \in BOOLEAN
    /\ staged \in BOOLEAN
    /\ ota \in Session
    /\ armed \in BOOLEAN
    /\ checkDue \in BOOLEAN
    /\ silent \in BOOLEAN
    /\ power \in BOOLEAN
    /\ image \in {"none", "partial", "whole"}
    /\ quiet \in BOOLEAN

NoRequest == [verify |-> FALSE, auth |-> FALSE, sized |-> FALSE, legacy |-> FALSE,
              noted |-> FALSE]

NewSession == [receiving |-> FALSE, stopped |-> FALSE, complete |-> FALSE,
               recovering |-> FALSE]

Init ==
    /\ parser = "idle" /\ request = NoRequest /\ left = 0 /\ socket = "closed"
    /\ error = FALSE /\ updating = FALSE /\ staged = FALSE
    /\ ota = NewSession
    /\ armed = FALSE /\ checkDue = FALSE /\ silent = FALSE
    /\ power = TRUE
    /\ image = "none" /\ quiet = FALSE
-----------------------------------------------------------------------------
(* What the handlers are made of.                                           *)

\* (mutant) The timer starts anew, but the time it goes by does not.
ProgressUnmarked(r) ==
    /\ request' = [r EXCEPT !.noted = TRUE]
    /\ armed' = TRUE /\ UNCHANGED silent
    /\ UNCHANGED checkDue

\* note_upload_progress, for the request r.
Progress(r) ==
    /\ request' = [r EXCEPT !.noted = TRUE]
    /\ armed' = TRUE /\ silent' = FALSE
    /\ UNCHANGED checkDue

\* (mutant) No restart follows.
FailOnly(s) == [s EXCEPT !.complete = FALSE]

\* (mutant) A restart also when no service was stopped.
FailAnyway(s) == [s EXCEPT !.complete = FALSE, !.recovering = TRUE]

\* OtaSession::fail.
Fail(s) == [s EXCEPT !.complete = FALSE, !.recovering = @ \/ s.stopped]

\* fail_firmware_upload, for a request that is to write the firmware.
FailUpload(s) ==
    /\ error' = TRUE
    /\ ota' = Fail(s)
    /\ updating' = FALSE
    /\ staged' = FALSE
    /\ UNCHANGED image

\* The same for a request that only verifies.
FailVerify(s) ==
    /\ error' = TRUE
    /\ ota' = s
    /\ UNCHANGED <<updating, staged, image>>

\* (mutant) Whatever the request was for.
FailedWhatever(s) == FailUpload(s)
Failed(s) == IF request.verify THEN FailVerify(s) ELSE FailUpload(s)

Receiving == [ota EXCEPT !.receiving = TRUE]
NotReceiving == [ota EXCEPT !.receiving = FALSE]
-----------------------------------------------------------------------------
(* handle_firmware_upload: the start of a file, in the order of its returns. *)

\* A request as it arrives; without a query it can ask for nothing.
NewRequest ==
    {r \in Request : ~r.noted /\ (r.legacy => ~r.verify /\ ~r.sized)}

Unauthenticated(r) ==
    /\ ~r.auth
    /\ request' = r
    /\ error' = FALSE
    /\ UNCHANGED <<services, idleTimer>>

\* "An upload already stopped services; reboot required."
AlreadyStopped(r) ==
    /\ r.auth /\ ~r.verify /\ ota.stopped
    /\ request' = r
    /\ FailUpload(ota)
    /\ UNCHANGED idleTimer

Accepted(r) == r.auth /\ (r.verify \/ ~ota.stopped)

\* A size or an MD5 that is not one, or too large an image.
BadMetadata(r) ==
    /\ Accepted(r)
    /\ Progress(r)
    /\ IF r.verify THEN FailVerify(Receiving) ELSE FailUpload(Receiving)

VerifyBegins(r) ==
    /\ Accepted(r) /\ r.verify
    /\ Progress(r)
    /\ error' = FALSE
    /\ ota' = Receiving
    /\ UNCHANGED <<updating, staged, image>>

\* HomeKit, the door communication and the service loop are shut down, then
\* Update.begin may fail.
UploadBegins(r) ==
    /\ Accepted(r) /\ ~r.verify
    /\ Progress(r)
    /\ \/ /\ error' = FALSE
          /\ ota' = [Receiving EXCEPT !.stopped = TRUE]
          /\ updating' = TRUE
          /\ image' = "partial"
          /\ UNCHANGED staged
       \/ FailUpload([Receiving EXCEPT !.stopped = TRUE])

FileStart ==
    /\ power /\ parser = "idle"
    /\ parser' = "file"
    /\ socket' = "open"
    /\ left' \in 1..Chunks
    /\ quiet' = FALSE
    /\ \E r \in NewRequest :
         \/ Unauthenticated(r)
         \/ AlreadyStopped(r)
         \/ BadMetadata(r)
         \/ VerifyBegins(r)
         \/ UploadBegins(r)
    /\ UNCHANGED power

\* A form that holds no file goes straight to handle_update.
FormWithoutFile ==
    /\ power /\ parser = "idle"
    /\ parser' = "done"
    /\ socket' = "open"
    /\ request' \in NewRequest
    /\ UNCHANGED <<left, error, services, idleTimer, power, quiet>>
-----------------------------------------------------------------------------
(* The rest of the file.                                                    *)

InFile == power /\ parser = "file"
Heeded == request.auth /\ ~error   \* the handler's later branches ask for both

Unsent == left > 0

\* A chunk arrives, also one that was on its way when the socket was closed.
FileWrite ==
    /\ InFile /\ Unsent
    /\ left' = left - 1
    /\ quiet' = FALSE
    /\ IF Heeded
       THEN /\ Progress(request)
            /\ \/ ota' = Receiving /\ UNCHANGED <<error, updating, staged, image>>
               \/ ~request.verify /\ FailUpload(Receiving)
       ELSE UNCHANGED <<request, error, services, idleTimer>>
    /\ UNCHANGED <<parser, socket, power>>

\* (mutant) The size that was announced is not compared.
FinishUnchecked ==
    \/ /\ ota' = [NotReceiving EXCEPT !.complete = TRUE]
       /\ updating' = FALSE /\ staged' = TRUE
       /\ image' = IF left = 0 THEN "whole" ELSE image
       /\ UNCHANGED error
    \/ FailUpload(NotReceiving)

\* Update.end(true), unless fewer bytes have arrived than were announced.
Finish ==
    \/ /\ left = 0
       /\ ota' = [NotReceiving EXCEPT !.complete = TRUE]
       /\ updating' = FALSE /\ staged' = TRUE /\ image' = "whole"
       /\ UNCHANGED error
    \/ FailUpload(NotReceiving)

\* The end of the file.  A client that announces the size may end it early.
FileEnd ==
    /\ InFile /\ (left = 0 \/ request.sized)
    /\ parser' = "done"
    /\ IF Heeded
       THEN /\ armed' = FALSE
            /\ IF request.verify
               THEN ota' = NotReceiving /\ UNCHANGED <<error, updating, staged, image>>
               ELSE Finish
       ELSE UNCHANGED <<error, services, armed>>
    /\ UNCHANGED <<request, left, socket, checkDue, silent, power, quiet>>

\* The connection is gone, and the parser reports the file aborted.
FileAborted ==
    /\ InFile /\ socket = "closed"
    /\ parser' = "idle"
    /\ IF request.auth
       THEN armed' = FALSE /\ Failed(NotReceiving)
       ELSE UNCHANGED <<error, services, armed>>
    /\ UNCHANGED <<request, left, socket, checkDue, silent, power, quiet>>

Restarts == power' = FALSE

\* handle_update, after the file.  A legacy request restarts the board.
HandleUpdate ==
    /\ power /\ parser = "done"
    /\ parser' = "idle"
    /\ IF ~request.auth
       THEN UNCHANGED <<error, services, armed, power>>
       ELSE /\ armed' = FALSE
            /\ IF ~error /\ ~request.verify /\ ~ota.complete
               THEN FailUpload(NotReceiving)
               ELSE ota' = NotReceiving /\ UNCHANGED <<error, updating, staged, image>>
            /\ IF ~error' /\ request.legacy THEN Restarts ELSE UNCHANGED power
    /\ socket' = "closed"
    /\ UNCHANGED <<request, left, checkDue, silent, quiet>>
-----------------------------------------------------------------------------
(* The idle timer, the client, and the restart.                             *)

\* 30 s pass without progress: the client stays connected and sends nothing, or
\* what it sends is not heeded.
Silence ==
    /\ power /\ ~(silent /\ quiet)
    /\ silent' = TRUE
    /\ \/ quiet' = TRUE
       \/ InFile /\ ~Heeded /\ UNCHANGED quiet
    /\ UNCHANGED <<parser, request, left, socket, error, services, armed, checkDue, power>>

\* (mutant) Without memory the check is lost.
TimerFiresOnce ==
    /\ power /\ armed /\ silent
    /\ armed' = FALSE /\ checkDue' \in BOOLEAN
    /\ UNCHANGED <<parser, request, left, socket, error, services, silent, power, quiet>>

\* schedule_upload_timeout; without memory it tries again 100 ms later.
TimerFires ==
    /\ power /\ armed /\ silent
    /\ armed' = FALSE /\ checkDue' = TRUE
    /\ UNCHANGED <<parser, request, left, socket, error, services, silent, power, quiet>>

TimedOut == checkDue /\ ota.receiving /\ silent

\* check_upload_timeout, when the parser or the loop yields.
CheckTimeout ==
    /\ power /\ checkDue
    /\ checkDue' = FALSE
    /\ socket' = IF TimedOut /\ parser # "idle" /\ request.noted THEN "closed" ELSE socket
    /\ UNCHANGED <<parser, request, left, error, services, armed, silent, power, quiet>>

ClientLeaves ==
    /\ power /\ socket = "open"
    /\ socket' = "closed"
    /\ UNCHANGED <<parser, request, left, error, services, idleTimer, power, quiet>>

\* poll_ota_recovery at the head of web_loop.
PollRecovery ==
    /\ power /\ parser = "idle" /\ ota.recovering
    /\ Restarts
    /\ UNCHANGED <<parser, request, left, socket, error, services, idleTimer, quiet>>

\* The user restarts the board, or the power fails.
UserRestarts ==
    /\ power
    /\ power' = FALSE
    /\ UNCHANGED <<parser, request, left, socket, error, services, idleTimer, quiet>>

Boot ==
    /\ ~power
    /\ parser' = "idle" /\ request' = NoRequest /\ left' = 0 /\ socket' = "closed"
    /\ error' = FALSE /\ updating' = FALSE /\ staged' = FALSE
    /\ ota' = NewSession
    /\ armed' = FALSE /\ checkDue' = FALSE /\ silent' = FALSE
    /\ power' = TRUE
    /\ image' = "none" /\ quiet' = FALSE

Upload == FileStart \/ FormWithoutFile \/ FileWrite \/ FileEnd \/ FileAborted \/ HandleUpdate
Idle   == Silence \/ TimerFires \/ CheckTimeout

Next == Upload \/ Idle \/ ClientLeaves \/ PollRecovery \/ UserRestarts \/ Boot

Spec == Init /\ [][Next]_vars

\* The parser and the loop go on, time passes, timers fire and what they hand
\* over runs; recovery is polled before each request.  No client need go on.
FairSpec ==
    /\ Spec
    /\ WF_vars(FileAborted) /\ WF_vars(HandleUpdate)
    /\ WF_vars(Silence) /\ WF_vars(TimerFires) /\ WF_vars(CheckTimeout)
    /\ SF_vars(PollRecovery)
    /\ WF_vars(Boot)
-----------------------------------------------------------------------------
(* Properties.                                                              *)

\* "Even if all bytes arrived just before the disconnect, never let an aborted
\* request select a new image": what the next start would boot is a whole image,
\* and not one of a session that has failed since.
OnlyWholeImages ==
    staged => image = "whole" /\ ota.complete /\ ~ota.recovering

Verifying == power /\ parser # "idle" /\ request.verify

\* docs/door-alerts.md: "Aborting verification does not schedule a reboot or
\* invalidate an already staged firmware image"; no other end of it does.
VerifyHarmless ==
    [][(Verifying \/ Verifying') /\ power'
         => staged' = staged /\ ota'.recovering = ota.recovering
                             /\ ota'.complete = ota.complete]_vars

\* A client that goes on sending is not cut off, whatever checks were handed over
\* before its last chunk, by the timer of this upload or of one before: the idle
\* timeout closes no connection but one that has been quiet for 30 s, or whose
\* upload has failed already, so that its chunks are no progress.
LiveUploadKept ==
    [][CheckTimeout /\ socket' # socket => quiet \/ error]_vars

\* An upload that was let in ends, however its client stalls and whatever has
\* gone wrong with it ("Keep the idle timer armed until the parser unwinds").
UploadEnds == parser = "file" /\ request.noted ~> parser = "idle"

TurnedAway == parser = "file" /\ ~request.noted

\* An upload that stopped the services and does not succeed leads to a restart,
\* unless a request that is turned away holds the parser.
FailedUploadRestarts ==
    ota.stopped /\ ~ota.complete ~> ~power \/ ota.complete \/ TurnedAway

\* web.cpp at the start of a file: "so rejected/stalled uploads also unwind".
ParserUnwinds == parser = "file" ~> parser = "idle"
=============================================================================
