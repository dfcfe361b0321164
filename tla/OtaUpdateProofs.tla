-------------------------- MODULE OtaUpdateProofs ---------------------------
(***************************************************************************)
(* An upload never leaves a partial or failed image for the next start to  *)
(* boot, and a verification disturbs no image that is.                     *)
(***************************************************************************)
EXTENDS OtaUpdate, TLAPS

\* While the file of an accepted upload is being written nothing has failed yet,
\* and the services have been stopped.
UploadClean ==
    parser = "file" /\ Heeded /\ ~request.verify => ota.stopped /\ ~ota.recovering

\* An image that is staged is the work of the one session that stopped the services.
StagedOnce == staged => ota.stopped

\* The inductive invariant.
ImageInv == TypeOK /\ UploadClean /\ StagedOnce /\ OnlyWholeImages
-----------------------------------------------------------------------------
\* The types of what a handler has besides the services.
RequestOK ==
    /\ parser \in {"idle", "file", "done"} /\ request \in Request /\ left \in 0..Chunks
    /\ socket \in {"open", "closed"}
    /\ armed \in BOOLEAN /\ checkDue \in BOOLEAN /\ silent \in BOOLEAN /\ power \in BOOLEAN
    /\ quiet \in BOOLEAN

\* s is the session with only its receiving flag changed.
SameSession(s) ==
    /\ s \in Session /\ s.stopped = ota.stopped
    /\ s.complete = ota.complete /\ s.recovering = ota.recovering

\* What happens to the fields of a session that begins or ends receiving.
LEMMA ReceivingIsSame == ota \in Session => SameSession(Receiving) /\ SameSession(NotReceiving)
BY DEF Session, Receiving, NotReceiving, SameSession

\* What happens to those of a session that fails.
LEMMA FailedSession == \A s \in Session : Fail(s) \in Session
BY DEF Session, Fail

\* A failed upload keeps the invariant: it drops the image and sets the error.
LEMMA FailUploadKeeps ==
    ASSUME ImageInv, RequestOK', NEW s \in Session, FailUpload(s)
    PROVE  ImageInv'
<1>1. ota' \in Session /\ error' = TRUE /\ updating' = FALSE /\ staged' = FALSE
      /\ image' = image
  BY FailedSession DEF FailUpload
<1> QED
  BY <1>1 DEF ImageInv, TypeOK, RequestOK, UploadClean, Heeded, StagedOnce, OnlyWholeImages

\* So does a failed verification, which leaves them alone.
LEMMA FailVerifyKeeps ==
    ASSUME ImageInv, RequestOK', NEW s, SameSession(s), FailVerify(s)
    PROVE  ImageInv'
<1>1. SameSession(ota') /\ error' = TRUE /\ UNCHANGED <<updating, staged, image>>
  BY DEF FailVerify
<1> QED
  BY <1>1 DEF ImageInv, TypeOK, RequestOK, UploadClean, Heeded, StagedOnce,
              OnlyWholeImages, SameSession

\* And a step that at most changes whether something is being received, if no
\* upload is heeded that was not.
LEMMA SameSessionKeeps ==
    ASSUME ImageInv, RequestOK', SameSession(ota'), error' \in BOOLEAN,
           UNCHANGED <<updating, staged, image>>, UploadClean'
    PROVE  ImageInv'
BY DEF ImageInv, TypeOK, RequestOK, StagedOnce, OnlyWholeImages, SameSession

\* A request that makes progress is a request for the same.
LEMMA Noted ==
    \A r \in Request : /\ [r EXCEPT !.noted = TRUE] \in Request
                       /\ [r EXCEPT !.noted = TRUE].verify = r.verify
                       /\ [r EXCEPT !.noted = TRUE].auth = r.auth
BY DEF Request

\* The start of a file keeps the invariant.
LEMMA FileStartKeeps == ImageInv /\ FileStart => ImageInv'
<1> SUFFICES ASSUME ImageInv, FileStart PROVE ImageInv'
  OBVIOUS
<1>1. PICK r \in NewRequest :
        Unauthenticated(r) \/ AlreadyStopped(r) \/ BadMetadata(r)
          \/ VerifyBegins(r) \/ UploadBegins(r)
  BY DEF FileStart
<1>2. parser' = "file" /\ socket' = "open" /\ left' \in 1..Chunks /\ power' = power
      /\ quiet' = FALSE
  BY DEF FileStart
<1>3. r \in Request /\ ota \in Session /\ SameSession(Receiving)
  BY ReceivingIsSame DEF NewRequest, ImageInv, TypeOK
<1>4. Progress(r) => RequestOK' /\ request'.verify = r.verify /\ request'.auth = r.auth
  <2>1. SUFFICES ASSUME Progress(r) PROVE RequestOK' /\ request'.verify = r.verify
                                          /\ request'.auth = r.auth
    OBVIOUS
  <2> DEFINE noted == [r EXCEPT !.noted = TRUE]
  <2>2. request' = noted /\ armed' = TRUE /\ silent' = FALSE /\ checkDue' = checkDue
    BY <2>1 DEF Progress
  <2>3. noted \in Request /\ noted.verify = r.verify /\ noted.auth = r.auth
    BY <1>3, Noted
  <2> HIDE DEF noted
  <2>4. request'.verify = r.verify /\ request'.auth = r.auth
    BY <2>2, <2>3
  <2>5. /\ checkDue \in BOOLEAN /\ power \in BOOLEAN
        /\ left' \in 0..Chunks
    BY <1>2 DEF ImageInv, TypeOK
  <2>6. RequestOK'
    <3>1. request' \in Request
      BY <2>2, <2>3
    <3> QED
      BY <1>2, <2>2, <2>5, <3>1 DEF RequestOK
  <2> QED
    BY <2>4, <2>6
<1>5. request' = r /\ UNCHANGED idleTimer => RequestOK'
  <2>1. left' \in 0..Chunks
    BY <1>2
  <2>2. quiet' \in BOOLEAN /\ power' \in BOOLEAN
    BY <1>2, Zenon DEF ImageInv, TypeOK
  <2>3. UNCHANGED idleTimer => armed' \in BOOLEAN /\ checkDue' \in BOOLEAN /\ silent' \in BOOLEAN
    BY Zenon DEF ImageInv, TypeOK, idleTimer
  <2> QED
    BY <1>2, <1>3, <2>1, <2>2, <2>3, Zenon DEF RequestOK
<1>6. CASE Unauthenticated(r)
  <2>1. RequestOK' /\ SameSession(ota') /\ UploadClean'
    BY <1>3, <1>5, <1>6
       DEF Unauthenticated, UploadClean, Heeded, SameSession, services
  <2> QED
    BY <2>1, <1>6, SameSessionKeeps DEF Unauthenticated, services
<1>7. CASE AlreadyStopped(r)
  BY <1>3, <1>5, <1>7, FailUploadKeeps DEF AlreadyStopped
<1>8. CASE BadMetadata(r)
  <2>1. RequestOK'
    BY <1>4, <1>8 DEF BadMetadata
  <2>2. FailVerify(Receiving) \/ FailUpload(Receiving)
    BY <1>8 DEF BadMetadata
  <2>3. Receiving \in Session
    BY <1>3 DEF SameSession
  <2> QED
    BY <2>1, <2>2, <2>3, <1>3, FailUploadKeeps, FailVerifyKeeps
<1>9. CASE VerifyBegins(r)
  <2>1. RequestOK' /\ request'.verify /\ SameSession(ota')
    BY <1>3, <1>4, <1>9 DEF VerifyBegins
  <2> QED
    BY <2>1, <1>9, SameSessionKeeps DEF VerifyBegins, UploadClean
<1>10. CASE UploadBegins(r)
  <2> DEFINE stopping == [Receiving EXCEPT !.stopped = TRUE]
  <2>1. RequestOK' /\ r.auth /\ ~r.verify /\ ~ota.stopped
    BY <1>4, <1>10 DEF UploadBegins, Accepted
  <2>2. ~ota.recovering /\ ~staged
    BY <2>1, <1>3 DEF ImageInv, StagedOnce, Session
  <2>3. stopping \in Session /\ stopping.stopped /\ ~stopping.recovering
    BY <1>3, <2>2 DEF Receiving, Session
  <2>4. CASE FailUpload(stopping)
    BY <2>1, <2>3, <2>4, FailUploadKeeps
  <2>5. CASE error' = FALSE /\ ota' = stopping /\ updating' = TRUE /\ image' = "partial"
             /\ UNCHANGED staged
    <3> HIDE DEF stopping
    <3> QED
      BY <2>1, <2>2, <2>3, <2>5
         DEF ImageInv, TypeOK, RequestOK, UploadClean, StagedOnce, OnlyWholeImages
  <2> QED
    BY <1>10, <2>4, <2>5 DEF UploadBegins
<1> QED
  BY <1>1, <1>6, <1>7, <1>8, <1>9, <1>10

\* A chunk of a file keeps it.
LEMMA FileWriteKeeps == ImageInv /\ FileWrite => ImageInv'
<1> SUFFICES ASSUME ImageInv, FileWrite PROVE ImageInv'
  OBVIOUS
<1>1. left' \in 0..Chunks /\ parser = "file" /\ quiet' = FALSE
      /\ UNCHANGED <<parser, socket, power>>
  BY OtaUpdateAssumption DEF FileWrite, InFile, Unsent, ImageInv, TypeOK
<1>2. SameSession(Receiving) /\ Receiving \in Session
  BY ReceivingIsSame DEF ImageInv, TypeOK, SameSession
<1>3. CASE Heeded
  <2>1. Progress(request)
    BY <1>3 DEF FileWrite
  <2>2. /\ RequestOK'
        /\ request'.verify = request.verify /\ request'.auth = request.auth
    BY <1>1, <2>1, Noted DEF Progress, RequestOK, ImageInv, TypeOK
  <2>3. CASE ota' = Receiving /\ UNCHANGED <<error, updating, staged, image>>
    <3>1. UploadClean' /\ SameSession(ota') /\ error' \in BOOLEAN
      BY <1>1, <1>2, <1>3, <2>2, <2>3
         DEF ImageInv, TypeOK, UploadClean, Heeded, SameSession
    <3> QED
      BY <2>2, <2>3, <3>1, SameSessionKeeps
  <2>4. CASE FailUpload(Receiving)
    BY <1>2, <2>2, <2>4, FailUploadKeeps
  <2> QED
    BY <1>3, <2>3, <2>4 DEF FileWrite
<1>4. CASE ~Heeded
  BY <1>1, <1>4
     DEF FileWrite, ImageInv, TypeOK, UploadClean, Heeded, StagedOnce, OnlyWholeImages,
         services, idleTimer
<1> QED
  BY <1>3, <1>4

\* The end of a file keeps it: what is staged then is the whole image.
LEMMA FileEndKeeps == ImageInv /\ FileEnd => ImageInv'
<1> SUFFICES ASSUME ImageInv, FileEnd PROVE ImageInv'
  OBVIOUS
<1>1. SameSession(NotReceiving) /\ NotReceiving \in Session
  BY ReceivingIsSame DEF ImageInv, TypeOK, SameSession
<1>2. RequestOK' /\ parser = "file" /\ parser' = "done"
  BY DEF FileEnd, InFile, RequestOK, ImageInv, TypeOK, services
<1>3. UploadClean'
  BY <1>2 DEF UploadClean
<1>4. CASE Heeded /\ request.verify
  <2>1. ota' = NotReceiving /\ UNCHANGED <<error, updating, staged, image>>
    BY <1>4 DEF FileEnd
  <2>2. error' \in BOOLEAN
    BY <2>1 DEF ImageInv, TypeOK
  <2> QED
    BY <1>1, <1>2, <1>3, <2>1, <2>2, SameSessionKeeps DEF SameSession
<1>5. CASE Heeded /\ ~request.verify
  <2> DEFINE finished == [NotReceiving EXCEPT !.complete = TRUE]
  <2>1. ota.stopped /\ ~ota.recovering
    BY <1>2, <1>5 DEF ImageInv, UploadClean
  <2>2. finished \in Session /\ finished.stopped /\ finished.complete /\ ~finished.recovering
    BY <1>1, <2>1 DEF SameSession, Session
  <2>3. CASE FailUpload(NotReceiving)
    BY <1>1, <1>2, <2>3, FailUploadKeeps
  <2>4. CASE /\ ota' = finished /\ updating' = FALSE /\ staged' = TRUE /\ image' = "whole"
             /\ UNCHANGED error
    <3> HIDE DEF finished
    <3> QED
      BY <1>2, <1>3, <2>2, <2>4
         DEF ImageInv, TypeOK, RequestOK, StagedOnce, OnlyWholeImages
  <2> QED
    BY <1>5, <2>3, <2>4 DEF FileEnd, Finish
<1>6. CASE ~Heeded
  BY <1>2, <1>3, <1>6
     DEF FileEnd, ImageInv, TypeOK, RequestOK, StagedOnce, OnlyWholeImages, services
<1> QED
  BY <1>4, <1>5, <1>6

\* The abort of a file keeps it.
LEMMA FileAbortedKeeps == ImageInv /\ FileAborted => ImageInv'
<1> SUFFICES ASSUME ImageInv, FileAborted PROVE ImageInv'
  OBVIOUS
<1>1. SameSession(NotReceiving) /\ NotReceiving \in Session
  BY ReceivingIsSame DEF ImageInv, TypeOK, SameSession
<1>2. RequestOK' /\ parser' = "idle"
  BY DEF FileAborted, RequestOK, ImageInv, TypeOK, services
<1>3. CASE request.auth
  <2>1. FailVerify(NotReceiving) \/ FailUpload(NotReceiving)
    BY <1>3 DEF FileAborted, Failed
  <2> QED
    BY <1>1, <1>2, <2>1, FailUploadKeeps, FailVerifyKeeps
<1>4. CASE ~request.auth
  BY <1>2, <1>4
     DEF FileAborted, ImageInv, TypeOK, RequestOK, UploadClean, StagedOnce,
         OnlyWholeImages, services
<1> QED
  BY <1>3, <1>4

\* The final handler keeps it.
LEMMA HandleUpdateKeeps == ImageInv /\ HandleUpdate => ImageInv'
<1> SUFFICES ASSUME ImageInv, HandleUpdate PROVE ImageInv'
  OBVIOUS
<1>1. SameSession(NotReceiving) /\ NotReceiving \in Session
  BY ReceivingIsSame DEF ImageInv, TypeOK, SameSession
<1>2. RequestOK' /\ parser' = "idle"
  BY DEF HandleUpdate, RequestOK, Restarts, ImageInv, TypeOK, services
<1>3. UploadClean'
  BY <1>2 DEF UploadClean
<1>4. CASE ~request.auth
  BY <1>2, <1>3, <1>4
     DEF HandleUpdate, ImageInv, TypeOK, RequestOK, StagedOnce, OnlyWholeImages, services
<1>5. CASE FailUpload(NotReceiving)
  BY <1>1, <1>2, <1>5, FailUploadKeeps
<1>6. CASE ota' = NotReceiving /\ UNCHANGED <<error, updating, staged, image>>
  <2>1. error' \in BOOLEAN
    BY <1>6 DEF ImageInv, TypeOK
  <2> QED
    BY <1>1, <1>2, <1>3, <1>6, <2>1, SameSessionKeeps DEF SameSession
<1> QED
  BY <1>4, <1>5, <1>6 DEF HandleUpdate

\* What a start begins with.
LEMMA FreshStart == NoRequest \in Request /\ NewSession \in Session /\ 0 \in 0..Chunks
BY OtaUpdateAssumption DEF NoRequest, Request, NewSession, Session

\* The board starts with nothing staged.
LEMMA ImageStarts == Init => ImageInv
BY FreshStart DEF Init, ImageInv, TypeOK, UploadClean, StagedOnce, OnlyWholeImages

\* Every step of an upload, of a verification and of the board around them.
LEMMA ImageSteps == ImageInv /\ [Next]_vars => ImageInv'
<1> SUFFICES ASSUME ImageInv, [Next]_vars PROVE ImageInv'
  OBVIOUS
<1> USE DEF ImageInv, TypeOK, UploadClean, StagedOnce, OnlyWholeImages, Heeded, services,
            idleTimer
<1>1. CASE FileStart
  BY <1>1, FileStartKeeps
<1>2. CASE FormWithoutFile
  BY <1>2 DEF FormWithoutFile, NewRequest
<1>3. CASE FileWrite \/ FileEnd \/ FileAborted
  BY <1>3, FileWriteKeeps, FileEndKeeps, FileAbortedKeeps
<1>4. CASE HandleUpdate
  BY <1>4, HandleUpdateKeeps
<1>5. CASE Idle
  <2>1. CASE Silence
    <3>1. quiet' \in BOOLEAN
      BY <2>1, Zenon DEF Silence
    <3>2. /\ silent' = TRUE
          /\ UNCHANGED <<parser, request, left, socket, error, services, armed, checkDue, power>>
      BY <2>1 DEF Silence
    <3> QED
      BY <3>1, <3>2
  <2>2. CASE TimerFires
    BY <2>2 DEF TimerFires
  <2>3. CASE CheckTimeout
    <3>1. socket' \in {"open", "closed"}
      BY <2>3 DEF CheckTimeout
    <3> QED
      BY <2>3, <3>1 DEF CheckTimeout
  <2> QED
    BY <1>5, <2>1, <2>2, <2>3 DEF Idle
<1>6. CASE ClientLeaves
  BY <1>6 DEF ClientLeaves
<1>7. CASE PollRecovery \/ UserRestarts
  <2>1. power' = FALSE /\ UNCHANGED <<parser, request, left, socket, error, services,
                                      idleTimer, quiet>>
    BY <1>7 DEF PollRecovery, UserRestarts, Restarts
  <2> QED
    BY <2>1
<1>8. CASE Boot
  BY <1>8, FreshStart DEF Boot
<1>9. CASE UNCHANGED vars
  BY <1>9 DEF vars
<1> QED
  BY <1>1, <1>2, <1>3, <1>4, <1>5, <1>6, <1>7, <1>8, <1>9 DEF Next, Upload

\* ImageInv is inductive.
THEOREM ImageInvariant == Spec => []ImageInv
<1> QED
  BY ImageStarts, ImageSteps, PTL DEF Spec

\* For an upload of any size: every variable has its type.
THEOREM OtaTypeCorrect == Spec => []TypeOK
<1>1. ImageInv => TypeOK
  BY DEF ImageInv
<1> QED
  BY <1>1, ImageInvariant, PTL

\* For an upload of any size: what the next start would boot is a whole image of a
\* session that has not failed, whichever flash operations fail and however often
\* clients start, end and abort their uploads.
THEOREM WholeImagesOnly == Spec => []OnlyWholeImages
<1>1. ImageInv => OnlyWholeImages
  BY DEF ImageInv
<1> QED
  BY <1>1, ImageInvariant, PTL

\* A verification, from its first byte to its answer, neither stages an image nor
\* drops one, and fails no session.
THEOREM VerifyingIsHarmless == Spec => VerifyHarmless
<1> DEFINE Undisturbed == staged' = staged /\ ota'.recovering = ota.recovering
                            /\ ota'.complete = ota.complete
           Harmless == (Verifying \/ Verifying') /\ power' => Undisturbed
<1>1. ImageInv /\ [Next]_vars => [Harmless]_vars
  <2> SUFFICES ASSUME ImageInv, Next PROVE Harmless
    BY DEF vars
  <2> USE DEF Verifying, services, idleTimer
  <2>0. ota \in Session /\ request \in Request
    BY DEF ImageInv, TypeOK
  <2>. SameSession(Receiving) /\ SameSession(NotReceiving)
    BY <2>0, ReceivingIsSame
  <2>1. CASE FileStart
    <3>1. PICK r \in NewRequest :
            Unauthenticated(r) \/ AlreadyStopped(r) \/ BadMetadata(r)
              \/ VerifyBegins(r) \/ UploadBegins(r)
      BY <2>1 DEF FileStart
    <3>2. ~Verifying
      BY <2>1 DEF FileStart
    <3>3. r \in Request
      BY DEF NewRequest
    <3>4. CASE Unauthenticated(r)
      BY <3>4 DEF Unauthenticated
    <3>5. CASE AlreadyStopped(r) \/ UploadBegins(r)
      BY <3>2, <3>3, <3>5, Noted DEF AlreadyStopped, UploadBegins, Accepted, Progress
    <3>6. CASE BadMetadata(r) \/ VerifyBegins(r)
      <4>1. Progress(r) /\ (FailVerify(Receiving) \/ ~r.verify \/ VerifyBegins(r))
        BY <3>6 DEF BadMetadata, VerifyBegins
      <4>2. ~r.verify => ~Verifying'
        BY <3>3, <4>1, Noted DEF Progress
      <4> QED
        BY <3>2, <4>1, <4>2 DEF VerifyBegins, FailVerify, SameSession
    <3> QED
      BY <3>1, <3>4, <3>5, <3>6
  <2>2. CASE FormWithoutFile
    BY <2>2 DEF FormWithoutFile
  <2>3. CASE FileWrite
    <3>1. Heeded => request'.verify = request.verify
      BY <2>0, <2>3, Noted DEF FileWrite, Progress
    <3> QED
      BY <2>3, <3>1 DEF FileWrite, SameSession
  <2>4. CASE FileEnd \/ FileAborted
    BY <2>4 DEF FileEnd, FileAborted, Failed, FailVerify, SameSession
  <2>5. CASE HandleUpdate
    BY <2>5 DEF HandleUpdate, SameSession
  <2>6. CASE Idle
    BY <2>6 DEF Idle, Silence, TimerFires, CheckTimeout
  <2>7. CASE ClientLeaves
    BY <2>7 DEF ClientLeaves
  <2>8. CASE PollRecovery \/ UserRestarts
    BY <2>8 DEF PollRecovery, UserRestarts, Restarts
  <2>9. CASE Boot
    BY <2>9 DEF Boot
  <2> QED
    BY <2>1, <2>2, <2>3, <2>4, <2>5, <2>6, <2>7, <2>8, <2>9 DEF Next, Upload
<1> QED
  BY <1>1, ImageInvariant, PTL DEF Spec, VerifyHarmless

\* The time the idle timeout goes by is that of the client, unless its upload has
\* failed: of an upload that was let in, 30 s without progress are 30 s in which
\* nothing came.
QuietInv ==
    parser # "idle" /\ request.noted =>
        /\ request.auth
        /\ silent => quiet \/ error

\* Whatever is called for a request, once it is noted the silence is over.
LEMMA ProgressEndsSilence ==
    \A r \in Request : Progress(r) => /\ request'.auth = r.auth /\ request'.noted
                                      /\ ~silent'
BY DEF Request, Progress

\* QuietInv is kept: each chunk that ends a quiet time is either progress or comes
\* after an error.
LEMMA QuietSteps == TypeOK /\ QuietInv /\ [Next]_vars => QuietInv'
<1> SUFFICES ASSUME TypeOK, QuietInv, [Next]_vars PROVE QuietInv'
  OBVIOUS
<1>0. request \in Request
  BY DEF TypeOK
<1>1. CASE FileStart
  <2>1. PICK r \in NewRequest :
          Unauthenticated(r) \/ AlreadyStopped(r) \/ BadMetadata(r)
            \/ VerifyBegins(r) \/ UploadBegins(r)
    BY <1>1 DEF FileStart
  <2>2. r \in Request /\ ~r.noted
    BY DEF NewRequest
  <2>3. CASE Unauthenticated(r) \/ AlreadyStopped(r)
    BY <2>2, <2>3 DEF Unauthenticated, AlreadyStopped, QuietInv
  <2>4. CASE BadMetadata(r) \/ VerifyBegins(r) \/ UploadBegins(r)
    <3>1. Progress(r) /\ r.auth
      BY <2>4 DEF BadMetadata, VerifyBegins, UploadBegins, Accepted
    <3> QED
      BY <2>2, <3>1, ProgressEndsSilence DEF QuietInv
  <2> QED
    BY <2>1, <2>3, <2>4
<1>2. CASE FormWithoutFile
  BY <1>2 DEF FormWithoutFile, NewRequest, QuietInv
<1>3. CASE FileWrite
  <2>1. parser = "file"
    BY <1>3 DEF FileWrite, InFile
  <2>2. CASE Heeded
    BY <1>0, <1>3, <2>2, ProgressEndsSilence DEF FileWrite, Heeded, QuietInv
  <2>3. CASE ~Heeded
    <3>1. UNCHANGED <<parser, request, error, silent>>
      BY <1>3, <2>3 DEF FileWrite, idleTimer
    <3> QED
      BY <2>1, <2>3, <3>1 DEF Heeded, QuietInv
  <2> QED
    BY <2>2, <2>3
<1>4. CASE FileEnd
  <2>1. parser = "file" /\ UNCHANGED <<request, silent, quiet>>
    BY <1>4 DEF FileEnd, InFile
  <2>2. error => error'
    BY <1>4 DEF FileEnd, Finish, FailUpload
  <2> QED
    BY <2>1, <2>2 DEF QuietInv
<1>5. CASE FileAborted \/ HandleUpdate
  BY <1>5 DEF FileAborted, HandleUpdate, QuietInv
<1>6. CASE Idle
  <2>1. CASE Silence
    <3>1. UNCHANGED <<parser, request, error>> /\ (quiet' \/ (parser = "file" /\ ~Heeded))
      BY <2>1 DEF Silence, InFile
    <3> QED
      BY <3>1 DEF Heeded, QuietInv
  <2>2. CASE TimerFires
    BY <2>2 DEF TimerFires, QuietInv
  <2>3. CASE CheckTimeout
    BY <2>3 DEF CheckTimeout, QuietInv
  <2> QED
    BY <1>6, <2>1, <2>2, <2>3 DEF Idle
<1>7. CASE ClientLeaves \/ PollRecovery \/ UserRestarts
  BY <1>7 DEF ClientLeaves, PollRecovery, UserRestarts, idleTimer, QuietInv
<1>8. CASE Boot
  BY <1>8 DEF Boot, QuietInv
<1>9. CASE UNCHANGED vars
  BY <1>9 DEF vars, idleTimer, QuietInv
<1> QED
  BY <1>1, <1>2, <1>3, <1>4, <1>5, <1>6, <1>7, <1>8, <1>9 DEF Next, Upload

\* For an upload of any size: the idle timeout cuts off no client that goes on
\* sending, however old the check is that closes the connection, unless the upload
\* has failed already.
THEOREM TimeoutSparesLive == Spec => LiveUploadKept
<1> DEFINE Spares == CheckTimeout /\ socket' # socket => quiet \/ error
<1>1. Init => QuietInv
  BY DEF Init, QuietInv
<1>2. TypeOK /\ QuietInv /\ [Next]_vars => QuietInv'
  BY QuietSteps
<1>3. QuietInv /\ [Next]_vars => [Spares]_vars
  <2> SUFFICES ASSUME QuietInv, CheckTimeout, socket' # socket PROVE quiet \/ error
    OBVIOUS
  <2>1. silent /\ parser # "idle" /\ request.noted
    BY DEF CheckTimeout, TimedOut
  <2> QED
    BY <2>1 DEF QuietInv
<1> QED
  BY <1>1, <1>2, <1>3, OtaTypeCorrect, PTL DEF Spec, LiveUploadKept
=============================================================================
