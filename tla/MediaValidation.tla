--------------------------- MODULE MediaValidation ---------------------------
(***************************************************************************)
(* POST /api/multimodal/media/validate: get_bounded_media_body collects the*)
(* body chunk by chunk and cuts it at the limit, the caller is             *)
(* authenticated only after that, MediaValidationService judges the bytes  *)
(* against what the headers say of them and commits an audit row before it *)
(* answers.  Bytes and milliseconds are counted in coarse units: the code  *)
(* only compares them with its limits.                                     *)
(***************************************************************************)
EXTENDS Naturals

CONSTANTS
  Uploads,
  MaxImage,       \* MAX_IMAGE_BYTES
  MaxAudio,       \* MAX_AUDIO_BYTES, also MAX_UPLOAD_BYTES
  MaxDuration,    \* MAX_AUDIO_DURATION_MS
  MaxChunk,       \* the most one chunk of the stream holds
  Media           \* the files that are sent

VARIABLES
  upload,         \* upload[u]: how far request u has come
  trail           \* the rows of audit_events, one set per upload

vars == <<upload, trail>>

Images == {"image/jpeg", "image/png", "image/webp"}
ExtensionsOf ==
  [mime \in Images \union {"audio/wav"} |->
     CASE mime = "image/jpeg" -> {".jpg", ".jpeg"}
       [] mime = "image/png" -> {".png"}
       [] mime = "image/webp" -> {".webp"}
       [] OTHER -> {".wav"}]
Supported == DOMAIN ExtensionsOf
Mimes == Supported \union {"other"}

NoDuration == MaxDuration + 2        \* wave.open cannot read the container
Durations == 0..NoDuration

\* What is said of a file and what its first bytes and its container show.
Files ==
  [safeName : BOOLEAN, extension : {".jpg", ".jpeg", ".png", ".webp", ".wav", "other"},
   declared : Mimes, signature : Mimes, duration : Durations]

\* What the constants are taken to be.
MediaConstants ==
  /\ {MaxImage, MaxAudio, MaxDuration} \subseteq Nat
  /\ MaxChunk \in Nat \ {0}
  /\ Media \subseteq Files

Lengths == {"absent", "unreadable", "negative", "within", "above"}

\* The first check after the body that a request fails, and its answer.
Screening ==
  [session |-> 401, csrf |-> 403, headers |-> 422, conversation |-> 400]
Flaws == DOMAIN Screening

TypeReasons ==
  {"unsupported_media_type", "actual_media_type_unknown", "mime_type_mismatch",
   "extension_mismatch", "invalid_audio_container"}
Reasons ==
  TypeReasons \union
  {"invalid_filename", "empty_media", "media_too_large", "audio_duration_exceeded",
   "media_validated"}

Replies == {200, 400, 401, 403, 413, 415, 422, 500}
NoReply == 0
NoFile == [none |-> TRUE]

Fresh ==
  [step |-> "idle", length |-> "absent", got |-> 0, file |-> NoFile,
   reason |-> "media_validated", reply |-> NoReply]

MediaTypeOK ==
  /\ upload \in
       [Uploads ->
         [step : {"idle", "reading", "screening", "inspecting", "auditing",
                  "replied", "gone"},
          length : Lengths, got : 0..(MaxAudio + MaxChunk),
          file : Files \union {NoFile}, reason : Reasons,
          reply : Replies \union {NoReply}]]
  /\ trail \in
       [Uploads -> SUBSET [status : {"validated", "rejected"}, code : Reasons]]

Go(u, r) == upload' = [upload EXCEPT ![u] = r]
Answer(r, code) == [r EXCEPT !.step = "replied", !.reply = code]

-----------------------------------------------------------------------------
\* The length the client claims is checked first; it may be absent or a lie.
ReceiveHeaders(u, length) ==
  LET r == [upload[u] EXCEPT !.length = length] IN
  /\ upload[u].step = "idle"
  /\ Go(u, CASE length \in {"unreadable", "negative"} -> Answer(r, 400)
             [] length = "above" -> Answer(r, 413)
             [] OTHER -> [r EXCEPT !.step = "reading"])
  /\ UNCHANGED trail

\* Slip: the limit is looked at before the chunk is added.
CheckThenExtend(u, n) ==
  LET r == upload[u] IN
  /\ r.step = "reading"
  /\ Go(u, IF r.got > MaxAudio THEN Answer(r, 413) ELSE [r EXCEPT !.got = @ + n])
  /\ UNCHANGED trail

\* One turn of get_bounded_media_body's loop.
ReceiveChunk(u, n) ==
  LET r == [upload[u] EXCEPT !.got = @ + n] IN
  /\ upload[u].step = "reading"
  /\ Go(u, IF r.got > MaxAudio THEN Answer(r, 413) ELSE r)
  /\ UNCHANGED trail

EndOfBody(u) ==
  /\ upload[u].step = "reading"
  /\ Go(u, [upload[u] EXCEPT !.step = "screening"])
  /\ UNCHANGED trail

\* The client hangs up while its body is read: nobody is left to answer.
Disconnect(u) ==
  /\ upload[u].step = "reading"
  /\ Go(u, [upload[u] EXCEPT !.step = "gone"])
  /\ UNCHANGED trail

\* The dependencies after the body (the session and its user, the CSRF token, the
\* headers), then the service's own check of the conversation identifier.  Its
\* check of is_active cannot fail: get_current_user refused an inactive user.
Screen(u) ==
  LET r == upload[u] IN
  /\ r.step = "screening"
  /\ \/ \E flaw \in Flaws : Go(u, Answer(r, Screening[flaw]))
     \/ Go(u, [r EXCEPT !.step = "inspecting"])
  /\ UNCHANGED trail

\* Slip: every medium is measured by the larger limit.
OneLimit(mime) == MaxAudio

MaximumSize(mime) == IF mime \in Images THEN MaxImage ELSE MaxAudio

\* MediaInspector.inspect: no signature fits in an empty body, and only a WAV
\* container has a duration.
Inspected(f, size) ==
  LET mime == IF size = 0 THEN "other" ELSE f.signature IN
  [f EXCEPT !.signature = mime,
            !.duration = IF mime = "audio/wav" THEN @ ELSE NoDuration]

\* MediaValidationPolicy.evaluate.  The modality is derived from the detected
\* type, so "modality_mismatch" cannot arise.
Evaluate(f, size) ==
  IF ~f.safeName THEN "invalid_filename"
  ELSE IF size = 0 THEN "empty_media"
  ELSE IF f.declared \notin Supported THEN "unsupported_media_type"
  ELSE IF f.signature \notin Supported THEN "actual_media_type_unknown"
  ELSE IF f.declared # f.signature THEN "mime_type_mismatch"
  ELSE IF f.extension \notin ExtensionsOf[f.signature] THEN "extension_mismatch"
  ELSE IF size > MaximumSize(f.signature) THEN "media_too_large"
  ELSE IF f.signature \in Images THEN "media_validated"
  ELSE IF f.duration = NoDuration THEN "invalid_audio_container"
  ELSE IF f.duration > MaxDuration THEN "audio_duration_exceeded"
  ELSE "media_validated"

Inspect(u, f) ==
  LET r == upload[u]
      d == Inspected(f, r.got)
  IN /\ r.step = "inspecting"
     /\ Go(u, [r EXCEPT !.step = "auditing", !.file = d,
                        !.reason = Evaluate(d, r.got)])
     /\ UNCHANGED trail

\* _raise_validation_error and the exception handlers.
ReplyFor(reason) ==
  CASE reason = "media_validated" -> 200
    [] reason = "media_too_large" -> 413
    [] reason \in TypeReasons -> 415
    [] OTHER -> 400

Row(reason) ==
  [status |-> IF reason = "media_validated" THEN "validated" ELSE "rejected",
   code |-> reason]

\* Slip: only what was accepted leaves a row.
AuditAccepted(u) ==
  LET r == upload[u] IN
  /\ r.step = "auditing"
  /\ Go(u, Answer(r, ReplyFor(r.reason)))
  /\ trail' = IF r.reason = "media_validated"
              THEN [trail EXCEPT ![u] = @ \union {Row(r.reason)}] ELSE trail

\* record_multimodal_event commits the row; the result or the error follows.
Audit(u) ==
  LET r == upload[u] IN
  /\ r.step = "auditing"
  /\ Go(u, Answer(r, ReplyFor(r.reason)))
  /\ trail' = [trail EXCEPT ![u] = @ \union {Row(r.reason)}]

\* The row is not committed: the medium's verdict is lost with it.
AuditFails(u) ==
  /\ upload[u].step = "auditing"
  /\ Go(u, Answer(upload[u], 500))
  /\ UNCHANGED trail

-----------------------------------------------------------------------------
Init ==
  /\ upload = [u \in Uploads |-> Fresh]
  /\ trail = [u \in Uploads |-> {}]

ServerStep(u) == Screen(u) \/ (\E f \in Media : Inspect(u, f)) \/ Audit(u) \/ AuditFails(u)

Next ==
  \E u \in Uploads :
    \/ \E length \in Lengths : ReceiveHeaders(u, length)
    \/ \E n \in 1..MaxChunk : ReceiveChunk(u, n)
    \/ EndOfBody(u)
    \/ Disconnect(u)
    \/ ServerStep(u)

Spec == Init /\ [][Next]_vars

-----------------------------------------------------------------------------
\* A body never outgrows the limit by more than a chunk, whatever length was claimed
\* for it; the chunk that crosses the limit is the last one read, and nothing
\* above the limit reaches the inspector.
BufferIsBounded ==
  \A u \in Uploads :
    LET r == upload[u] IN
    /\ r.got <= MaxAudio + MaxChunk
    /\ r.got > MaxAudio => r.reply = 413 /\ r.file = NoFile

\* A file is right when its name, its type and its extension agree with what its
\* bytes show and it keeps to its limits.
Right(f, size) ==
  /\ f.safeName
  /\ f.signature = f.declared
  /\ \/ /\ <<f.declared, f.extension>> \in
             {<<"image/jpeg", ".jpg">>, <<"image/jpeg", ".jpeg">>,
              <<"image/png", ".png">>, <<"image/webp", ".webp">>}
        /\ size \in 1..MaxImage
     \/ /\ <<f.declared, f.extension>> = <<"audio/wav", ".wav">>
        /\ size \in 1..MaxAudio
        /\ f.duration \in 0..MaxDuration

\* However the client cut it into chunks and whichever check came first, a medium
\* is validated only if it is right, a right one that was looked at is refused only
\* for want of an audit row, and 413 is answered only to what is too large.
RepliesAreExact ==
  \A u \in Uploads :
    LET r == upload[u]
        looked == r.file # NoFile
    IN /\ r.reply = 200 => looked /\ Right(r.file, r.got)
       /\ r.step = "replied" /\ looked /\ Right(r.file, r.got) => r.reply \in {200, 500}
       /\ r.reply = 413 =>
            \/ r.length = "above"
            \/ r.got > MaxAudio
            \/ looked /\ r.file.signature \in Images /\ r.got > MaxImage

\* The trail has one row for every medium whose verdict was told, with that verdict
\* and, for a medium too large, that reason; it has none for a body that was cut or
\* refused unseen, nor for one whose row failed.
TrailTellsVerdict ==
  \A u \in Uploads :
    LET r == upload[u]
        told == r.file # NoFile /\ r.step = "replied" /\ r.reply # 500
    IN /\ {row.status : row \in trail[u]} =
            (IF ~told THEN {} ELSE IF r.reply = 200 THEN {"validated"} ELSE {"rejected"})
       /\ \A row \in trail[u] : row.code = "media_too_large" <=> r.reply = 413
=============================================================================
