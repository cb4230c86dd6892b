---------------------------- MODULE RequestChecks ----------------------------
(***************************************************************************)
(* What the API accepts: the checks of POST /api/currency/simple,          *)
(* /fractional and /plan (the pydantic models of id_create_service.py and  *)
(* the handlers of currency_functions.py) and of POST /api/storage/upload, *)
(* with the number of chunks a file is cut into.                           *)
(***************************************************************************)
EXTENDS Integers, SequencesExt

CONSTANTS
    Options,        \* currency options a client may send, in a simple section
    FewOptions,     \* the same, in a fractional section
    FileSizes, ChunkSizes,
    MaxChunk,       \* largest chunk, 999000 bytes
    MaxUpload       \* STORAGE_MAX_UPLOAD_BYTES

ASSUME ChecksAssumption ==
    /\ Options \subseteq Int /\ FewOptions \subseteq Int
    /\ FileSizes \subseteq Nat /\ ChunkSizes \subseteq Int
    /\ MaxChunk \in Nat \ {0} /\ MaxUpload \in Nat

\* A section of a request; "absent" stands for null.  unsupplied: some reserve
\* has no supply.
Absent     == [present |-> FALSE]
Simple     == [present : {TRUE}, define : Options]
Fractional == [present : {TRUE}, define : FewOptions, reserve : FewOptions,
               createReserves : BOOLEAN, unsupplied : BOOLEAN]

Modes == {"null", "", "auto", "simple", "simple_token",
          "fractional", "fractional_token", "other"}

\* The service a request meets: a daemon for its coin, an allowed parent, what
\* getcurrency says of the name, SOURCE_OF_FUNDS.
Service == [daemon : BOOLEAN, parentAllowed : BOOLEAN,
            currency : {"raises", "empty", "exists"}, source : BOOLEAN]

\* The two endpoints of one workflow are a mode whose section is always there.
CurrencyRequest ==
    [mode : {"simple_token"}, simple : Simple, fractional : {Absent}, at : Service]
    \cup
    [mode : {"fractional_token"}, simple : {Absent}, fractional : Fractional, at : Service]

PlanRequest ==
    [mode : Modes,
     simple : {Absent} \cup [present : {TRUE}, define : FewOptions],
     fractional : {Absent} \cup Fractional,
     at : [daemon : {TRUE}, parentAllowed : {TRUE}, currency : {"empty"}, source : BOOLEAN]]

UploadRequest ==
    [isFile : BOOLEAN, inBaseDir : BOOLEAN, size : FileSizes, chunkSize : ChunkSizes,
     daemon : BOOLEAN]

VARIABLES
    asked,      \* the request under way: <<>>, or the kind and the request
    answer      \* the status code, and what is stored

checksVars == <<asked, answer>>

Nothing == [code |-> 0, workflow |-> "none", chunkSize |-> 0, chunks |-> 0,
            daemon |-> "none"]

ChecksInit == asked = <<>> /\ answer = Nothing

-----------------------------------------------------------------------------
(* Currency requests *)

OptionFractional == 1
OptionReferrals  == 8
OptionToken      == 32

\* options & flag, of options that are not negative and a single bit.
Bit(options, flag) == flag * ((options \div flag) % 2)

\* options & ~SUPPORTED_CURRENCY_OPTIONS_MASK
UnsupportedBits(options) ==
    options - (Bit(options, OptionFractional) + Bit(options, OptionReferrals)
               + Bit(options, OptionToken))

\* Mutant: any of the known flags will do.
ValidAnyFlag(options) ==
    options >= 0 /\ UnsupportedBits(options) = 0 /\ options # 0

\* _validate_currency_options: no unknown bit, and all required ones.
ValidOptions(options) ==
    /\ options >= 0
    /\ UnsupportedBits(options) = 0
    /\ Bit(options, OptionToken) = OptionToken

ValidSimple(s) == s.present => ValidOptions(s.define)

ValidFractional(f) ==
    f.present => /\ f.createReserves => ~f.unsupplied
                 /\ ValidOptions(f.define) /\ ValidOptions(f.reserve)

\* The workflow that a plan's mode selects.
Workflow(r) ==
    CASE r.mode \in {"null", "auto", ""} ->
             IF r.fractional.present THEN "fractional_token"
             ELSE IF r.simple.present THEN "simple_token" ELSE "none"
      [] r.mode \in {"simple", "simple_token"}         -> "simple_token"
      [] r.mode \in {"fractional", "fractional_token"} -> "fractional_token"
      [] OTHER -> "none"

SectionThere(r) ==
    \/ Workflow(r) = "simple_token" /\ r.simple.present
    \/ Workflow(r) = "fractional_token" /\ r.fractional.present

\* The checks in the order in which the handler makes them, and their codes.
Checks(r) ==
    << [ok |-> ValidSimple(r.simple) /\ ValidFractional(r.fractional), code |-> 422],
       [ok |-> r.at.daemon,                 code |-> 503],
       [ok |-> r.at.parentAllowed,          code |-> 403],
       [ok |-> r.at.currency # "exists",    code |-> 409],
       [ok |-> r.at.source,                 code |-> 503],
       [ok |-> SectionThere(r),             code |-> 400] >>

\* A failed check ends the request; one that passes all is stored.
PostCurrency ==
    \E r \in CurrencyRequest \cup PlanRequest :
        LET failed == SelectInSeq(Checks(r), LAMBDA c : ~c.ok)
        IN  /\ asked' = <<"currency", r>>
            /\ answer' = IF failed # 0
                         THEN [Nothing EXCEPT !.code = Checks(r)[failed].code]
                         ELSE [Nothing EXCEPT !.code = 202, !.workflow = Workflow(r)]

-----------------------------------------------------------------------------
(* Uploads *)

\* Mutant: a last chunk that is not full is forgotten.
ChunksRoundedDown(size, chunk) ==
    IF size < chunk THEN 1 ELSE size \div chunk

ChunkCount(size, chunk) ==
    LET ceiling == (size + chunk - 1) \div chunk
    IN  IF ceiling < 1 THEN 1 ELSE ceiling

ChunkSize(wanted) ==
    IF wanted > MaxChunk THEN MaxChunk ELSE IF wanted < 1 THEN 1 ELSE wanted

\* A coin that no enabled daemon has is no error: the upload is stored with a daemon
\* that does not exist, and no sweep can serve it.
PostUpload ==
    \E r \in UploadRequest :
        /\ asked' = <<"upload", r>>
        /\ answer' = IF r.isFile /\ r.inBaseDir /\ r.size <= MaxUpload
                     THEN LET chunk == ChunkSize(r.chunkSize)
                          IN  [Nothing EXCEPT !.code = 202, !.chunkSize = chunk,
                                              !.chunks = ChunkCount(r.size, chunk),
                              !.daemon = IF r.daemon THEN "enabled" ELSE "unresolved"]
                     ELSE [Nothing EXCEPT !.code = 400]

ChecksNext == asked = <<>> /\ (PostCurrency \/ PostUpload)

ChecksSpec == ChecksInit /\ [][ChecksNext]_checksVars

-----------------------------------------------------------------------------
(* Properties *)

\* The values that the refusal of other options names (id_create_service.py:38).
SupportedValues == {32, 33, 40, 41}

\* A currency request is stored exactly when its workflow is the one asked for, with
\* auto a fractional one if it can be; the section of that workflow is there; every
\* section sent has supported options, and a supply for each reserve to be created;
\* a daemon has the coin, the parent is allowed, the name is not taken as far as
\* getcurrency tells, and SOURCE_OF_FUNDS is set.  Whether the daemon will define such
\* a currency is not checked: a reserve listed twice, for one, passes.
QueuedIffSound ==
    asked # <<>> /\ asked[1] = "currency" =>
        LET r     == asked[2]
            sound == /\ r.simple.present => r.simple.define \in SupportedValues
                     /\ r.fractional.present =>
                            /\ {r.fractional.define, r.fractional.reserve} \subseteq SupportedValues
                            /\ ~(r.fractional.createReserves /\ r.fractional.unsupplied)
                     /\ r.at.daemon /\ r.at.parentAllowed /\ r.at.source
                     /\ r.at.currency \in {"raises", "empty"}
            auto  == r.mode \in {"null", "auto", ""}
            queued(w) == answer.code = 202 /\ answer.workflow = w
        IN  /\ queued("fractional_token") <=>
                   /\ sound /\ r.fractional.present
                   /\ auto \/ r.mode \in {"fractional", "fractional_token"}
            /\ queued("simple_token") <=>
                   /\ sound /\ r.simple.present
                   /\ \/ auto /\ ~r.fractional.present
                      \/ r.mode \in {"simple", "simple_token"}
            /\ answer.code = 202 => answer.workflow # "none"

\* The chunks of an accepted upload, each of a size that an identity can hold,
\* reach the end of the file, and none but the only one of an empty file begins
\* beyond it (id_create_service.py:1506-1507).
ChunksCoverFile ==
    asked # <<>> /\ asked[1] = "upload" /\ answer.code = 202 =>
        /\ answer.chunkSize \in 1 .. MaxChunk
        /\ answer.chunks * answer.chunkSize >= asked[2].size
        /\ answer.chunks >= 1
        /\ answer.chunks > 1 => (answer.chunks - 1) * answer.chunkSize < asked[2].size

=============================================================================
