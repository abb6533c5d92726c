---------------------------- MODULE DocumentFetch ----------------------------
(***************************************************************************)
(* What a sync reads from a document source.  WebUrlConnector follows a    *)
(* bounded chain of redirects on one host, caps the body and takes the     *)
(* longest of three extractions; FileUploadConnector downloads, checks and *)
(* parses the objects a browser put into MinIO under presigned URLs, which *)
(* it may do again after the source exists.                                *)
(*                                                                         *)
(* Abstractions: a URL is its host, the kind of its scheme and what its    *)
(* name resolves to; an extraction is its length; an object is what the    *)
(* size check, the MIME check and the parsers make of it.                  *)
(***************************************************************************)
EXTENDS Naturals, Sequences, FiniteSets, SequencesExt

CONSTANTS
    Hosts,         \* host names
    MaxRedirects,  \* _MAX_REDIRECTS
    MinChars,      \* _MIN_EXTRACTED_CHARS, in some unit
    Lengths,       \* lengths an extraction can have
    Keys,          \* object keys
    Types,         \* file types: a subset of {"pdf", "docx", "xlsx", "text"}
    Contents,      \* contents of an object: see ContentType
    MaxFiles,      \* bound: files of a source
    MaxPuts,       \* bound: uploads
    MaxFetches     \* 1 + max_retries

Url == [host : Hosts, http : BOOLEAN, address : {"public", "private", "unresolved"}]
\* first and second are what the parser of its type and its fallback do.
ContentType == [huge : BOOLEAN, is : Types, first : {"text", "blank", "raises"},
                second : {"text", "blank", "raises"}]

ASSUME FetchAssumption ==
    /\ MaxRedirects \in Nat /\ MinChars \in Nat \ {0} /\ Lengths \subseteq Nat /\ 0 \in Lengths
    /\ Types \subseteq {"pdf", "docx", "xlsx", "text"} /\ Contents \subseteq ContentType
    /\ MaxFiles \in Nat \ {0} /\ MaxPuts \in Nat /\ MaxFetches \in Nat \ {0}

VARIABLES
    source,     \* "web", "files", or "none" while a file source is not created
    start,      \* config["url"], and whether crawl_mode is "single"
    step,       \* where fetch_documents is
    current,    \* current_url
    hop,        \* hop
    page,       \* the response that is being read
    requests,   \* history: URLs that were requested by this fetch
    grant,      \* key -> "none", "live" or "expired": its presigned URL
    object,     \* key -> what is stored under it
    puts,       \* uploads made
    files,      \* config["files"]
    read,       \* results of fetch_documents, with what was downloaded
    tested,     \* test_connection returned True once
    fetches,    \* runs of fetch_documents
    outcome     \* how the last one ended

webVars == <<start, current, hop, page, requests>>
uploadVars == <<grant, object, puts>>
fileVars == <<files, read>>
fetchVars == <<source, webVars, step, uploadVars, fileVars, tested, fetches, outcome>>

Missing == [huge |-> FALSE, is |-> "nothing", first |-> "raises", second |-> "raises"]
NoPage == [status |-> "none", length |-> 0]

Init ==
    /\ source \in {"web", "none"}
    /\ start \in [url : Url, single : BOOLEAN]
    /\ source = "none" => start.single /\ start.url.http /\ start.url.address = "public"
    /\ step = "idle" /\ current = start.url /\ hop = 0 /\ page = NoPage /\ requests = <<>>
    /\ grant = [k \in Keys |-> "none"] /\ object = [k \in Keys |-> Missing] /\ puts = 0
    /\ files = <<>> /\ read = <<>> /\ tested = FALSE /\ fetches = 0 /\ outcome = "none"

Fails(reason) == outcome' = reason /\ step' = "idle"

-----------------------------------------------------------------------------
(* The web page. *)

StartWeb ==
    /\ source = "web" /\ step = "idle" /\ fetches < MaxFetches /\ outcome \in {"none", "error"}
    /\ fetches' = fetches + 1
    /\ current' = start.url /\ hop' = 0 /\ page' = NoPage /\ requests' = <<>>
    /\ IF ~start.single THEN Fails("unsupported_crawl_mode")
       ELSE IF start.url.address # "public" THEN Fails("blocked_address")
       ELSE step' = "request" /\ outcome' = "none"
    /\ UNCHANGED <<source, start, uploadVars, fileVars, tested>>

\* httpx has no transport for the scheme of the URL, which no one checked.
SchemeUnsupported ==
    /\ step = "request" /\ ~current.http
    /\ Fails("error")
    /\ UNCHANGED <<source, webVars, uploadVars, fileVars, tested, fetches>>

Requests == step = "request" /\ current.http /\ requests' = Append(requests, current)

\* httpx: the connection fails, or breaks in the middle.  What is no network
\* error of httpx is no WebUrlFetchError either, and the sync retries it.
NetworkReasons == {"timeout", "dns_failure", "connection_refused", "error"}
NetworkFails ==
    /\ \/ Requests /\ \E reason \in NetworkReasons : Fails(reason)
       \/ /\ step = "body" /\ UNCHANGED requests
          /\ \E reason \in NetworkReasons \ {"dns_failure"} : Fails(reason)
    /\ UNCHANGED <<source, start, current, hop, page, uploadVars, fileVars, tested, fetches>>

\* Mutant: the host and the address are left to the guard of the first URL.
FollowsScheme(next) == next.http

\* A target is looked at before it is requested.
Follows(next) == next.http /\ next.address = "public" /\ next.host = start.url.host

LastHop == hop >= MaxRedirects

Redirect ==
    /\ Requests
    /\ \E next \in Url :
        IF ~Follows(next)
        THEN /\ Fails(IF next.http /\ next.address = "public" THEN "cross_domain_redirect"
                      ELSE "blocked_address")
             /\ UNCHANGED <<current, hop>>
        ELSE /\ current' = next
             /\ IF LastHop THEN Fails("http_client_error") /\ UNCHANGED hop
                ELSE hop' = hop + 1 /\ UNCHANGED <<step, outcome>>
    /\ UNCHANGED <<source, start, page, uploadVars, fileVars, tested, fetches>>

HttpError ==
    /\ Requests
    /\ \E reason \in {"http_auth_required", "http_client_error", "http_server_error"} : Fails(reason)
    /\ UNCHANGED <<source, start, current, hop, page, uploadVars, fileVars, tested, fetches>>

\* 2xx, or a 3xx without a Location.
Respond ==
    /\ Requests
    /\ step' = "body"
    /\ \E status \in {"2xx", "3xx"} : page' = [NoPage EXCEPT !.status = status]
    /\ UNCHANGED <<source, start, current, hop, uploadVars, fileVars, tested, fetches, outcome>>

\* The body, capped; its Content-Type decides, unless it names no HTML.
ReadBody ==
    /\ step = "body"
    /\ \/ Fails("content_too_large")
       \/ step' \in {"extract", "sniff"} /\ UNCHANGED outcome
    /\ UNCHANGED <<source, webVars, uploadVars, fileVars, tested, fetches>>

SniffBody ==
    /\ step = "sniff"
    /\ \/ step' = "extract" /\ UNCHANGED outcome
       \/ Fails("unsupported_content_type")
    /\ UNCHANGED <<source, webVars, uploadVars, fileVars, tested, fetches>>

Longer(a, b) == IF b > a THEN b ELSE a

\* _extract_main_content: trafilatura if it finds enough, then the longer of it
\* and readability, then the longest of all three; a failed one has length 0.
Extracted(t, r, s) ==
    IF t >= MinChars THEN t
    ELSE IF Longer(t, r) >= MinChars THEN Longer(t, r)
    ELSE Longer(Longer(t, r), s)

\* Archiving the page is best effort, and changes nothing here.
Extract ==
    /\ step = "extract"
    /\ \E t, r, s \in Lengths :
        /\ page' = [page EXCEPT !.length = Longer(Longer(t, r), s)]
        /\ Fails(IF Extracted(t, r, s) < MinChars THEN "empty_content" ELSE "documents")
    /\ UNCHANGED <<source, start, current, hop, requests, uploadVars, fileVars, tested, fetches>>

-----------------------------------------------------------------------------
(* Files. *)

\* create_upload_url: a key of its own for each call, good for 15 minutes.
CreateUploadUrl(k) ==
    /\ grant[k] = "none"
    /\ grant' = [grant EXCEPT ![k] = "live"]
    /\ UNCHANGED <<source, webVars, step, object, puts, fileVars, tested, fetches, outcome>>

UrlExpires(k) ==
    /\ grant[k] = "live"
    /\ grant' = [grant EXCEPT ![k] = "expired"]
    /\ UNCHANGED <<source, webVars, step, object, puts, fileVars, tested, fetches, outcome>>

\* The browser's PUT: nothing binds what it puts, or how often.
Put(k, c) ==
    /\ grant[k] = "live" /\ puts < MaxPuts
    /\ object' = [object EXCEPT ![k] = c] /\ puts' = puts + 1
    /\ UNCHANGED <<source, webVars, step, grant, fileVars, tested, fetches, outcome>>

\* The wizard saves the files it has keys for; whether they have arrived is
\* not asked.
CreateSource ==
    /\ source = "none"
    /\ \E list \in UNION {[1..n -> {k \in Keys : grant[k] # "none"} \X Types] : n \in 1..MaxFiles} :
           files' = list
    /\ source' = "files"
    /\ UNCHANGED <<webVars, step, uploadVars, read, tested, fetches, outcome>>

AllThere == \A i \in DOMAIN files : object[files[i][1]] # Missing

\* test_connection: every object exists, and MinIO answers.
TestFiles ==
    /\ source = "files" /\ ~tested
    /\ tested' = AllThere
    /\ UNCHANGED <<source, webVars, step, uploadVars, fileVars, fetches, outcome>>

StartFiles ==
    /\ source = "files" /\ step = "idle" /\ fetches < MaxFetches
    /\ outcome \in {"none", "error", "missing"}
    /\ fetches' = fetches + 1 /\ step' = "files" /\ outcome' = "none" /\ read' = <<>>
    /\ UNCHANGED <<source, webVars, uploadVars, files, tested>>

\* Mutant: what the browser declared is believed.
AcceptedAsDeclared(c, type) == c # Missing

\* _download_and_validate: size, and the type libmagic sees.
Accepted(c, type) == c # Missing /\ ~c.huge /\ c.is = type

\* A parser that raises or finds nothing has a fallback, which may raise out
\* of fetch_documents.
ParsesPdf(c) == c.first = "text" \/ c.second # "raises"
PythonDocxReads(c) == c.second # "raises"
ParsesDocx(c) == c.first = "text" \/ PythonDocxReads(c)
ParsesWorkbook(c) == c.first # "raises"

Parses(c, type) ==
    CASE type = "text" -> TRUE
      [] type = "xlsx" -> ParsesWorkbook(c)
      [] type = "pdf"  -> ParsesPdf(c)
      [] type = "docx" -> ParsesDocx(c)

NextFile == files[Len(read) + 1]

\* One turn of the loop of fetch_documents; MinIO may fail.
FetchFile ==
    /\ step = "files" /\ Len(read) < Len(files)
    /\ LET c == object[NextFile[1]] IN
       \/ Fails(IF c = Missing THEN "missing" ELSE "error") /\ UNCHANGED read
       \/ /\ Accepted(c, NextFile[2]) /\ Parses(c, NextFile[2])
          /\ read' = Append(read, [key |-> NextFile[1], got |-> c])
          /\ UNCHANGED <<step, outcome>>
    /\ UNCHANGED <<source, webVars, uploadVars, files, tested, fetches>>

FilesDone ==
    /\ step = "files" /\ Len(read) = Len(files)
    /\ Fails("documents")
    /\ UNCHANGED <<source, webVars, uploadVars, fileVars, tested, fetches>>

Next ==
    \/ StartWeb \/ SchemeUnsupported \/ NetworkFails \/ Redirect \/ HttpError \/ Respond \/ ReadBody
    \/ SniffBody \/ Extract
    \/ /\ source # "web"
       /\ \E k \in Keys : CreateUploadUrl(k) \/ UrlExpires(k) \/ \E c \in Contents : Put(k, c)
    \/ CreateSource \/ TestFiles \/ StartFiles \/ FetchFile \/ FilesDone

Spec == Init /\ [][Next]_fetchVars

-----------------------------------------------------------------------------
(* Properties. *)

\* Whatever chain of redirects a server answers with, a fetch sends a bounded
\* number of requests, all to the host the admin gave and none to an address
\* that had not been looked at.
StaysOnSite ==
    /\ Len(requests) <= MaxRedirects + 1
    /\ \A i \in DOMAIN requests :
           /\ requests[i].host = start.url.host
           /\ requests[i].address = "public" /\ requests[i].http

\* A fetch of files returns all of them in order or none, each of the size and
\* type that were checked on the very bytes that were parsed, however often the
\* browser put the object anew in the meantime; and no object is missing after
\* a test that passed.
FilesWhole ==
    /\ outcome = "documents" /\ source = "files" =>
        /\ Len(read) = Len(files) /\ Len(read) > 0
        /\ \A i \in DOMAIN read :
               /\ read[i].key = files[i][1]
               /\ ~read[i].got.huge /\ read[i].got.is = files[i][2]
    /\ tested => \A i \in DOMAIN files : object[files[i][1]] # Missing

\* (The code violates it: the guard takes a name that does not resolve for an
\* address it must not reach.)  A page is called blocked only when a URL was.
DnsFailureTold ==
    outcome = "blocked_address" /\ requests = <<>> => start.url.address = "private"
=============================================================================
