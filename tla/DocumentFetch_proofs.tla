------------------------- MODULE DocumentFetch_proofs -------------------------
(***************************************************************************)
(* Proofs about DocumentFetch.  WebInv is what a chain of redirects keeps: *)
(* as many requests were sent as hops were counted, and the next URL has   *)
(* passed the guard.  FileInv is what the loop over the files keeps: read  *)
(* is a checked prefix of files.                                           *)
(***************************************************************************)
EXTENDS DocumentFetch, SequenceTheorems, TLAPS

\* A URL a request may be sent to, apart from its scheme.
Safe(url) == url.host = start.url.host /\ url.address = "public"

Start == [url : Url, single : BOOLEAN]

WebInv ==
    /\ start \in Start
    /\ current \in Url
    /\ requests \in Seq(Url)
    /\ hop \in Nat
    /\ Len(requests) <= MaxRedirects + 1
    /\ \A i \in 1..Len(requests) : Safe(requests[i]) /\ requests[i].http
    /\ step = "request" => Len(requests) = hop /\ hop <= MaxRedirects /\ Safe(current)

\* What stands in read for the first Len(read) entries of files.
Checked(i) ==
    /\ read[i].key = files[i][1]
    /\ ~read[i].got.huge /\ read[i].got.is = files[i][2]

FileInv ==
    /\ source \in {"web", "files", "none"}
    /\ source = "none" => step = "idle" /\ outcome = "none" /\ read = <<>>
    /\ tested => source = "files"
    /\ source = "files" =>
        /\ step \in {"idle", "files"}
        /\ \E n \in Nat \ {0} : files \in [1..n -> Keys \X Types]
    /\ read \in Seq([key : Keys, got : Contents \cup {Missing}])
    /\ object \in [Keys -> Contents \cup {Missing}]
    /\ step = "files" => source = "files"
    /\ source = "files" =>
        /\ Len(read) <= Len(files)
        /\ \A i \in 1..Len(read) : Checked(i)
        /\ outcome = "documents" => Len(read) = Len(files)
        /\ step = "files" => outcome = "none"
        /\ tested => \A i \in DOMAIN files : object[files[i][1]] # Missing

\* A step that is none of the redirect loop.
WebRests == UNCHANGED <<start, current, hop, requests>> /\ (step' = "request" => step = "request")

\* A step of the web fetch.
FilesRest ==
    UNCHANGED <<source, files, read, object, tested>> /\ source = "web" /\ step' # "files"

-----------------------------------------------------------------------------
(* The redirects. *)

\* The initial states: nothing was requested.
LEMMA WebStarts == Init => WebInv
  BY FetchAssumption, EmptySeq DEF Init, WebInv, Start, Url

\* A request appended by a step that has Safe(current).
LEMMA RequestSent ==
    ASSUME WebInv, Requests
    PROVE  /\ requests' \in Seq(Url) /\ Len(requests') = hop + 1 /\ hop <= MaxRedirects
           /\ \A i \in 1..Len(requests') : Safe(requests'[i]) /\ requests'[i].http
  <1>1. /\ requests \in Seq(Url) /\ current \in Url /\ Len(requests) = hop /\ hop <= MaxRedirects
        /\ Safe(current) /\ current.http /\ requests' = Append(requests, current)
    BY DEF WebInv, Requests
  <1>2. /\ requests' \in Seq(Url) /\ Len(requests') = hop + 1
        /\ \A i \in 1..Len(requests) : requests'[i] = requests[i]
        /\ requests'[Len(requests) + 1] = current
    BY <1>1, AppendProperties
  <1>3. ASSUME NEW i \in 1..Len(requests')
        PROVE  Safe(requests'[i]) /\ requests'[i].http
    <2>1. CASE i = Len(requests) + 1
      BY <2>1, <1>1, <1>2
    <2>2. CASE i # Len(requests) + 1
      <3>1. Len(requests) \in Nat
        BY <1>1, LenProperties
      <3>2. i \in 1..Len(requests)
        BY <2>2, <3>1, <1>1, <1>2
      <3> QED
        BY <3>2, <1>2 DEF WebInv
    <2> QED
      BY <2>1, <2>2
  <1> QED
    BY <1>1, <1>2, <1>3

\* Every step keeps the chain on its site.
LEMMA WebKept == WebInv /\ [Next]_fetchVars => WebInv'
  <1> SUFFICES ASSUME WebInv, [Next]_fetchVars PROVE WebInv'
    OBVIOUS
  <1> USE FetchAssumption
  <1>1. CASE StartWeb
    BY <1>1, EmptySeq DEF StartWeb, WebInv, Fails, Safe, Start, uploadVars, fileVars
  <1>2. CASE SchemeUnsupported
    BY <1>2 DEF SchemeUnsupported, WebInv, Fails, Safe, webVars
  <1>3. CASE NetworkFails
    <2>1. CASE Requests /\ \E reason \in NetworkReasons : Fails(reason)
      BY <1>3, <2>1, RequestSent DEF NetworkFails, WebInv, Fails, Safe
    <2>2. CASE UNCHANGED requests /\ step' = "idle"
      BY <1>3, <2>2 DEF NetworkFails, WebInv, Safe
    <2> QED
      BY <1>3, <2>1, <2>2 DEF NetworkFails, Fails
  <1>4. CASE Redirect
    <2>1. /\ requests' \in Seq(Url) /\ Len(requests') = hop + 1 /\ hop <= MaxRedirects /\ hop \in Nat
          /\ \A i \in 1..Len(requests') : Safe(requests'[i]) /\ requests'[i].http
          /\ UNCHANGED start /\ start \in Start
      BY <1>4, RequestSent DEF Redirect, WebInv
    <2>2. PICK next \in Url :
            IF ~Follows(next)
            THEN /\ Fails(IF next.http /\ next.address = "public" THEN "cross_domain_redirect"
                          ELSE "blocked_address")
                 /\ UNCHANGED <<current, hop>>
            ELSE /\ current' = next
                 /\ IF LastHop THEN Fails("http_client_error") /\ UNCHANGED hop
                    ELSE hop' = hop + 1 /\ UNCHANGED <<step, outcome>>
      BY <1>4 DEF Redirect
    <2>3. CASE ~Follows(next)
      BY <2>1, <2>2, <2>3 DEF WebInv, Fails, Safe
    <2>4. CASE Follows(next) /\ LastHop
      BY <2>1, <2>2, <2>4 DEF WebInv, Fails, Safe
    <2>5. CASE Follows(next) /\ ~LastHop
      <3>1. hop' = hop + 1 /\ hop' <= MaxRedirects /\ current' = next
        BY <2>1, <2>2, <2>5 DEF LastHop
      <3>2. Safe(next)
        BY <2>5 DEF Follows, Safe
      <3> QED
        BY <2>1, <3>1, <3>2 DEF WebInv, Safe
    <2> QED
      BY <2>3, <2>4, <2>5
  <1>5. CASE HttpError
    BY <1>5, RequestSent DEF HttpError, WebInv, Fails, Safe
  <1>6. CASE Respond
    BY <1>6, RequestSent DEF Respond, WebInv, Safe
  <1>7. CASE WebRests
    BY <1>7 DEF WebRests, WebInv, Safe
  <1>8. ReadBody \/ SniffBody \/ Extract => WebRests
    BY DEF WebRests, ReadBody, SniffBody, Extract, Fails, webVars
  <1>9. ASSUME NEW k \in Keys, CreateUploadUrl(k) \/ UrlExpires(k) \/ \E c \in Contents : Put(k, c)
        PROVE  WebRests
    BY <1>9 DEF WebRests, CreateUploadUrl, UrlExpires, Put, webVars
  <1>10. CreateSource \/ TestFiles \/ StartFiles \/ FetchFile \/ FilesDone \/ UNCHANGED fetchVars => WebRests
    BY DEF WebRests, CreateSource, TestFiles, StartFiles, FetchFile, FilesDone, Fails, webVars, fetchVars
  <1> QED
    BY <1>1, <1>2, <1>3, <1>4, <1>5, <1>6, <1>7, <1>8, <1>9, <1>10 DEF Next

\* A fetch of a page stays on the host and the addresses that were looked at,
\* whatever _stream_with_redirects is answered, and for every _MAX_REDIRECTS.
THEOREM SiteKept == Spec => []StaysOnSite
  <1>1. WebInv => StaysOnSite
    <2> SUFFICES ASSUME WebInv PROVE StaysOnSite
      OBVIOUS
    <2>1. DOMAIN requests = 1..Len(requests)
      BY LenProperties DEF WebInv
    <2> QED
      BY <2>1 DEF WebInv, StaysOnSite, Safe
  <1> QED
    BY WebStarts, WebKept, <1>1, PTL DEF Spec

-----------------------------------------------------------------------------
(* The files. *)

\* The initial states: a file source does not exist yet.
LEMMA FilesStart == Init => FileInv
  BY FetchAssumption, EmptySeq DEF Init, FileInv, Missing

\* What is put has a type; what is missing has none.
LEMMA ContentsExist == Missing \notin Contents
  BY FetchAssumption DEF FetchAssumption, Missing, ContentType

\* The entry FetchFile looks at.
LEMMA FilesIndexed ==
    ASSUME FileInv, source = "files"
    PROVE  /\ Len(files) \in Nat \ {0} /\ DOMAIN files = 1..Len(files)
           /\ files \in Seq(Keys \X Types)
  <1>1. PICK n \in Nat \ {0} : files \in [1..n -> Keys \X Types]
    BY DEF FileInv
  <1> QED
    BY <1>1, SeqDef, LenProperties

\* The end of fetch_documents leaves what was read alone.
LEMMA FetchEnds ==
    ASSUME FileInv, source = "files", step' = "idle",
           UNCHANGED <<source, files, read, object, tested>>,
           outcome' = "documents" => Len(read) = Len(files)
    PROVE  FileInv'
  <1>1. \A i : Checked(i)' <=> Checked(i)
    BY DEF Checked
  <1>2. \E n \in Nat \ {0} : files \in [1..n -> Keys \X Types]
    BY DEF FileInv
  <1>3. /\ Len(read) <= Len(files) /\ \A i \in 1..Len(read) : Checked(i)
        /\ tested => \A i \in DOMAIN files : object[files[i][1]] # Missing
    BY DEF FileInv
  <1>4. /\ Len(read') <= Len(files') /\ \A i \in 1..Len(read') : Checked(i)'
        /\ tested' => \A i \in DOMAIN files' : object'[files'[i][1]] # Missing
    BY <1>1, <1>3
  <1> QED
    BY <1>2, <1>4 DEF FileInv

\* So does a step of the browser, which takes no object away.
LEMMA ReadRests ==
    ASSUME FileInv, UNCHANGED <<source, step, files, read, tested, outcome>>,
           object' \in [Keys -> Contents \cup {Missing}],
           \A k \in Keys : object[k] # Missing => object'[k] # Missing
    PROVE  FileInv'
  <1>1. \A i : Checked(i)' <=> Checked(i)
    BY DEF Checked
  <1>2. source = "files" =>
          /\ step \in {"idle", "files"}
          /\ \E n \in Nat \ {0} : files \in [1..n -> Keys \X Types]
    BY DEF FileInv
  <1>3. source = "files" =>
          /\ Len(read) <= Len(files) /\ \A i \in 1..Len(read) : Checked(i)
          /\ tested => \A i \in DOMAIN files : object[files[i][1]] # Missing
    BY DEF FileInv
  <1>4. ASSUME source = "files", NEW i \in DOMAIN files PROVE files[i][1] \in Keys
    BY <1>2, <1>4
  <1>5. source' = "files" =>
          /\ Len(read') <= Len(files') /\ \A i \in 1..Len(read') : Checked(i)'
          /\ tested' => \A i \in DOMAIN files' : object'[files'[i][1]] # Missing
    BY <1>1, <1>3, <1>4
  <1> QED
    BY <1>2, <1>5 DEF FileInv

\* Every step keeps read a checked prefix of files.
LEMMA FileKept == FileInv /\ [Next]_fetchVars => FileInv'
  <1> SUFFICES ASSUME FileInv, [Next]_fetchVars PROVE FileInv'
    OBVIOUS
  <1>1. CASE FilesRest
    BY <1>1 DEF FilesRest, FileInv
  <1>2. ASSUME \/ StartWeb \/ SchemeUnsupported \/ NetworkFails \/ Redirect \/ HttpError
               \/ Respond \/ ReadBody \/ SniffBody \/ Extract
        PROVE  FilesRest
    BY <1>2 DEF FilesRest, StartWeb, SchemeUnsupported, NetworkFails, Redirect, HttpError, Respond, ReadBody,
           SniffBody, Extract, Requests, Fails, FileInv, fileVars, uploadVars
  <1>3. ASSUME NEW k \in Keys, CreateUploadUrl(k) \/ UrlExpires(k) PROVE FileInv'
    <2>1. /\ UNCHANGED <<source, step, files, read, tested, outcome, object>>
          /\ object \in [Keys -> Contents \cup {Missing}]
      BY <1>3 DEF CreateUploadUrl, UrlExpires, FileInv, fileVars
    <2> QED
      BY <2>1, ReadRests
  <1>4. ASSUME NEW k \in Keys, NEW c \in Contents, Put(k, c) PROVE FileInv'
    <2>1. /\ UNCHANGED <<source, step, files, read, tested, outcome>>
          /\ object' = [object EXCEPT ![k] = c] /\ c # Missing
          /\ object \in [Keys -> Contents \cup {Missing}]
      BY <1>4, ContentsExist DEF Put, FileInv, fileVars
    <2> QED
      BY <2>1, ReadRests
  <1>5. CASE CreateSource
    BY <1>5 DEF CreateSource, FileInv, uploadVars
  <1>6. CASE TestFiles
    <2>1. /\ UNCHANGED <<source, step, files, read, outcome, object>> /\ source = "files"
          /\ tested' => \A i \in DOMAIN files : object[files[i][1]] # Missing
      BY <1>6 DEF TestFiles, AllThere, fileVars, uploadVars
    <2>2. /\ \E n \in Nat \ {0} : files \in [1..n -> Keys \X Types]
          /\ Len(read) <= Len(files) /\ \A i \in 1..Len(read) : Checked(i)
      BY <2>1 DEF FileInv
    <2>3. \A i : Checked(i)' <=> Checked(i)
      BY <2>1 DEF Checked
    <2>4. /\ Len(read') <= Len(files') /\ \A i \in 1..Len(read') : Checked(i)'
          /\ tested' => \A i \in DOMAIN files' : object'[files'[i][1]] # Missing
      BY <2>1, <2>2, <2>3
    <2> QED
      BY <2>1, <2>2, <2>4 DEF FileInv
  <1>7. CASE StartFiles
    <2>1. source = "files" /\ Len(files) \in Nat /\ read' = <<>>
      BY <1>7, FilesIndexed DEF StartFiles
    <2>2. read' \in Seq([key : Keys, got : Contents \cup {Missing}]) /\ Len(read') = 0
      BY <2>1, EmptySeq
    <2>3. UNCHANGED <<source, files, object, tested>> /\ outcome' = "none" /\ step' = "files"
      BY <1>7 DEF StartFiles, uploadVars
    <2>4. /\ \E n \in Nat \ {0} : files \in [1..n -> Keys \X Types]
          /\ tested' => \A i \in DOMAIN files' : object'[files'[i][1]] # Missing
      BY <2>1, <2>3 DEF FileInv
    <2>5. Len(read') <= Len(files') /\ \A i \in 1..Len(read') : Checked(i)'
      BY <2>1, <2>2, <2>3
    <2> QED
      BY <2>1, <2>2, <2>3, <2>4, <2>5 DEF FileInv
  <1>8. CASE FetchFile
    <2> DEFINE c == object[NextFile[1]]
    <2>1. /\ source = "files" /\ step = "files" /\ Len(read) < Len(files) /\ Len(files) \in Nat
          /\ read \in Seq([key : Keys, got : Contents \cup {Missing}]) /\ Len(read) \in Nat
          /\ DOMAIN files = 1..Len(files)
          /\ UNCHANGED <<source, files, object, tested>>
      BY <1>8, FilesIndexed, LenProperties DEF FetchFile, FileInv, uploadVars
    <2>2. CASE Fails(IF c = Missing THEN "missing" ELSE "error") /\ UNCHANGED read
      <3>1. outcome' # "documents" /\ step' = "idle"
        BY <2>2 DEF Fails
      <3> QED
        BY <2>1, <2>2, <3>1, FetchEnds
    <2>3. CASE /\ Accepted(c, NextFile[2])
               /\ read' = Append(read, [key |-> NextFile[1], got |-> c])
               /\ UNCHANGED <<step, outcome>>
      <3>1. NextFile \in Keys \X Types /\ c \in Contents \cup {Missing}
        <4>1. Len(read) + 1 \in 1..Len(files) /\ files \in Seq(Keys \X Types)
          BY <2>1, FilesIndexed
        <4>2. NextFile \in Keys \X Types
          BY <4>1, ElementOfSeq DEF NextFile
        <4>3. NextFile[1] \in Keys
          BY <4>2
        <4> QED
          BY <4>2, <4>3 DEF FileInv
      <3>2. [key |-> NextFile[1], got |-> c] \in [key : Keys, got : Contents \cup {Missing}]
        BY <3>1
      <3>3. /\ read' \in Seq([key : Keys, got : Contents \cup {Missing}])
            /\ Len(read') = Len(read) + 1
            /\ \A i \in 1..Len(read) : read'[i] = read[i]
            /\ read'[Len(read) + 1] = [key |-> NextFile[1], got |-> c]
        BY <2>1, <2>3, <3>2, AppendProperties
      <3>4. ASSUME NEW i \in 1..Len(read') PROVE Checked(i)'
        <4>1. CASE i = Len(read) + 1
          BY <2>1, <2>3, <3>3, <4>1 DEF Checked, NextFile, Accepted
        <4>2. CASE i # Len(read) + 1
          <5>1. i \in 1..Len(read)
            BY <2>1, <3>3, <4>2
          <5> QED
            BY <2>1, <3>3, <5>1 DEF FileInv, Checked
        <4> QED
          BY <4>1, <4>2
      <3>5. outcome # "documents"
        BY <2>1 DEF FileInv
      <3>6. \E n \in Nat \ {0} : files \in [1..n -> Keys \X Types]
        BY <2>1 DEF FileInv
      <3>7. tested' => \A i \in DOMAIN files' : object'[files'[i][1]] # Missing
        BY <2>1 DEF FileInv
      <3>8. Len(read') <= Len(files')
        BY <2>1, <3>3
      <3>9. outcome' = "none" /\ step' = "files"
        BY <2>1, <2>3 DEF FileInv
      <3> HIDE DEF c
      <3> QED
        BY <2>1, <3>3, <3>4, <3>6, <3>7, <3>8, <3>9 DEF FileInv
    <2> QED
      BY <1>8, <2>2, <2>3 DEF FetchFile
  <1>9. CASE FilesDone
    <2>1. source = "files"
      BY <1>9 DEF FilesDone, FileInv
    <2> QED
      BY <1>9, <2>1, FetchEnds DEF FilesDone, Fails, fileVars, uploadVars
  <1>10. CASE UNCHANGED fetchVars
    <2>1. /\ UNCHANGED <<source, step, files, read, tested, outcome, object>>
          /\ object \in [Keys -> Contents \cup {Missing}]
      BY <1>10 DEF fetchVars, fileVars, uploadVars, FileInv
    <2> QED
      BY <2>1, ReadRests
  <1>11. CASE \E k \in Keys : CreateUploadUrl(k) \/ UrlExpires(k) \/ \E c \in Contents : Put(k, c)
    BY <1>3, <1>4, <1>11
  <1>12. CASE \/ StartWeb \/ SchemeUnsupported \/ NetworkFails \/ Redirect \/ HttpError
              \/ Respond \/ ReadBody \/ SniffBody \/ Extract
    BY <1>1, <1>2, <1>12
  <1> QED
    BY <1>5, <1>6, <1>7, <1>8, <1>9, <1>10, <1>11, <1>12 DEF Next

\* A fetch of files returns all of them, checked, or none, whatever is put into
\* the store between the steps of the loop of FileUploadConnector.
THEOREM WholeFiles == Spec => []FilesWhole
  <1>1. FileInv => FilesWhole
    <2> SUFFICES ASSUME FileInv PROVE FilesWhole
      OBVIOUS
    <2>1. DOMAIN read = 1..Len(read)
      BY LenProperties DEF FileInv
    <2>2. source = "files" => Len(files) > 0
      BY FilesIndexed
    <2> QED
      BY <2>1, <2>2 DEF FileInv, FilesWhole, Checked
  <1> QED
    BY FilesStart, FileKept, <1>1, PTL DEF Spec
=============================================================================
