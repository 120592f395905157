------------------------- MODULE ProcessViewProofs -------------------------
(***************************************************************************)
(* The invariants of ProcessView, for any number of calls, sockets,        *)
(* networks, log messages and failures, and whether people wait or not     *)
(* (Patient): what depends on it is stated of the states before anything   *)
(* rash happened.                                                          *)
(*                                                                         *)
(* One lemma per action shows that it preserves IInv; the steps of each    *)
(* are the conjuncts of IInv in their order.                               *)
(***************************************************************************)
EXTENDS ProcessView, TLAPS

-----------------------------------------------------------------------------
(* Whose page it is *)

\* An answer that only this page waits for finds it mounted.
LEMMA OfPage ==
    ASSUME IInv, NEW k \in Calls,
           calls[k].kind \in {"fetch", "test", "predict", "features", "labels"}
    PROVE  page \in Page /\ Live(k)
  BY DEF IInv, TypeOK, Call, Live, MountedInv

\* A compilation may belong to a page that was left.
LEMMA OfCompile ==
    ASSUME IInv, NEW k \in Calls, calls[k].kind = "compile"
    PROVE  /\ calls[k].live \in BOOLEAN /\ calls[k].shape \in Shapes
           /\ calls[k].live => page \in Page /\ Live(k)
  BY DEF IInv, TypeOK, Call, Live, MountedInv

\* So does an event of a socket.
LEMMA OfSocket ==
    ASSUME IInv, NEW s \in Sockets, sockets[s].state # "unused" \/ sockets[s].flushing
    PROVE  page \in Page
  BY DEF IInv, TypeOK, MountedInv, Unused

\* The slot of a call that is over holds none.
LEMMA NoCallKind == NoCall \in Call /\ NoCall.kind = "none"
  BY DEF NoCall, Call

\* What a call that is over leaves to the others.
LEMMA Settled ==
    ASSUME calls \in [Calls -> Call], NEW k \in Calls, Done(k)
    PROVE  /\ calls' \in [Calls -> Call] /\ calls'[k] = NoCall
           /\ calls'[k].kind = "none"
           /\ \A j \in Calls : j # k => calls'[j] = calls[j]
  BY NoCallKind DEF Done

\* The page of a call that outlives it is gone.
LEMMA DeadCall ==
    ASSUME NEW q \in Call, q.kind \in {"compile", "save", "status"}
    PROVE  [q EXCEPT !.live = FALSE] \in Call
  <1>1. CASE q.kind = "compile"
    <2>. DEFINE S == [kind : {"compile"}, live : BOOLEAN, shape : Shapes]
    <2>1. q \in S  BY <1>1 DEF Call
    <2>2. [q EXCEPT !.live = FALSE] \in S  BY <2>1
    <2>. QED  BY <2>2 DEF Call
  <1>2. CASE q.kind = "save"
    <2>. DEFINE S == [kind : {"save"}, live : BOOLEAN, shape : Shapes,
                      parameters : Params, isCompiled : BOOLEAN, isTrained : BOOLEAN]
    <2>1. q \in S  BY <1>2 DEF Call
    <2>2. [q EXCEPT !.live = FALSE] \in S  BY <2>1
    <2>. QED  BY <2>2 DEF Call
  <1>3. CASE q.kind = "status"
    <2>. DEFINE S == [kind : {"status"}, live : BOOLEAN, status : Status]
    <2>1. q \in S  BY <1>3 DEF Call
    <2>2. [q EXCEPT !.live = FALSE] \in S  BY <2>1
    <2>. QED  BY <2>2 DEF Call
  <1>. QED  BY <1>1, <1>2, <1>3

\* Nothing but leaving ends what belongs to the page.
LEMMA StaysMounted ==
    ASSUME MountedInv, page' \in Page, UNCHANGED sockets
    PROVE  MountedInv'
  BY NoneAssumption DEF MountedInv

\* Parsing changes the data set, and the input size with the features.
SameButData(q, p) ==
    /\ q.socket = p.socket /\ q.isTraining = p.isTraining
    /\ q.epochLogs = p.epochLogs /\ q.loading = p.loading
    /\ q.modelInProcess = p.modelInProcess
    /\ q.parameters = p.parameters
    /\ q.isCompiled = p.isCompiled /\ q.isTrained = p.isTrained

LEMMA FeaturesOf ==
    ASSUME NEW p \in Page, NEW shape \in Shapes, NEW other \in BOOLEAN,
           NEW q, q = [p EXCEPT !.features = TRUE, !.labels = other, !.shape = shape]
    PROVE  q \in Page /\ SameButData(q, p)
  BY DEF Page, SameButData

LEMMA LabelsOf ==
    ASSUME NEW p \in Page, NEW other \in BOOLEAN,
           NEW q, q = [p EXCEPT !.labels = TRUE, !.features = other]
    PROVE  q \in Page /\ SameButData(q, p) /\ q.shape = p.shape
  BY DEF Page, SameButData

\* The two events that change the state of a socket.
LEMMA SocketWith ==
    ASSUME NEW q \in Socket
    PROVE  /\ [q EXCEPT !.state = "open", !.flushing = TRUE] \in Socket
           /\ [q EXCEPT !.state = "closed", !.flushing = FALSE] \in Socket
  BY DEF Socket

\* Uploads and questions belong to the mounted page.
LEMMA UploadsLive ==
    ASSUME IInv, NEW k \in Pending({"features", "labels", "test", "predict"})
    PROVE  Live(k)
  BY DEF IInv, TypeOK, Call, Live, Pending

\* flushLogs changes the chart and nothing else.
LEMMA FlushedIs ==
    ASSUME NEW p \in Page, NEW s \in Sockets, NEW n \in 0 .. MaxLogs
    PROVE  LET chart == IF n = 0 THEN NoChart ELSE [of |-> s, length |-> n]
           IN  /\ chart \in Chart
               /\ Flushed(p, s, n) = [p EXCEPT !.epochLogs = chart]
               /\ Flushed(p, s, n) \in Page
  BY ViewAssumption DEF Page, Flushed, Chart, NoChart

-----------------------------------------------------------------------------
(* Mounting and leaving *)

LEMMA MountInv ==
    ASSUME IInv, NEW k \in Calls, Mount(k)
    PROVE  IInv'
  <1>. USE ViewAssumption, NoneAssumption DEF IInv, TypeOK, Page, Mount, Start,
     NewPage, NoChart
  <1>1. \A j \in Calls : Live(j)' <=> j = k  BY DEF MountedInv, Live
  <1>2. \A s \in Sockets : sockets'[s].state = "unused"  BY DEF MountedInv, Unused
  <1>3. page' \in Page
    <2>1. NoChart \in Chart  BY DEF NoChart, Chart
    <2>. QED  BY <2>1 DEF Params
  <1>4. TypeOK'  BY <1>3 DEF NoCall, Call
  <1>5. MountedInv'  BY <1>3 DEF MountedInv
  <1>6. SocketTracked'  BY DEF SocketTracked, Running, MountedInv, Unused
  <1>7. ChartIsLatest'  BY <1>3 DEF ChartIsLatest
  <1>8. OneOperation'  BY <1>1, <1>2 DEF OneOperation, Operations, Running, Live
  <1>9. ASSUME page' # None, ~ rash'  PROVE LoadingInv'
    <2>1. page'.loading  OBVIOUS
    <2>2. \A s \in Sockets : ~ Running(s)'  BY <1>2 DEF Running
    <2>3. \A j \in Calls : calls'[j].kind = "fetch" => calls'[j].live
      BY <1>4 DEF Call
    <2>4. \A j \in Calls : calls'[j].kind = "fetch" => j = k
      BY <2>3, <1>1 DEF Live
    <2>5. calls'[k].kind = "fetch"  OBVIOUS
    <2>. HIDE DEF IInv, TypeOK, Page, Mount, Start, NewPage
    <2>. QED  BY <2>1, <2>2, <2>4, <2>5, <1>1 DEF LoadingInv, Pending
  <1>10. ASSUME page' # None, ~ rash'  PROVE PageFits'
    BY <1>10, <1>1, <1>2 DEF PageFits, Fits, Pending, Live, Running
  <1>11. ASSUME page' # None, ~ rash'  PROVE UploadsInv'
    <2>1. \A j \in Calls : calls'[j].kind \notin {"features", "labels"}
      BY <1>1, <1>4 DEF Live, Call
    <2>. QED  BY <2>1 DEF UploadsInv, Pending
  <1>12. ASSUME ~ rash'  PROVE StoreFits'  BY <1>12 DEF StoreFits, Fits, Pending
  <1>13. ASSUME ~ rash'  PROVE SavesInv'  BY <1>13 DEF SavesInv, Pending
  <1>. QED  BY <1>3, <1>4, <1>5, <1>6, <1>7, <1>8, <1>9, <1>10, <1>11, <1>12,
     <1>13

LEMMA LeaveInv ==
    ASSUME IInv, Leave
    PROVE  IInv'
  <1>. USE ViewAssumption, NoneAssumption DEF IInv, TypeOK, Page, Leave, Outlives
  <1>1. page' \in Page \cup {None}  OBVIOUS
  <1>2. TypeOK'
    <2>1. \A k \in Calls : Outlives(k) => [calls[k] EXCEPT !.live = FALSE] \in Call
      BY DeadCall
    <2>2. calls' \in [Calls -> Call]  BY <2>1, NoCallKind
    <2>3. Unused \in Socket  BY DEF Unused, Socket
    <2>. QED  BY <2>2, <2>3
  <1>3. MountedInv'  BY <1>1 DEF MountedInv, Live, NoCall, Unused
  <1>4. SocketTracked'  BY DEF SocketTracked, Running
  <1>5. ChartIsLatest'  BY <1>1 DEF ChartIsLatest
  <1>6. OneOperation'  BY <1>1 DEF OneOperation, Operations, Live, Running
  <1>7. ASSUME page' # None, ~ rash'  PROVE LoadingInv'
    BY <1>7 DEF LoadingInv, Pending, Live, Running
  <1>8. ASSUME page' # None, ~ rash'  PROVE PageFits'
    BY <1>8 DEF PageFits, Fits, Pending, Live, Running
  <1>9. ASSUME page' # None, ~ rash'  PROVE UploadsInv'
    BY <1>9 DEF UploadsInv, Pending, Live
  <1>10. ASSUME ~ rash'  PROVE StoreFits'  BY <1>10 DEF StoreFits, Fits, Pending, NoCall
  <1>11. ASSUME ~ rash'  PROVE SavesInv'
    <2>1. \A k \in Calls : /\ calls'[k].kind \in {"save", "status"}
                                 <=> calls[k].kind \in {"save", "status"}
                           /\ calls'[k].kind = "status" <=> calls[k].kind = "status"
                           /\ calls[k].kind = "status" =>
                                 calls'[k].status = calls[k].status
      BY NoCallKind DEF Call
    <2>2. stored' = stored /\ status' = status /\ SavesInv  BY <1>11
    <2>. HIDE DEF Leave, Outlives, IInv, TypeOK, Page
    <2>. QED  BY <2>1, <2>2 DEF SavesInv, Pending
  <1>. QED  BY <1>1, <1>2, <1>3, <1>4, <1>5, <1>6, <1>7, <1>8, <1>9, <1>10, <1>11

LEMMA ReadInv ==
    ASSUME IInv, NEW k \in Calls, Read(k)
    PROVE  IInv'
  <1>1. page \in Page /\ Live(k)  BY OfPage DEF Read
  <1>. USE <1>1, ViewAssumption, NoneAssumption DEF IInv, TypeOK, Page, Read
  <1>2. page' \in Page  OBVIOUS
  <1>3. TypeOK'
    <2>1. calls[k] \in [kind : {"fetch"}, live : {TRUE}, doc : Document \cup {None}]
      BY DEF Call
    <2>2. [calls[k] EXCEPT !.doc = stored] \in Call  BY <2>1 DEF Call
    <2>3. calls' \in [Calls -> Call]  BY <2>2
    <2>. QED  BY <2>3
  <1>4. MountedInv'  BY <1>2, StaysMounted
  <1>5. SocketTracked'  BY DEF SocketTracked, Running
  <1>6. ChartIsLatest'  BY <1>2 DEF ChartIsLatest
  <1>7. OneOperation'  BY <1>2 DEF OneOperation, Operations, Live, Running
  <1>8. ASSUME page' # None, ~ rash'  PROVE LoadingInv'
    BY <1>8 DEF LoadingInv, Pending, Live, Running
  <1>9. ASSUME page' # None, ~ rash'  PROVE PageFits'
    BY <1>9 DEF PageFits, Fits, Pending, Live, Running
  <1>10. ASSUME page' # None, ~ rash'  PROVE UploadsInv'
    BY <1>10 DEF UploadsInv, Pending, Live
  <1>11. ASSUME ~ rash'  PROVE StoreFits'  BY <1>11 DEF StoreFits, Fits, Pending
  <1>12. ASSUME ~ rash'  PROVE SavesInv'  BY <1>12 DEF SavesInv, Pending
  <1>. QED  BY <1>2, <1>3, <1>4, <1>5, <1>6, <1>7, <1>8, <1>9, <1>10, <1>11, <1>12

LEMMA FetchedInv ==
    ASSUME IInv, NEW k \in Calls, Fetched(k)
    PROVE  IInv'
  <1>1. page \in Page /\ Live(k)  BY OfPage DEF Fetched
  <1>. USE <1>1, ViewAssumption, NoneAssumption DEF IInv, TypeOK, Page, Fetched,
     WithCompiled, Done
  <1>2. /\ LoadingInv => \A j \in Calls : Live(j) => j = k
        /\ \A j \in Calls : j # k => calls'[j] = calls[j]
        /\ calls'[k].kind = "none"
    BY NoCallKind DEF LoadingInv, Live, Pending
  <1>3. LoadingInv => \A j \in Calls : calls'[j].kind = "none" \/ ~ calls'[j].live
    <2>. HIDE DEF IInv, Fetched
    <2>. QED  BY <1>2 DEF Live
  <1>4. page' \in Page
    <2>1. calls[k].doc \in Document  BY DEF Call
    <2>2. calls[k].doc.isCompiled \in BOOLEAN /\ calls[k].doc.shape \in Shapes
             /\ calls[k].doc.parameters \in Params
      BY <2>1 DEF Document
    <2>3. page' = [page EXCEPT !.isCompiled = calls[k].doc.isCompiled,
                     !.isTrained = @ /\ (calls[k].doc.isCompiled \/ ~ page.isCompiled),
                     !.loading = FALSE, !.shape = calls[k].doc.shape,
                     !.parameters = calls[k].doc.parameters]
      OBVIOUS
    <2>. HIDE DEF IInv, TypeOK, Fetched, WithCompiled, Done
    <2>. QED  BY <2>2, <2>3
  <1>5. TypeOK'  BY <1>4 DEF NoCall, Call
  <1>6. MountedInv'  BY <1>4, StaysMounted
  <1>7. SocketTracked'  BY DEF SocketTracked, Running
  <1>8. ChartIsLatest'  BY <1>4 DEF ChartIsLatest
  <1>9. OneOperation'  BY <1>4 DEF OneOperation, Operations, Live, Running, NoCall
  <1>10. ASSUME page' # None, ~ rash'  PROVE LoadingInv'
    BY <1>10 DEF LoadingInv, Pending, Live, Running, NoCall
  <1>11. ASSUME page' # None, ~ rash'  PROVE PageFits'
    <2>1. LoadingInv /\ StoreFits /\ PageFits  BY <1>11
    <2>2. \A s \in Sockets : ~ Running(s)  BY <2>1, <1>11 DEF LoadingInv, Pending
    <2>3. \A j \in Calls : ~ Live(j)'  BY <1>3, <2>1 DEF Live
    <2>4. Fits(page)' /\ page'.parameters # Undefined
      BY <2>1 DEF StoreFits, Fits, Pending, Call, Document
    <2>5. page'.isTrained => page'.isCompiled  BY <2>1 DEF PageFits
    <2>. QED  BY <2>2, <2>3, <2>4, <2>5 DEF PageFits, Pending, Running
  <1>12. ASSUME page' # None, ~ rash'  PROVE UploadsInv'
    <2>1. LoadingInv  BY <1>12
    <2>2. \A j \in Calls : calls'[j].kind \notin {"features", "labels"}
      BY <2>1, <1>3, <1>5 DEF Call
    <2>. QED  BY <2>2 DEF UploadsInv, Pending
  <1>13. ASSUME ~ rash'  PROVE StoreFits'  BY <1>13 DEF StoreFits, Fits, Pending, NoCall
  <1>14. ASSUME ~ rash'  PROVE SavesInv'  BY <1>14 DEF SavesInv, Pending, NoCall
  <1>. QED  BY <1>4, <1>5, <1>6, <1>7, <1>8, <1>9, <1>10, <1>11, <1>12, <1>13,
     <1>14

LEMMA FetchFailsInv ==
    ASSUME IInv, NEW k \in Calls, FetchFails(k)
    PROVE  IInv'
  <1>1. page \in Page /\ Live(k)  BY OfPage DEF FetchFails
  <1>. USE <1>1, ViewAssumption, NoneAssumption DEF IInv, TypeOK, Page,
     FetchFails, Done
  <1>2. page' \in Page  OBVIOUS
  <1>3. TypeOK'
    <2>1. failures' \in 0 .. MaxFailures  OBVIOUS
    <2>2. calls' \in [Calls -> Call]  BY NoCallKind
    <2>. QED  BY <1>2, <2>1, <2>2
  <1>4. MountedInv'  BY <1>2, StaysMounted
  <1>5. SocketTracked'  BY DEF SocketTracked, Running
  <1>6. ChartIsLatest'  BY <1>2 DEF ChartIsLatest
  <1>7. OneOperation'  BY <1>2 DEF OneOperation, Operations, Live, Running
  <1>8. ASSUME page' # None, ~ rash'  PROVE LoadingInv'
    BY <1>8 DEF LoadingInv, Pending, Live, Running
  <1>9. ASSUME page' # None, ~ rash'  PROVE PageFits'
    BY <1>9 DEF PageFits, Fits, Pending, Live, Running
  <1>10. ASSUME page' # None, ~ rash'  PROVE UploadsInv'
    BY <1>10 DEF UploadsInv, Pending, Live
  <1>11. ASSUME ~ rash'  PROVE StoreFits'  BY <1>11 DEF StoreFits, Fits, Pending
  <1>12. ASSUME ~ rash'  PROVE SavesInv'  BY <1>12 DEF SavesInv, Pending
  <1>. QED  BY <1>2, <1>3, <1>4, <1>5, <1>6, <1>7, <1>8, <1>9, <1>10, <1>11, <1>12

-----------------------------------------------------------------------------
(* Editing *)

LEMMA EditLayerInv ==
    ASSUME IInv, NEW shape \in Shapes, EditLayer(shape)
    PROVE  IInv'
  <1>. USE ViewAssumption, NoneAssumption DEF IInv, TypeOK, Page, EditLayer,
     WithCompiled, Shown, Busy
  <1>1. page' \in Page  OBVIOUS
  <1>2. TypeOK'  BY <1>1
  <1>3. MountedInv'  BY <1>1, StaysMounted
  <1>4. SocketTracked'  BY DEF SocketTracked, Running
  <1>5. ChartIsLatest'  BY <1>1 DEF ChartIsLatest
  <1>6. OneOperation'  BY <1>1 DEF OneOperation, Operations, Live, Running
  <1>7. ASSUME page' # None, ~ rash'  PROVE LoadingInv'
    BY <1>7 DEF LoadingInv, Pending, Live, Running
  <1>8. ASSUME page' # None, ~ rash'  PROVE PageFits'
    BY <1>8 DEF PageFits, Fits, Pending, Live, Running
  <1>9. ASSUME page' # None, ~ rash'  PROVE UploadsInv'
    BY <1>9 DEF UploadsInv, Pending, Live
  <1>10. ASSUME ~ rash'  PROVE StoreFits'  BY <1>10 DEF StoreFits, Fits, Pending
  <1>11. ASSUME ~ rash'  PROVE SavesInv'  BY <1>11 DEF SavesInv, Pending
  <1>. QED  BY <1>1, <1>2, <1>3, <1>4, <1>5, <1>6, <1>7, <1>8, <1>9, <1>10, <1>11

LEMMA AddLayerInv ==
    ASSUME IInv, NEW shape \in Shapes, AddLayer(shape)
    PROVE  IInv'
  <1>. USE ViewAssumption, NoneAssumption DEF IInv, TypeOK, Page, AddLayer, Busy
  <1>1. page' \in Page  OBVIOUS
  <1>2. TypeOK'  BY <1>1
  <1>3. MountedInv'  BY <1>1, StaysMounted
  <1>4. SocketTracked'  BY DEF SocketTracked, Running
  <1>5. ChartIsLatest'  BY <1>1 DEF ChartIsLatest
  <1>6. OneOperation'  BY <1>1 DEF OneOperation, Operations, Live, Running
  <1>7. ASSUME page' # None, ~ rash'  PROVE LoadingInv'
    BY <1>7 DEF LoadingInv, Pending, Live, Running
  <1>8. ASSUME page' # None, ~ rash'  PROVE PageFits'
    BY <1>8 DEF PageFits, Fits, Pending, Live, Running
  <1>9. ASSUME page' # None, ~ rash'  PROVE UploadsInv'
    BY <1>9 DEF UploadsInv, Pending, Live
  <1>10. ASSUME ~ rash'  PROVE StoreFits'  BY <1>10 DEF StoreFits, Fits, Pending
  <1>11. ASSUME ~ rash'  PROVE SavesInv'  BY <1>11 DEF SavesInv, Pending
  <1>. QED  BY <1>1, <1>2, <1>3, <1>4, <1>5, <1>6, <1>7, <1>8, <1>9, <1>10, <1>11

LEMMA UploadFeaturesInv ==
    ASSUME IInv, NEW k \in Calls, UploadFeatures(k)
    PROVE  IInv'
  <1>. USE ViewAssumption, NoneAssumption DEF IInv, TypeOK, Page, UploadFeatures,
     Start, Shown, WithCompiled, Busy
  <1>1. page' \in Page  OBVIOUS
  <1>2. TypeOK'  BY <1>1 DEF NoCall, Call
  <1>3. MountedInv'  BY <1>1, StaysMounted
  <1>4. SocketTracked'  BY DEF SocketTracked, Running
  <1>5. ChartIsLatest'  BY <1>1 DEF ChartIsLatest
  <1>6. OneOperation'  BY <1>1 DEF OneOperation, Operations, Live, Running
  <1>7. ASSUME page' # None, ~ rash'  PROVE LoadingInv'
    BY <1>7 DEF LoadingInv, Pending, Live, Running
  <1>8. ASSUME page' # None, ~ rash'  PROVE PageFits'
    BY <1>8 DEF PageFits, Fits, Pending, Live, Running
  <1>9. ASSUME page' # None, ~ rash'  PROVE UploadsInv'
    BY <1>9, UploadsLive DEF UploadsInv, Pending, Live
  <1>10. ASSUME ~ rash'  PROVE StoreFits'  BY <1>10 DEF StoreFits, Fits, Pending
  <1>11. ASSUME ~ rash'  PROVE SavesInv'  BY <1>11 DEF SavesInv, Pending
  <1>. QED  BY <1>1, <1>2, <1>3, <1>4, <1>5, <1>6, <1>7, <1>8, <1>9, <1>10, <1>11

LEMMA UploadLabelsInv ==
    ASSUME IInv, NEW k \in Calls, UploadLabels(k)
    PROVE  IInv'
  <1>. USE ViewAssumption, NoneAssumption DEF IInv, TypeOK, Page, UploadLabels,
     Start, Shown, Busy
  <1>1. page' \in Page  OBVIOUS
  <1>2. TypeOK'  BY <1>1 DEF NoCall, Call
  <1>3. MountedInv'  BY <1>1, StaysMounted
  <1>4. SocketTracked'  BY DEF SocketTracked, Running
  <1>5. ChartIsLatest'  BY <1>1 DEF ChartIsLatest
  <1>6. OneOperation'  BY <1>1 DEF OneOperation, Operations, Live, Running
  <1>7. ASSUME page' # None, ~ rash'  PROVE LoadingInv'
    BY <1>7 DEF LoadingInv, Pending, Live, Running
  <1>8. ASSUME page' # None, ~ rash'  PROVE PageFits'
    BY <1>8 DEF PageFits, Fits, Pending, Live, Running
  <1>9. ASSUME page' # None, ~ rash'  PROVE UploadsInv'
    BY <1>9, UploadsLive DEF UploadsInv, Pending, Live
  <1>10. ASSUME ~ rash'  PROVE StoreFits'  BY <1>10 DEF StoreFits, Fits, Pending
  <1>11. ASSUME ~ rash'  PROVE SavesInv'  BY <1>11 DEF SavesInv, Pending
  <1>. QED  BY <1>1, <1>2, <1>3, <1>4, <1>5, <1>6, <1>7, <1>8, <1>9, <1>10, <1>11

LEMMA ParsedInv ==
    ASSUME IInv, NEW k \in Calls, NEW shape \in Shapes, Parsed(k, shape)
    PROVE  IInv'
  <1>1. page \in Page /\ Live(k)  BY OfPage DEF Parsed
  <1>2. /\ \A j \in Calls : j # k => calls'[j] = calls[j]
        /\ calls'[k].kind = "none"
    <2>1. calls \in [Calls -> Call] /\ Done(k)  BY DEF IInv, TypeOK, Parsed
    <2>. QED  BY <2>1, Settled
  <1>3. \/ /\ calls[k].kind = "features"
           /\ page' = [page EXCEPT !.features = TRUE, !.labels = calls[k].other,
                                   !.shape = shape]
        \/ /\ calls[k].kind = "labels"
           /\ page' = [page EXCEPT !.labels = TRUE, !.features = calls[k].other]
    BY DEF Parsed
  <1>4. calls[k].other \in BOOLEAN
    <2>1. calls[k] \in Call  BY DEF IInv, TypeOK
    <2>. QED  BY <1>3, <2>1 DEF Call
  <1>5. /\ page' \in Page /\ SameButData(page', page)
        /\ calls[k].kind = "labels" => page'.shape = page.shape
    BY <1>1, <1>3, <1>4, FeaturesOf, LabelsOf
  <1>6. page' \in Page  BY <1>5
  <1>7. /\ page'.socket = page.socket /\ page'.isTraining = page.isTraining
        /\ page'.epochLogs = page.epochLogs /\ page'.loading = page.loading
        /\ page'.modelInProcess = page.modelInProcess
        /\ page'.parameters = page.parameters
        /\ page'.isCompiled = page.isCompiled /\ page'.isTrained = page.isTrained
        /\ calls[k].kind = "labels" => page'.shape = page.shape
    BY <1>5 DEF SameButData
  <1>. USE <1>1, ViewAssumption, NoneAssumption DEF IInv, TypeOK, Page, Parsed,
     Done
  <1>8. TypeOK'  BY <1>6 DEF NoCall, Call
  <1>9. MountedInv'  BY <1>6, StaysMounted
  <1>10. SocketTracked'  BY <1>7 DEF SocketTracked, Running
  <1>11. ChartIsLatest'  BY <1>7 DEF ChartIsLatest
  <1>12. OneOperation'  BY <1>2, <1>7 DEF OneOperation, Operations, Live, Running
  <1>13. ASSUME page' # None, ~ rash'  PROVE LoadingInv'
    <2>1. LoadingInv /\ UNCHANGED sockets  BY <1>13
    <2>. HIDE DEF IInv, TypeOK, Page, Parsed, Done
    <2>. QED  BY <1>2, <1>7, <2>1 DEF LoadingInv, Pending, Live, Running
  <1>14. ASSUME page' # None, ~ rash'  PROVE PageFits'
    BY <1>2, <1>7, <1>14 DEF PageFits, UploadsInv, Fits, Pending, Live, Running
  <1>15. ASSUME page' # None, ~ rash'  PROVE UploadsInv'
    BY <1>15 DEF UploadsInv, Pending, Live, NoCall
  <1>16. ASSUME ~ rash'  PROVE StoreFits'  BY <1>16 DEF StoreFits, Fits, Pending, NoCall
  <1>17. ASSUME ~ rash'  PROVE SavesInv'  BY <1>17 DEF SavesInv, Pending, NoCall
  <1>. QED  BY <1>6, <1>8, <1>9, <1>10, <1>11, <1>12, <1>13, <1>14, <1>15, <1>16,
     <1>17

-----------------------------------------------------------------------------
(* Compiling, testing, predicting *)

LEMMA CompileInv ==
    ASSUME IInv, NEW k \in Calls, Compile(k)
    PROVE  IInv'
  <1>. USE ViewAssumption, NoneAssumption DEF IInv, TypeOK, Page, Compile, Start,
     Shown
  <1>1. page' \in Page  OBVIOUS
  <1>2. TypeOK'  BY <1>1 DEF NoCall, Call
  <1>3. MountedInv'  BY <1>1, StaysMounted
  <1>4. SocketTracked'  BY DEF SocketTracked, Running
  <1>5. ChartIsLatest'  BY <1>1 DEF ChartIsLatest
  <1>6. OneOperation'  BY <1>1 DEF OneOperation, Operations, Live, Running
  <1>7. ASSUME page' # None, ~ rash'  PROVE LoadingInv'
    BY <1>7 DEF LoadingInv, Pending, Live, Running
  <1>8. ASSUME page' # None, ~ rash'  PROVE PageFits'
    BY <1>8 DEF PageFits, Fits, Pending, Live, Running
  <1>9. ASSUME page' # None, ~ rash'  PROVE UploadsInv'
    <2>1. UploadsInv /\ Pending({"features"}) = {}  BY <1>9
    <2>2. \A j \in Calls :
             \/ calls'[j] = calls[j]
             \/ calls'[j].kind = "compile" /\ calls[j].kind = "none"
      OBVIOUS
    <2>3. page'.features = page.features  OBVIOUS
    <2>. HIDE DEF IInv, TypeOK, Page, Compile, Start, Shown
    <2>. QED  BY <2>1, <2>2, <2>3 DEF UploadsInv, Pending, Live
  <1>10. ASSUME ~ rash'  PROVE StoreFits'  BY <1>10 DEF StoreFits, Fits, Pending
  <1>11. ASSUME ~ rash'  PROVE SavesInv'  BY <1>11 DEF SavesInv, Pending
  <1>. QED  BY <1>1, <1>2, <1>3, <1>4, <1>5, <1>6, <1>7, <1>8, <1>9, <1>10, <1>11

LEMMA CompileAnsweredInv ==
    ASSUME IInv, NEW k \in Calls, CompileAnswered(k)
    PROVE  IInv'
  <1>1. calls[k].live => page \in Page /\ Live(k)  BY OfCompile DEF CompileAnswered
  <1>. USE <1>1, ViewAssumption, NoneAssumption DEF IInv, TypeOK, Page,
     CompileAnswered, Update, WithCompiled, Done
  <1>2. page' \in Page \cup {None} /\ (calls[k].live => page' \in Page)
    <2>1. [shape |-> calls[k].shape, trained |-> FALSE] \in Params  BY OfCompile DEF Params
    <2>. QED  BY <2>1, OfCompile
  <1>3. TypeOK'  BY <1>2 DEF NoCall, Call
  <1>4. MountedInv'
    <2>1. CASE calls[k].live  BY <2>1, <1>2 DEF MountedInv
    <2>2. CASE ~ calls[k].live  BY <2>2, NoCallKind DEF MountedInv, Live
    <2>. QED  BY <2>1, <2>2, OfCompile
  <1>5. SocketTracked'  BY DEF SocketTracked, Running
  <1>6. ChartIsLatest'  BY <1>2 DEF ChartIsLatest
  <1>7. OneOperation'  BY <1>2 DEF OneOperation, Operations, Live, Running, NoCall
  <1>8. ASSUME page' # None, ~ rash'  PROVE LoadingInv'
    BY <1>8 DEF LoadingInv, Pending, Live, Running, NoCall
  <1>9. ASSUME page' # None, ~ rash'  PROVE PageFits'
    <2>1. CASE calls[k].live
      <3>1. [shape |-> calls[k].shape, trained |-> FALSE]
               \in [shape : Shapes, trained : BOOLEAN]
        BY OfCompile
      <3>2. \A j \in Calls : Live(j) => j = k \/ calls[j].kind # "compile"
        BY <2>1, <1>1, <1>9 DEF OneOperation, Operations
      <3>3. calls[k].shape = page.shape
        BY <2>1, <1>1, <1>9 DEF PageFits, Pending
      <3>. QED  BY <2>1, <1>1, <3>1, <3>2, <3>3, <1>9, NoCallKind
             DEF PageFits, Fits, Pending, Live, Running
    <2>2. CASE ~ calls[k].live
      BY <2>2, <1>9, NoCallKind DEF PageFits, Fits, Pending, Live, Running
    <2>. QED  BY <2>1, <2>2, OfCompile
  <1>10. ASSUME page' # None, ~ rash'  PROVE UploadsInv'
    BY <1>10 DEF UploadsInv, Pending, Live, NoCall
  <1>11. ASSUME ~ rash'  PROVE StoreFits'  BY <1>11 DEF StoreFits, Fits, Pending, NoCall
  <1>12. ASSUME ~ rash'  PROVE SavesInv'  BY <1>12 DEF SavesInv, Pending, NoCall
  <1>. QED  BY <1>2, <1>3, <1>4, <1>5, <1>6, <1>7, <1>8, <1>9, <1>10, <1>11, <1>12

LEMMA CompileFailsInv ==
    ASSUME IInv, NEW k \in Calls, CompileFails(k)
    PROVE  IInv'
  <1>1. calls[k].live => page \in Page /\ Live(k)  BY OfCompile DEF CompileFails
  <1>. USE <1>1, ViewAssumption, NoneAssumption DEF IInv, TypeOK, Page,
     CompileFails, Update, WithCompiled, Done
  <1>2. page' \in Page \cup {None} /\ (calls[k].live => page' \in Page)
    <2>1. Undefined \in Params  BY DEF Params
    <2>. QED  BY <2>1, OfCompile
  <1>3. TypeOK'
    <2>1. failures' \in 0 .. MaxFailures  OBVIOUS
    <2>2. calls' \in [Calls -> Call]  BY NoCallKind
    <2>. QED  BY <1>2, <2>1, <2>2
  <1>4. MountedInv'
    <2>1. CASE calls[k].live  BY <2>1, <1>2 DEF MountedInv
    <2>2. CASE ~ calls[k].live  BY <2>2, NoCallKind DEF MountedInv, Live
    <2>. QED  BY <2>1, <2>2, OfCompile
  <1>5. SocketTracked'  BY DEF SocketTracked, Running
  <1>6. ChartIsLatest'  BY <1>2 DEF ChartIsLatest
  <1>7. OneOperation'  BY <1>2 DEF OneOperation, Operations, Live, Running
  <1>8. ASSUME page' # None, ~ rash'  PROVE LoadingInv'
    BY <1>8 DEF LoadingInv, Pending, Live, Running
  <1>9. ASSUME page' # None, ~ rash'  PROVE PageFits'
    BY <1>9 DEF PageFits, Fits, Pending, Live, Running
  <1>10. ASSUME page' # None, ~ rash'  PROVE UploadsInv'
    BY <1>10 DEF UploadsInv, Pending, Live
  <1>11. ASSUME ~ rash'  PROVE StoreFits'  BY <1>11 DEF StoreFits, Fits, Pending
  <1>12. ASSUME ~ rash'  PROVE SavesInv'  BY <1>12 DEF SavesInv, Pending
  <1>. QED  BY <1>2, <1>3, <1>4, <1>5, <1>6, <1>7, <1>8, <1>9, <1>10, <1>11, <1>12

LEMMA AskInv ==
    ASSUME IInv, NEW k \in Calls, NEW kind \in Questions, Ask(k, kind)
    PROVE  IInv'
  <1>. USE ViewAssumption, NoneAssumption DEF IInv, TypeOK, Page, Ask, Start,
     Shown
  <1>1. page' \in Page  OBVIOUS
  <1>2. TypeOK'  BY <1>1 DEF NoCall, Call
  <1>3. MountedInv'  BY <1>1, StaysMounted
  <1>4. SocketTracked'  BY DEF SocketTracked, Running
  <1>5. ChartIsLatest'  BY <1>1 DEF ChartIsLatest
  <1>6. OneOperation'  BY <1>1 DEF OneOperation, Operations, Live, Running
  <1>7. ASSUME page' # None, ~ rash'  PROVE LoadingInv'
    BY <1>7 DEF LoadingInv, Pending, Live, Running
  <1>8. ASSUME page' # None, ~ rash'  PROVE PageFits'
    BY <1>8 DEF PageFits, Fits, Pending, Live, Running
  <1>9. ASSUME page' # None, ~ rash'  PROVE UploadsInv'
    BY <1>9 DEF UploadsInv, Pending, Live
  <1>10. ASSUME ~ rash'  PROVE StoreFits'  BY <1>10 DEF StoreFits, Fits, Pending
  <1>11. ASSUME ~ rash'  PROVE SavesInv'  BY <1>11 DEF SavesInv, Pending
  <1>. QED  BY <1>1, <1>2, <1>3, <1>4, <1>5, <1>6, <1>7, <1>8, <1>9, <1>10, <1>11

LEMMA AskedInv ==
    ASSUME IInv, NEW k \in Calls, Asked(k)
    PROVE  IInv'
  <1>1. page \in Page /\ Live(k)  BY OfPage DEF Asked
  <1>. USE <1>1, ViewAssumption, NoneAssumption DEF IInv, TypeOK, Page, Asked,
     Done
  <1>2. page' \in Page  OBVIOUS
  <1>3. TypeOK'  BY <1>2 DEF NoCall, Call
  <1>4. MountedInv'  BY <1>2, StaysMounted
  <1>5. SocketTracked'  BY DEF SocketTracked, Running
  <1>6. ChartIsLatest'  BY <1>2 DEF ChartIsLatest
  <1>7. OneOperation'  BY <1>2 DEF OneOperation, Operations, Live, Running, NoCall
  <1>8. ASSUME page' # None, ~ rash'  PROVE LoadingInv'
    BY <1>8 DEF LoadingInv, Pending, Live, Running, NoCall
  <1>9. ASSUME page' # None, ~ rash'  PROVE PageFits'
    BY <1>9 DEF PageFits, Fits, Pending, Live, Running, NoCall
  <1>10. ASSUME page' # None, ~ rash'  PROVE UploadsInv'
    BY <1>10 DEF UploadsInv, Pending, Live, NoCall
  <1>11. ASSUME ~ rash'  PROVE StoreFits'  BY <1>11 DEF StoreFits, Fits, Pending, NoCall
  <1>12. ASSUME ~ rash'  PROVE SavesInv'  BY <1>12 DEF SavesInv, Pending, NoCall
  <1>. QED  BY <1>2, <1>3, <1>4, <1>5, <1>6, <1>7, <1>8, <1>9, <1>10, <1>11, <1>12

LEMMA AskFailsInv ==
    ASSUME IInv, NEW k \in Calls, AskFails(k)
    PROVE  IInv'
  <1>1. page \in Page /\ Live(k)  BY OfPage DEF AskFails
  <1>. USE <1>1, ViewAssumption, NoneAssumption DEF IInv, TypeOK, Page, AskFails,
     Done
  <1>2. page' \in Page  OBVIOUS
  <1>3. TypeOK'
    <2>1. failures' \in 0 .. MaxFailures  OBVIOUS
    <2>2. calls' \in [Calls -> Call]  BY NoCallKind
    <2>. QED  BY <1>2, <2>1, <2>2
  <1>4. MountedInv'  BY <1>2, StaysMounted
  <1>5. SocketTracked'  BY DEF SocketTracked, Running
  <1>6. ChartIsLatest'  BY <1>2 DEF ChartIsLatest
  <1>7. OneOperation'  BY <1>2 DEF OneOperation, Operations, Live, Running
  <1>8. ASSUME page' # None, ~ rash'  PROVE LoadingInv'
    BY <1>8 DEF LoadingInv, Pending, Live, Running
  <1>9. ASSUME page' # None, ~ rash'  PROVE PageFits'
    BY <1>9 DEF PageFits, Fits, Pending, Live, Running
  <1>10. ASSUME page' # None, ~ rash'  PROVE UploadsInv'
    BY <1>10 DEF UploadsInv, Pending, Live
  <1>11. ASSUME ~ rash'  PROVE StoreFits'  BY <1>11 DEF StoreFits, Fits, Pending
  <1>12. ASSUME ~ rash'  PROVE SavesInv'  BY <1>12 DEF SavesInv, Pending
  <1>. QED  BY <1>2, <1>3, <1>4, <1>5, <1>6, <1>7, <1>8, <1>9, <1>10, <1>11, <1>12

-----------------------------------------------------------------------------
(* Training *)

LEMMA TrainInv ==
    ASSUME IInv, NEW s \in Sockets, Train(s)
    PROVE  IInv'
  <1>. USE ViewAssumption, NoneAssumption DEF IInv, TypeOK, Page, Train, Shown,
     NoChart
  <1>1. page' \in Page
    <2>1. NoChart \in Chart  BY DEF NoChart, Chart
    <2>. QED  BY <2>1
  <1>2. TypeOK'
    <2>1. sockets[s] \in Socket /\ page.shape \in Shapes  OBVIOUS
    <2>2. [sockets[s] EXCEPT !.state = "connecting", !.shape = page.shape] \in Socket
      BY <2>1 DEF Socket
    <2>3. sockets' \in [Sockets -> Socket]  BY <2>2
    <2>. QED  BY <1>1, <2>3
  <1>3. MountedInv'
    <2>1. \A t \in Sockets : /\ sockets'[t].flushing = sockets[t].flushing
                             /\ t # s => sockets'[t].state = sockets[t].state
      BY DEF Socket
    <2>2. sockets'[s].state = "connecting"  BY DEF Socket
    <2>3. calls' = calls /\ page' # None  BY <1>1
    <2>4. ~ sockets[s].flushing  BY DEF MountedInv
    <2>. QED  BY <2>1, <2>2, <2>3, <2>4 DEF MountedInv
  <1>4. SocketTracked'  BY DEF SocketTracked, Running
  <1>5. ChartIsLatest'  BY <1>1 DEF ChartIsLatest
  <1>6. OneOperation'  BY <1>1 DEF OneOperation, Operations, Live, Running
  <1>7. ASSUME page' # None, ~ rash'  PROVE LoadingInv'
    BY <1>7 DEF LoadingInv, Pending, Live, Running
  <1>8. ASSUME page' # None, ~ rash'  PROVE PageFits'
    BY <1>8 DEF PageFits, Fits, Pending, Live, Running
  <1>9. ASSUME page' # None, ~ rash'  PROVE UploadsInv'
    BY <1>9 DEF UploadsInv, Pending, Live
  <1>10. ASSUME ~ rash'  PROVE StoreFits'  BY <1>10 DEF StoreFits, Fits, Pending
  <1>11. ASSUME ~ rash'  PROVE SavesInv'  BY <1>11 DEF SavesInv, Pending
  <1>. QED  BY <1>1, <1>2, <1>3, <1>4, <1>5, <1>6, <1>7, <1>8, <1>9, <1>10, <1>11

LEMMA StopTrainingInv ==
    ASSUME IInv, StopTraining
    PROVE  IInv'
  <1>. USE ViewAssumption, NoneAssumption DEF IInv, TypeOK, Page, StopTraining,
     Shown
  <1>1. page' \in Page  OBVIOUS
  <1>2. TypeOK'  BY <1>1
  <1>3. MountedInv'  BY <1>1, StaysMounted
  <1>4. SocketTracked'  BY DEF SocketTracked, Running
  <1>5. ChartIsLatest'  BY <1>1 DEF ChartIsLatest
  <1>6. OneOperation'  BY <1>1 DEF OneOperation, Operations, Live, Running
  <1>7. ASSUME page' # None, ~ rash'  PROVE LoadingInv'
    BY <1>7 DEF LoadingInv, Pending, Live, Running
  <1>8. ASSUME page' # None, ~ rash'  PROVE PageFits'
    BY <1>8 DEF PageFits, Fits, Pending, Live, Running
  <1>9. ASSUME page' # None, ~ rash'  PROVE UploadsInv'
    BY <1>9 DEF UploadsInv, Pending, Live
  <1>10. ASSUME ~ rash'  PROVE StoreFits'  BY <1>10 DEF StoreFits, Fits, Pending
  <1>11. ASSUME ~ rash'  PROVE SavesInv'  BY <1>11 DEF SavesInv, Pending
  <1>. QED  BY <1>1, <1>2, <1>3, <1>4, <1>5, <1>6, <1>7, <1>8, <1>9, <1>10, <1>11

LEMMA OpenedInv ==
    ASSUME IInv, NEW s \in Sockets, Opened(s)
    PROVE  IInv'
  <1>1. page \in Page  BY OfSocket DEF Opened
  <1>. USE <1>1, ViewAssumption, NoneAssumption DEF IInv, TypeOK, Page, Opened
  <1>2. page' \in Page  OBVIOUS
  <1>3. TypeOK'
    <2>1. [sockets[s] EXCEPT !.state = "open", !.flushing = TRUE] \in Socket
      BY SocketWith
    <2>2. sockets' \in [Sockets -> Socket]  BY <2>1
    <2>. QED  BY <2>2
  <1>4. MountedInv'  BY <1>2 DEF MountedInv
  <1>5. SocketTracked'  BY DEF SocketTracked, Running
  <1>6. ChartIsLatest'  BY <1>2 DEF ChartIsLatest, SocketTracked, Running
  <1>7. OneOperation'  BY <1>2 DEF OneOperation, Operations, Live, Running
  <1>8. ASSUME page' # None, ~ rash'  PROVE LoadingInv'
    BY <1>8 DEF LoadingInv, Pending, Live, Running
  <1>9. ASSUME page' # None, ~ rash'  PROVE PageFits'
    BY <1>9 DEF PageFits, Fits, Pending, Live, Running
  <1>10. ASSUME page' # None, ~ rash'  PROVE UploadsInv'
    BY <1>10 DEF UploadsInv, Pending, Live
  <1>11. ASSUME ~ rash'  PROVE StoreFits'  BY <1>11 DEF StoreFits, Fits, Pending
  <1>12. ASSUME ~ rash'  PROVE SavesInv'  BY <1>12 DEF SavesInv, Pending
  <1>. QED  BY <1>2, <1>3, <1>4, <1>5, <1>6, <1>7, <1>8, <1>9, <1>10, <1>11, <1>12

LEMMA FlushInv ==
    ASSUME IInv, NEW s \in Sockets, Flush(s)
    PROVE  IInv'
  <1>1. page \in Page  BY OfSocket DEF Flush
  <1>. USE <1>1, ViewAssumption, NoneAssumption DEF IInv, TypeOK, Page, Flush,
     Flushed, NoChart
  <1>2. page' \in Page
    <2>1. sockets[s].logs \in 0 .. MaxLogs  BY DEF Socket
    <2>. QED  BY <2>1, FlushedIs
  <1>3. TypeOK'  BY <1>2
  <1>4. MountedInv'  BY <1>2, StaysMounted
  <1>5. SocketTracked'  BY DEF SocketTracked, Running
  <1>6. ChartIsLatest'
    BY <1>2 DEF SocketTracked, ChartIsLatest, Running, MountedInv, Chart, Socket,
       Unused
  <1>7. OneOperation'  BY <1>2 DEF OneOperation, Operations, Live, Running
  <1>8. ASSUME page' # None, ~ rash'  PROVE LoadingInv'
    BY <1>8 DEF LoadingInv, Pending, Live, Running
  <1>9. ASSUME page' # None, ~ rash'  PROVE PageFits'
    BY <1>9 DEF PageFits, Fits, Pending, Live, Running
  <1>10. ASSUME page' # None, ~ rash'  PROVE UploadsInv'
    BY <1>10 DEF UploadsInv, Pending, Live
  <1>11. ASSUME ~ rash'  PROVE StoreFits'  BY <1>11 DEF StoreFits, Fits, Pending
  <1>12. ASSUME ~ rash'  PROVE SavesInv'  BY <1>12 DEF SavesInv, Pending
  <1>. QED  BY <1>2, <1>3, <1>4, <1>5, <1>6, <1>7, <1>8, <1>9, <1>10, <1>11, <1>12

LEMMA LoggedInv ==
    ASSUME IInv, NEW s \in Sockets, Logged(s)
    PROVE  IInv'
  <1>1. page \in Page  BY OfSocket DEF Logged
  <1>. USE <1>1, ViewAssumption, NoneAssumption DEF IInv, TypeOK, Page, Logged,
     Flushed, NoChart
  <1>2. page' \in Page
    <2>1. sockets[s].logs + 1 \in 0 .. MaxLogs  BY DEF Socket
    <2>2. (IF sockets[s].logs + 1 = 0 THEN NoChart
           ELSE [of |-> s, length |-> sockets[s].logs + 1]) \in Chart
      BY <2>1 DEF Chart
    <2>. QED  BY <2>2
  <1>3. TypeOK'
    <2>1. sockets[s].logs + 1 \in 0 .. MaxLogs  BY DEF Socket
    <2>2. [sockets[s] EXCEPT !.logs = sockets[s].logs + 1] \in Socket  BY <2>1 DEF Socket
    <2>3. sockets' \in [Sockets -> Socket]  BY <2>2
    <2>. QED  BY <1>2, <2>3
  <1>4. MountedInv'  BY <1>2 DEF MountedInv
  <1>5. SocketTracked'  BY DEF SocketTracked, Running
  <1>6. ChartIsLatest'
    BY <1>2 DEF SocketTracked, ChartIsLatest, Running, MountedInv, Chart, Socket,
       Unused
  <1>7. OneOperation'  BY <1>2 DEF OneOperation, Operations, Live, Running
  <1>8. ASSUME page' # None, ~ rash'  PROVE LoadingInv'
    BY <1>8 DEF LoadingInv, Pending, Live, Running
  <1>9. ASSUME page' # None, ~ rash'  PROVE PageFits'
    BY <1>9 DEF PageFits, Fits, Pending, Live, Running
  <1>10. ASSUME page' # None, ~ rash'  PROVE UploadsInv'
    BY <1>10 DEF UploadsInv, Pending, Live
  <1>11. ASSUME ~ rash'  PROVE StoreFits'  BY <1>11 DEF StoreFits, Fits, Pending
  <1>12. ASSUME ~ rash'  PROVE SavesInv'  BY <1>12 DEF SavesInv, Pending
  <1>. QED  BY <1>2, <1>3, <1>4, <1>5, <1>6, <1>7, <1>8, <1>9, <1>10, <1>11, <1>12

LEMMA TrainedInv ==
    ASSUME IInv, NEW s \in Sockets, Trained(s)
    PROVE  IInv'
  <1>1. page \in Page  BY OfSocket DEF Trained
  <1>. USE <1>1, ViewAssumption, NoneAssumption DEF IInv, TypeOK, Page, Trained
  <1>2. page' \in Page
    <2>1. [shape |-> sockets[s].shape, trained |-> TRUE] \in Params  BY DEF Params, Socket
    <2>. QED  BY <2>1
  <1>3. TypeOK'  BY <1>2
  <1>4. MountedInv'  BY <1>2, StaysMounted
  <1>5. SocketTracked'  BY DEF SocketTracked, Running
  <1>6. ChartIsLatest'  BY <1>2 DEF ChartIsLatest
  <1>7. OneOperation'  BY <1>2 DEF OneOperation, Operations, Live, Running
  <1>8. ASSUME page' # None, ~ rash'  PROVE LoadingInv'
    BY <1>8 DEF LoadingInv, Pending, Live, Running
  <1>9. ASSUME page' # None, ~ rash'  PROVE PageFits'
    <2>1. [shape |-> sockets[s].shape, trained |-> TRUE]
             \in [shape : Shapes, trained : BOOLEAN]
      BY DEF Socket
    <2>2. page.isCompiled /\ sockets[s].shape = page.shape
      BY <1>9 DEF PageFits, Running
    <2>. QED  BY <1>9, <2>1, <2>2 DEF PageFits, Fits, Pending, Live, Running
  <1>10. ASSUME page' # None, ~ rash'  PROVE UploadsInv'
    BY <1>10 DEF UploadsInv, Pending, Live
  <1>11. ASSUME ~ rash'  PROVE StoreFits'  BY <1>11 DEF StoreFits, Fits, Pending
  <1>12. ASSUME ~ rash'  PROVE SavesInv'  BY <1>12 DEF SavesInv, Pending
  <1>. QED  BY <1>2, <1>3, <1>4, <1>5, <1>6, <1>7, <1>8, <1>9, <1>10, <1>11, <1>12

LEMMA ClosedInv ==
    ASSUME IInv, NEW s \in Sockets, Closed(s)
    PROVE  IInv'
  <1>1. page \in Page  BY OfSocket DEF Closed
  <1>. USE <1>1, ViewAssumption, NoneAssumption DEF IInv, TypeOK, Page, Closed,
     Flushed, NoChart
  <1>2. page' \in Page
    <2>1. (IF sockets[s].logs = 0 THEN NoChart ELSE [of |-> s, length |-> sockets[s].logs])
             \in Chart
      BY DEF Socket, Chart
    <2>. QED  BY <2>1
  <1>3. TypeOK'
    <2>1. [sockets[s] EXCEPT !.state = "closed", !.flushing = FALSE] \in Socket
      BY SocketWith
    <2>2. sockets' \in [Sockets -> Socket]  BY <2>1
    <2>. QED  BY <1>2, <2>2
  <1>4. MountedInv'
    <2>1. sockets'[s].state = "closed" /\ sockets'[s].flushing = FALSE  BY DEF Socket
    <2>2. \A t \in Sockets : t # s => sockets'[t] = sockets[t]  OBVIOUS
    <2>3. page' # None  BY <1>2
    <2>. QED  BY <2>1, <2>2, <2>3 DEF MountedInv
  <1>5. SocketTracked'  BY DEF SocketTracked, Running
  <1>6. ChartIsLatest'  BY <1>2 DEF ChartIsLatest, SocketTracked, Running, Socket
  <1>7. OneOperation'  BY <1>2 DEF OneOperation, Operations, Live, Running
  <1>8. ASSUME page' # None, ~ rash'  PROVE LoadingInv'
    BY <1>8 DEF LoadingInv, Pending, Live, Running
  <1>9. ASSUME page' # None, ~ rash'  PROVE PageFits'
    BY <1>9 DEF PageFits, Fits, Pending, Live, Running
  <1>10. ASSUME page' # None, ~ rash'  PROVE UploadsInv'
    BY <1>10 DEF UploadsInv, Pending, Live
  <1>11. ASSUME ~ rash'  PROVE StoreFits'  BY <1>11 DEF StoreFits, Fits, Pending
  <1>12. ASSUME ~ rash'  PROVE SavesInv'  BY <1>12 DEF SavesInv, Pending
  <1>. QED  BY <1>2, <1>3, <1>4, <1>5, <1>6, <1>7, <1>8, <1>9, <1>10, <1>11, <1>12

-----------------------------------------------------------------------------
(* Saving *)

LEMMA SaveInv ==
    ASSUME IInv, NEW k \in Calls, Save(k)
    PROVE  IInv'
  <1>. USE ViewAssumption, NoneAssumption DEF IInv, TypeOK, Page, Save, Start
  <1>1. page' \in Page \cup {None}  OBVIOUS
  <1>2. TypeOK'  BY <1>1 DEF NoCall, Call
  <1>3. MountedInv'  BY <1>1 DEF MountedInv
  <1>4. SocketTracked'  BY DEF SocketTracked, Running
  <1>5. ChartIsLatest'  BY <1>1 DEF ChartIsLatest
  <1>6. OneOperation'  BY <1>1 DEF OneOperation, Operations, Live, Running
  <1>7. ASSUME page' # None, ~ rash'  PROVE LoadingInv'
    BY <1>7 DEF LoadingInv, Pending, Live, Running
  <1>8. ASSUME page' # None, ~ rash'  PROVE PageFits'
    BY <1>8 DEF PageFits, Fits, Pending, Live, Running
  <1>9. ASSUME page' # None, ~ rash'  PROVE UploadsInv'
    BY <1>9 DEF UploadsInv, Pending, Live
  <1>10. ASSUME ~ rash'  PROVE StoreFits'
    BY <1>10 DEF StoreFits, Fits, Pending, PageFits
  <1>11. ASSUME ~ rash'  PROVE SavesInv'  BY <1>11 DEF SavesInv, Pending
  <1>. QED  BY <1>1, <1>2, <1>3, <1>4, <1>5, <1>6, <1>7, <1>8, <1>9, <1>10, <1>11

LEMMA InfoSavedInv ==
    ASSUME IInv, NEW k \in Calls, InfoSaved(k)
    PROVE  IInv'
  <1>. USE ViewAssumption, NoneAssumption DEF IInv, TypeOK, Page, InfoSaved,
     Written, UpdateStatus, StatusOf
  <1>1. page' \in Page \cup {None}  OBVIOUS
  <1>2. TypeOK'
    <2>1. calls[k] \in [kind : {"save"}, live : BOOLEAN, shape : Shapes,
                        parameters : Params, isCompiled : BOOLEAN, isTrained : BOOLEAN]
      BY DEF Call
    <2>2. Written(calls[k]) \in Document  BY <2>1 DEF Document
    <2>3. [kind |-> "status", live |-> calls[k].live, status |-> StatusOf(calls[k])]
             \in Call
      BY <2>1 DEF Call, Status
    <2>4. calls' \in [Calls -> Call]  BY <2>3
    <2>5. stored' \in Document  BY <2>2
    <2>. QED  BY <1>1, <2>4, <2>5
  <1>3. MountedInv'  BY <1>1 DEF MountedInv, Live
  <1>4. SocketTracked'  BY DEF SocketTracked, Running
  <1>5. ChartIsLatest'  BY <1>1 DEF ChartIsLatest
  <1>6. OneOperation'  BY <1>1 DEF OneOperation, Operations, Live, Running
  <1>7. ASSUME page' # None, ~ rash'  PROVE LoadingInv'
    BY <1>7 DEF LoadingInv, Pending, Live, Running
  <1>8. ASSUME page' # None, ~ rash'  PROVE PageFits'
    BY <1>8 DEF PageFits, Fits, Pending, Live, Running
  <1>9. ASSUME page' # None, ~ rash'  PROVE UploadsInv'
    BY <1>9 DEF UploadsInv, Pending, Live
  <1>10. ASSUME ~ rash'  PROVE StoreFits'  BY <1>10 DEF StoreFits, Fits, Pending
  <1>11. ASSUME ~ rash'  PROVE SavesInv'  BY <1>11 DEF SavesInv, Pending, StoreFits
  <1>. QED  BY <1>1, <1>2, <1>3, <1>4, <1>5, <1>6, <1>7, <1>8, <1>9, <1>10, <1>11

LEMMA InfoFailsInv ==
    ASSUME IInv, NEW k \in Calls, InfoFails(k)
    PROVE  IInv'
  <1>. USE ViewAssumption, NoneAssumption DEF IInv, TypeOK, Page, InfoFails,
     Written, UpdateStatus, StatusOf
  <1>1. page' \in Page \cup {None}  OBVIOUS
  <1>2. TypeOK'
    <2>1. calls[k] \in [kind : {"save"}, live : BOOLEAN, shape : Shapes,
                        parameters : Params, isCompiled : BOOLEAN, isTrained : BOOLEAN]
      BY DEF Call
    <2>2. Written(calls[k]) \in Document  BY <2>1 DEF Document
    <2>3. [kind |-> "status", live |-> calls[k].live, status |-> StatusOf(calls[k])]
             \in Call
      BY <2>1 DEF Call, Status
    <2>4. calls' \in [Calls -> Call]  BY <2>3
    <2>5. failures' \in 0 .. MaxFailures  OBVIOUS
    <2>6. stored' \in Document  BY <2>2
    <2>. QED  BY <2>4, <2>5, <2>6
  <1>3. MountedInv'  BY <1>1 DEF MountedInv, Live
  <1>4. SocketTracked'  BY DEF SocketTracked, Running
  <1>5. ChartIsLatest'  BY <1>1 DEF ChartIsLatest
  <1>6. OneOperation'  BY <1>1 DEF OneOperation, Operations, Live, Running
  <1>7. ASSUME page' # None, ~ rash'  PROVE LoadingInv'
    BY <1>7 DEF LoadingInv, Pending, Live, Running
  <1>8. ASSUME page' # None, ~ rash'  PROVE PageFits'
    BY <1>8 DEF PageFits, Fits, Pending, Live, Running
  <1>9. ASSUME page' # None, ~ rash'  PROVE UploadsInv'
    BY <1>9 DEF UploadsInv, Pending, Live
  <1>10. ASSUME ~ rash'  PROVE StoreFits'  BY <1>10 DEF StoreFits, Fits, Pending
  <1>11. ASSUME ~ rash'  PROVE SavesInv'  BY <1>11 DEF SavesInv, Pending
  <1>. QED  BY <1>1, <1>2, <1>3, <1>4, <1>5, <1>6, <1>7, <1>8, <1>9, <1>10, <1>11

LEMMA StatusSavedInv ==
    ASSUME IInv, NEW k \in Calls, StatusSaved(k)
    PROVE  IInv'
  <1>. USE ViewAssumption, NoneAssumption DEF IInv, TypeOK, Page, StatusSaved,
     Done
  <1>1. page' \in Page \cup {None}  OBVIOUS
  <1>2. TypeOK'  BY <1>1 DEF NoCall, Call
  <1>3. MountedInv'  BY <1>1 DEF MountedInv, Live, NoCall
  <1>4. SocketTracked'  BY DEF SocketTracked, Running
  <1>5. ChartIsLatest'  BY <1>1 DEF ChartIsLatest
  <1>6. OneOperation'  BY <1>1 DEF OneOperation, Operations, Live, Running, NoCall
  <1>7. ASSUME page' # None, ~ rash'  PROVE LoadingInv'
    BY <1>7 DEF LoadingInv, Pending, Live, Running, NoCall
  <1>8. ASSUME page' # None, ~ rash'  PROVE PageFits'
    BY <1>8 DEF PageFits, Fits, Pending, Live, Running, NoCall
  <1>9. ASSUME page' # None, ~ rash'  PROVE UploadsInv'
    BY <1>9 DEF UploadsInv, Pending, Live, NoCall
  <1>10. ASSUME ~ rash'  PROVE StoreFits'  BY <1>10 DEF StoreFits, Fits, Pending, NoCall
  <1>11. ASSUME ~ rash'  PROVE SavesInv'  BY <1>11 DEF SavesInv, Pending, NoCall
  <1>. QED  BY <1>1, <1>2, <1>3, <1>4, <1>5, <1>6, <1>7, <1>8, <1>9, <1>10, <1>11

LEMMA StatusFailsInv ==
    ASSUME IInv, NEW k \in Calls, StatusFails(k)
    PROVE  IInv'
  <1>. USE ViewAssumption, NoneAssumption DEF IInv, TypeOK, Page, StatusFails,
     Done
  <1>1. page' \in Page \cup {None}  OBVIOUS
  <1>2. TypeOK'
    <2>1. failures' \in 0 .. MaxFailures  OBVIOUS
    <2>2. calls' \in [Calls -> Call]  BY NoCallKind
    <2>3. status' \in Status  BY DEF Call
    <2>. QED  BY <1>1, <2>1, <2>2, <2>3
  <1>3. MountedInv'  BY <1>1 DEF MountedInv, Live, NoCall
  <1>4. SocketTracked'  BY DEF SocketTracked, Running
  <1>5. ChartIsLatest'  BY <1>1 DEF ChartIsLatest
  <1>6. OneOperation'  BY <1>1 DEF OneOperation, Operations, Live, Running
  <1>7. ASSUME page' # None, ~ rash'  PROVE LoadingInv'
    BY <1>7 DEF LoadingInv, Pending, Live, Running
  <1>8. ASSUME page' # None, ~ rash'  PROVE PageFits'
    BY <1>8 DEF PageFits, Fits, Pending, Live, Running
  <1>9. ASSUME page' # None, ~ rash'  PROVE UploadsInv'
    BY <1>9 DEF UploadsInv, Pending, Live
  <1>10. ASSUME ~ rash'  PROVE StoreFits'  BY <1>10 DEF StoreFits, Fits, Pending
  <1>11. ASSUME ~ rash'  PROVE SavesInv'  BY <1>11 DEF SavesInv, Pending
  <1>. QED  BY <1>1, <1>2, <1>3, <1>4, <1>5, <1>6, <1>7, <1>8, <1>9, <1>10, <1>11

-----------------------------------------------------------------------------
(* The invariant *)

LEMMA InitIInv == Init => IInv
  <1>. SUFFICES ASSUME Init  PROVE IInv
    OBVIOUS
  <1>. USE ViewAssumption, NoneAssumption DEF Init
  <1>1. TypeOK
    <2>1. stored \in Document  BY DEF Document, Params
    <2>2. calls \in [Calls -> Call]  BY NoCallKind
    <2>3. sockets \in [Sockets -> Socket]  BY DEF Socket, Unused
    <2>4. failures \in 0 .. MaxFailures  OBVIOUS
    <2>5. page \in Page \cup {None} /\ saved \in BOOLEAN /\ rash \in BOOLEAN  OBVIOUS
    <2>6. status \in Status  BY DEF Status
    <2>. HIDE DEF Init
    <2>. QED  BY <2>1, <2>2, <2>3, <2>4, <2>5, <2>6 DEF TypeOK
  <1>2. MountedInv /\ SocketTracked /\ ChartIsLatest /\ OneOperation
    BY NoCallKind DEF MountedInv, Live, Unused, SocketTracked, ChartIsLatest, OneOperation
  <1>3. StoreFits /\ SavesInv
    BY NoCallKind DEF StoreFits, SavesInv, Fits, Pending, Status
  <1>. QED  BY <1>1, <1>2, <1>3 DEF IInv

LEMMA StutterIInv ==
    ASSUME IInv, UNCHANGED vars
    PROVE  IInv'
  BY DEF vars, IInv, TypeOK, MountedInv, SocketTracked, ChartIsLatest, OneOperation,
         Operations, LoadingInv, PageFits, UploadsInv, StoreFits, SavesInv, Fits, Live,
         Running, Pending

LEMMA NextIInv ==
    ASSUME IInv, Next
    PROVE  IInv'
  <1>1. CASE Edit /\ (Patient => ~ rash')
    BY <1>1, EditLayerInv, AddLayerInv, UploadFeaturesInv, UploadLabelsInv, SaveInv
       DEF Edit
  <1>2. CASE Use
    BY <1>2, LeaveInv, StopTrainingInv, MountInv, CompileInv, AskInv, TrainInv DEF Use
  <1>3. ASSUME NEW k \in Calls, Answer(k)
        PROVE  IInv'
    BY <1>3, ReadInv, FetchedInv, FetchFailsInv, ParsedInv, CompileAnsweredInv,
       CompileFailsInv, AskedInv, AskFailsInv, InfoSavedInv, InfoFailsInv,
       StatusSavedInv, StatusFailsInv
       DEF Answer
  <1>4. ASSUME NEW s \in Sockets, SocketEvent(s)
        PROVE  IInv'
    BY <1>4, OpenedInv, FlushInv, LoggedInv, TrainedInv, ClosedInv DEF SocketEvent
  <1>. QED  BY <1>1, <1>2, <1>3, <1>4 DEF Next

\* The invariant that the others follow from.
THEOREM Inductive == Spec => []IInv
  <1>1. Init => IInv  BY InitIInv
  <1>2. IInv /\ [Next]_vars => IInv'  BY NextIInv, StutterIInv
  <1>. QED  BY <1>1, <1>2, PTL DEF Spec

-----------------------------------------------------------------------------
(* What follows from it *)

\* The page has a socket in its state exactly while that socket is at work,
\* whenever Stop, Train and the events of the connection come (ProcessPage.js:1215).
THEOREM Tracked == Spec => []SocketTracked
  <1>1. IInv => SocketTracked  BY DEF IInv
  <1>. QED  BY <1>1, Inductive, PTL

\* The chart is a prefix of the latest log and whole in the end
\* (crowSocket.js:23-27, :76-81).
THEOREM Charted == Spec => []ChartIsLatest
  <1>1. IInv => ChartIsLatest  BY DEF IInv
  <1>. QED  BY <1>1, Inductive, PTL

\* modelInProcess is a lock for compiling, testing, predicting and training, as
\* long as nobody presses Stop and nothing fails (ProcessPage.js:1585, :1967).
THEOREM Locked == Spec => []OneOperation
  <1>1. IInv => OneOperation  BY DEF IInv
  <1>. QED  BY <1>1, Inductive, PTL

\* For a patient person a compiled network has parameters of its own shape, on
\* the page and in the database (ProcessPage.js:1185-1202, :674-689).
THEOREM Fitting == Spec => []FitWhenPatient
  <1>1. IInv => FitWhenPatient
    BY DEF IInv, FitWhenPatient, PageFits, StoreFits, SavesInv
  <1>. QED  BY <1>1, Inductive, PTL

\* What UploadsKept says of a step.
Kept == page # None /\ page' # None /\ ~ rash' =>
          /\ page.features => page'.features
          /\ page.labels => page'.labels

LEMMA AnswerKeeps ==
    ASSUME IInv, NEW k \in Calls, Answer(k)
    PROVE  Kept
  <1>. USE NoneAssumption DEF Kept, IInv, TypeOK, Page
  <1>1. ASSUME NEW shape \in Shapes, Parsed(k, shape)  PROVE Kept
    <2>1. CASE calls[k].kind = "features"
      BY <1>1, <2>1 DEF Parsed, UploadsInv, Pending
    <2>2. CASE calls[k].kind = "labels"
      <3>1. page' = [page EXCEPT !.labels = TRUE, !.features = calls[k].other]
        BY <1>1, <2>2 DEF Parsed
      <3>. QED  BY <1>1, <2>2, <3>1 DEF Parsed, UploadsInv, Pending
    <2>. QED  BY <1>1, <2>1, <2>2 DEF Parsed
  <1>2. CASE Read(k) \/ FetchFails(k)  BY <1>2 DEF Read, FetchFails
  <1>3. CASE Fetched(k)  BY <1>3 DEF Fetched, WithCompiled
  <1>4. CASE CompileAnswered(k) \/ CompileFails(k)
    <2>1. page' = page \/ calls[k].live
      BY <1>4, OfCompile DEF CompileAnswered, CompileFails, Update
    <2>2. CASE calls[k].live
      <3>1. page \in Page  BY <1>4, <2>2, OfCompile DEF CompileAnswered, CompileFails
      <3>2. CASE CompileAnswered(k)
        BY <3>1, <3>2, <2>2 DEF CompileAnswered, Update, WithCompiled
      <3>3. CASE CompileFails(k)
        BY <3>1, <3>3, <2>2 DEF CompileFails, Update, WithCompiled
      <3>. QED  BY <1>4, <3>2, <3>3
    <2>. QED  BY <2>1, <2>2
  <1>5. CASE Asked(k) \/ AskFails(k)  BY <1>5 DEF Asked, AskFails
  <1>6. CASE InfoSaved(k) \/ InfoFails(k) \/ StatusSaved(k) \/ StatusFails(k)
    BY <1>6 DEF InfoSaved, InfoFails, StatusSaved, StatusFails
  <1>. QED  BY <1>1, <1>2, <1>3, <1>4, <1>5, <1>6 DEF Answer

\* No upload of a person who waits is lost, although each of the two handlers
\* puts back the other half as it was when the file was chosen
\* (ProcessPage.js:1111, :1132).
THEOREM Uploads == Spec => UploadsKept
  <1>1. ASSUME IInv, [Next]_vars  PROVE Kept
    <2>. USE <1>1, NoneAssumption DEF Kept, IInv, TypeOK, Page
    <2>1. CASE Edit
      BY <2>1 DEF Edit, EditLayer, AddLayer, UploadFeatures, UploadLabels, Save,
                  WithCompiled
    <2>2. CASE Use
      BY <2>2 DEF Use, Leave, StopTraining, Mount, Compile, Ask, Train
    <2>3. ASSUME NEW s \in Sockets, SocketEvent(s)  PROVE Kept
      BY <2>3 DEF SocketEvent, Opened, Flush, Logged, Trained, Closed, Flushed
    <2>4. CASE UNCHANGED vars  BY <2>4 DEF vars
    <2>5. ASSUME NEW k \in Calls, Answer(k)  PROVE Kept
      BY <2>5, AnswerKeeps
    <2>. QED  BY <2>1, <2>2, <2>3, <2>4, <2>5 DEF Next
  <1>. QED  BY <1>1, Inductive, PTL DEF Spec, UploadsKept, Kept
=============================================================================
