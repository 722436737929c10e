------------------------------ MODULE Imaging ------------------------------
(***************************************************************************)
(* The images of the station, between the test thread and the dialog       *)
(* (ImProcChecker.cpp, Checker5678Dlg.cpp, myCameraClass.cpp).  Both grab   *)
(* from one camera: GrabOneImage fills the one buffer of the driver under  *)
(* g_criSection, the conversion reads that buffer after the lock is given  *)
(* back, and the result goes through ho_Image, a static of the class that  *)
(* all checkers share.  The test thread judges a copy of it and leaves the *)
(* contours of what it found in other members, from which it draws and by  *)
(* which it masks the next search.                                         *)
(*                                                                         *)
(* An image is who grabbed it and what stood on the fixture then.  What an *)
(* algorithm finds is a choice; on an empty fixture it finds the mark, and *)
(* no code, booklet or desiccant.  The record, the results shown and the   *)
(* outputs are those of Inspection.  MainProcess grabs no image.           *)
(***************************************************************************)
EXTENDS Integers

CONSTANTS
  Products,      \* what may stand on the fixture, one after the other
  Empty,         \* nothing stands on the fixture, or: no contour
  Builds,        \* which loop the test thread may have been built to run
  Habits,        \* does the operator press buttons without waiting for the station?
  HastyProducts  \* a bound: those of the products that such an operator handles

ASSUME ImagingAssumption ==
  /\ Empty \notin Products
  /\ Builds \subseteq {"Mainread", "Mainread2"}
  /\ Habits \subseteq BOOLEAN
  /\ HastyProducts \subseteq Products

VARIABLES
  build, hasty,       \* neither ever changes
  m_hTestEvent,       \* signalled?
  light,              \* output OUT_LIGHT_CAM
  fixture,            \* the product on the fixture, or Empty
  invited,            \* the station asked for a product after the last one
  pc,                 \* where the test thread and the dialog's thread are
  state,              \* of the test thread: -1 hold, 0 code, 1 accessories, 2 film
  check,              \* what the test thread grabs an image for
  button,             \* the handler the dialog's thread runs
  g_criSection,       \* who is in it
  m_pBufForDriver,    \* what the driver's buffer holds; NULL is NoImage
  buffers,            \* history: how many of them were allocated
  local,              \* per thread: the bytes ConvertoHalcon reads, the local image
  ho_Image,           \* the image all checkers share
  Imgsrc,             \* the copy the test thread judges
  g_hoBarCodeArea,    \* contours, by the product they were found on
  g_hoBlobArea,
  m_hoDeformShape

setting  == <<build, hasty>>
place    == <<fixture, invited>>
driver   == <<g_criSection, m_pBufForDriver, buffers>>
outer    == <<m_hTestEvent, light, place>>
contours == <<g_hoBarCodeArea, g_hoBlobArea, m_hoDeformShape>>
cycle    == <<state, check>>
images   == <<local, ho_Image, Imgsrc>>
vars     == <<setting, outer, pc, cycle, button, driver, images, contours>>

Threads == {"test", "dialog"}
Things  == Products \cup {Empty}

\* "before": the thread's own, of an earlier grab; "torn": overwritten while it
\* was read; "blank": a buffer no frame was written to.
Image(by, of) == [by |-> by, of |-> of]
NoImage == Image("none", Empty)
Images  == [by : Threads \cup {"none", "blank", "before", "file", "torn"},
            of : Things]

GrabPoints == {"grab", "inside", "malloc", "frame", "convert", "reading", "clone",
               "failed"}

TypeOK ==
  /\ build \in Builds /\ hasty \in Habits
  /\ m_hTestEvent \in BOOLEAN /\ light \in BOOLEAN
  /\ fixture \in Things /\ invited \in BOOLEAN
  /\ pc \in [Threads -> {"top", "dark", "wait", "step", "judge", "show", "cleared",
                         "idle", "starting", "measure"} \cup GrabPoints]
  /\ state \in -1..2
  /\ check \in {"code", "acc", "film", "stop"}
  /\ button \in {"capture", "measure"}
  /\ g_criSection \in Threads \cup {"free"}
  /\ m_pBufForDriver \in Images
  /\ buffers \in Nat
  /\ local \in [Threads -> Images]
  /\ ho_Image \in Images /\ Imgsrc \in Images
  /\ g_hoBarCodeArea \in Things /\ g_hoBlobArea \in Things
  /\ m_hoDeformShape \in Things

\* The camera is open, and the test thread has timed out once.
Init ==
  /\ build \in Builds /\ hasty \in Habits
  /\ m_hTestEvent = FALSE /\ light = FALSE
  /\ fixture = Empty /\ invited = FALSE
  /\ pc = [t \in Threads |-> IF t = "test" THEN "wait" ELSE "idle"]
  /\ state = 0 /\ check = "code" /\ button = "capture"
  /\ g_criSection = "free" /\ m_pBufForDriver = NoImage /\ buffers = 0
  /\ local = [t \in Threads |-> NoImage]
  /\ ho_Image = NoImage /\ Imgsrc = NoImage
  /\ g_hoBarCodeArea = Empty /\ g_hoBlobArea = Empty /\ m_hoDeformShape = Empty

At(t, p)   == pc[t] = p
Goto(t, p) == pc' = [pc EXCEPT ![t] = p]

-----------------------------------------------------------------------------
(* Grabbing: GrabOneImage under the lock, then ConvertoHalcon without it.  *)

\* What this thread grabbed so far becomes an image of before.
Aged(img, t) == IF img.by = t THEN Image("before", img.of) ELSE img

\* Mutant: a thread does not wait for the lock.
MutLock(t) ==
  /\ At(t, "grab")
  /\ g_criSection' = t
  /\ m_pBufForDriver' = Aged(m_pBufForDriver, t)
  /\ ho_Image' = Aged(ho_Image, t)
  /\ local' = [u \in Threads |-> Aged(local[u], t)]
  /\ Goto(t, "inside")
  /\ UNCHANGED <<setting, outer, cycle, button, buffers,
                 Imgsrc, contours>>

Lock(t) ==
  /\ At(t, "grab") /\ g_criSection = "free"
  /\ g_criSection' = t
  /\ m_pBufForDriver' = Aged(m_pBufForDriver, t)
  /\ ho_Image' = Aged(ho_Image, t)
  /\ local' = [u \in Threads |-> Aged(local[u], t)]
  /\ Goto(t, "inside")
  /\ UNCHANGED <<setting, outer, cycle, button, buffers,
                 Imgsrc, contours>>

\* The first grab of all allocates the buffer.
LookForBuffer(t) ==
  /\ At(t, "inside")
  /\ Goto(t, IF m_pBufForDriver = NoImage THEN "malloc" ELSE "frame")
  /\ UNCHANGED <<setting, outer, cycle, button, driver,
                 images, contours>>

Allocate(t) ==
  /\ At(t, "malloc")
  /\ m_pBufForDriver' = Image("blank", Empty)
  /\ buffers' = buffers + 1
  /\ Goto(t, "frame")
  /\ UNCHANGED <<setting, outer, cycle, button,
                 g_criSection, images, contours>>

\* GetOneFrameTimeout delivers, and the lock is given back.
Frame(t) ==
  /\ At(t, "frame")
  /\ m_pBufForDriver' = Image(t, fixture)
  /\ g_criSection' = "free"
  /\ Goto(t, "convert")
  /\ UNCHANGED <<setting, outer, cycle, button, buffers,
                 images, contours>>

\* Not grabbing, no payload size, no memory, or no frame within a second.
NoFrame(t) ==
  /\ pc[t] \in {"inside", "malloc", "frame"}
  /\ g_criSection' = "free"
  /\ Goto(t, "failed")
  /\ UNCHANGED <<setting, outer, cycle, button,
                 m_pBufForDriver, buffers, images, contours>>

\* The conversion begins to read the driver's buffer.  GrabImageFromCam clears
\* ho_Image first, GrabOneAndShow converts to an image of its own.
Convert(t) ==
  /\ At(t, "convert")
  /\ local' = [local EXCEPT ![t] = m_pBufForDriver]
  /\ ho_Image' = IF t = "test" THEN NoImage ELSE ho_Image
  /\ Goto(t, "reading")
  /\ UNCHANGED <<setting, outer, cycle, button, driver,
                 Imgsrc, contours>>

\* What was read, if another frame came meanwhile.
Read(t) == IF m_pBufForDriver = local[t] THEN local[t]
                                         ELSE Image("torn", m_pBufForDriver.of)

Converted(t) ==
  /\ At(t, "reading")
  /\ IF t = "test" THEN ho_Image' = Read(t) /\ UNCHANGED local
                   ELSE local' = [local EXCEPT ![t] = Read(t)] /\ UNCHANGED ho_Image
  /\ Goto(t, "clone")
  /\ UNCHANGED <<setting, outer, cycle, button, driver,
                 Imgsrc, contours>>

\* A pixel format or a conversion that fails; GrabOneAndShow notices it by the
\* exception when it displays the image.
NotConverted(t) ==
  /\ At(t, "reading")
  /\ local' = [local EXCEPT ![t] = NoImage]
  /\ Goto(t, "failed")
  /\ UNCHANGED <<setting, outer, cycle, button, driver, ho_Image, Imgsrc, contours>>

\* The end of GrabImageFromCam.
CloneForTest ==
  /\ At("test", "clone")
  /\ Imgsrc' = ho_Image
  /\ local' = [local EXCEPT !["test"] = NoImage]
  /\ Goto("test", IF ho_Image = NoImage THEN "failed" ELSE "judge")
  /\ UNCHANGED <<setting, outer, cycle, button, driver, ho_Image, contours>>

\* The end of GrabOneAndShow.
CloneForDialog ==
  /\ At("dialog", "clone")
  /\ ho_Image' = local["dialog"]
  /\ local' = [local EXCEPT !["dialog"] = NoImage]
  /\ Goto("dialog", IF button = "measure" THEN "measure" ELSE "idle")
  /\ UNCHANGED <<setting, outer, cycle, button, driver, Imgsrc, contours>>

Grab(t) == \/ Lock(t) \/ LookForBuffer(t) \/ Allocate(t) \/ Frame(t) \/ NoFrame(t)
           \/ Convert(t) \/ Converted(t) \/ NotConverted(t)

-----------------------------------------------------------------------------
(* The test thread: one round of Mainread or Mainread2.                    *)

\* WaitForSingleObject(m_hTestEvent, 20); a time-out abandons the cycle.
Top ==
  /\ At("test", "top")
  /\ Goto("test", IF m_hTestEvent THEN "wait" ELSE "dark")
  /\ UNCHANGED <<setting, outer, cycle, button, driver, images, contours>>

Dark ==
  /\ At("test", "dark")
  /\ light' = FALSE /\ state' = 0
  /\ Goto("test", "wait")
  /\ UNCHANGED <<setting, m_hTestEvent, place, check, button, driver, images,
                 contours>>

Proceed ==
  /\ At("test", "wait") /\ m_hTestEvent
  /\ Goto("test", "step")
  /\ UNCHANGED <<setting, outer, cycle, button, driver, images, contours>>

\* Grab an image for this check.
Ask(for) == check' = for /\ Goto("test", "grab")

\* Mutant: the new cycle keeps the area of the code of the one before.
MutNewCycle ==
  /\ At("test", "step") /\ state = 0
  /\ g_hoBlobArea' = Empty /\ m_hoDeformShape' = Empty
  /\ \/ state' = 0 /\ Ask("code")
     \/ state' = 1 /\ Ask("stop")
  /\ UNCHANGED <<setting, outer, button, driver, images, g_hoBarCodeArea>>

\* state 0: all contours are cleared; the code is read unless its box is not
\* ticked.
NewCycle ==
  /\ At("test", "step") /\ state = 0
  /\ g_hoBarCodeArea' = Empty /\ g_hoBlobArea' = Empty /\ m_hoDeformShape' = Empty
  /\ \/ state' = 0 /\ Ask("code")
     \/ state' = 1 /\ Ask("stop")
  /\ UNCHANGED <<setting, outer, button, driver, images>>

\* The other states; a check whose box is not ticked is passed over.
BeginCheck ==
  /\ At("test", "step")
  /\ \/ state = -1 /\ UNCHANGED state /\ Ask("stop")
     \/ state = 1 /\ UNCHANGED state /\ Ask("acc")
     \/ state = 1 /\ state' = 2 /\ Ask("stop")
     \/ state = 2 /\ UNCHANGED state /\ Ask("film")
     \/ state = 2 /\ state' = 0 /\ Ask("stop")
  /\ UNCHANGED <<setting, outer, button, driver, images, contours>>

\* A product is found only in an image that shows one, the mark of the fixture
\* only in one that does not.
Finds(img) == IF img.of = Empty THEN {FALSE} ELSE BOOLEAN
SeesMark(img) == IF img.of = Empty THEN BOOLEAN ELSE {FALSE}

\* The test thread reports by SendMessage, which waits for an idle dialog.
Judging(what) ==
  /\ At("test", "judge") /\ check = what
  /\ Imgsrc' = NoImage
  /\ UNCHANGED <<setting, button, driver, local, ho_Image>>
Reports == At("dialog", "idle")

\* A code that is too short fails the check and leaves its area all the same.
CheckBarcode ==
  /\ Judging("code") /\ Reports
  /\ \E found \in Finds(Imgsrc), long \in BOOLEAN :
       /\ g_hoBarCodeArea' = IF found THEN Imgsrc.of ELSE g_hoBarCodeArea
       /\ state' = IF found /\ long THEN 1 ELSE 0
  /\ Ask("stop")
  /\ UNCHANGED <<outer, g_hoBlobArea, m_hoDeformShape>>

\* CheckDeformShape for the booklet and CheckBlob, outside the area of the code,
\* for the desiccant: a part that is missing loses its contour.
CheckAccessary ==
  /\ Judging("acc") /\ Reports
  /\ \E book \in Finds(Imgsrc), dry \in Finds(Imgsrc) :
       /\ m_hoDeformShape' = IF book THEN Imgsrc.of ELSE Empty
       /\ g_hoBlobArea' = IF dry THEN Imgsrc.of ELSE Empty
       /\ state' = CASE ~(book /\ dry)     -> 1
                     [] build = "Mainread" -> -1
                     [] OTHER              -> 2
  /\ Goto("test", "show")
  /\ UNCHANGED <<outer, check, g_hoBarCodeArea>>

\* CheckGray: the whole image is bright enough for a film, whatever it shows.
CheckCovery ==
  /\ Judging("film")
  /\ \E ok \in BOOLEAN : state' = IF ok THEN -1 ELSE 2
  /\ Goto("test", "show")
  /\ UNCHANGED <<outer, check, contours>>

\* CheckShape with the mark of the empty fixture.
CheckStop ==
  /\ Judging("stop")
  /\ \/ TRUE \in SeesMark(Imgsrc) /\ state' = 0 /\ Goto("test", "cleared")
     \/ UNCHANGED state /\ Goto("test", "show")
  /\ UNCHANGED <<outer, check, contours>>

\* No image: nothing is found, and nothing that was found is cleared.
NoImageForTest ==
  /\ At("test", "failed")
  /\ IF check = "code" THEN Reports /\ Ask("stop")
                       ELSE Goto("test", "show") /\ UNCHANGED check
  /\ UNCHANGED <<setting, outer, state, button, driver, images, contours>>

\* showContour, after a check of the product, whose outcome is then reported, and
\* at the end of a round.
ShowContour ==
  /\ At("test", "show")
  /\ IF check = "stop" THEN Goto("test", "top") /\ UNCHANGED check
                       ELSE Reports /\ Ask("stop")
  /\ UNCHANGED <<setting, outer, state, button, driver, images, contours>>

\* The dialog is told that the station waits for a product.
Cleared ==
  /\ At("test", "cleared") /\ Reports
  /\ invited' = (fixture = Empty)
  /\ Goto("test", "top")
  /\ UNCHANGED <<setting, m_hTestEvent, light, fixture, cycle, button, driver,
                 images, contours>>

TestStep ==
  \/ Top \/ Dark \/ Proceed \/ NewCycle \/ BeginCheck
  \/ CheckBarcode \/ CheckAccessary \/ CheckCovery \/ CheckStop
  \/ NoImageForTest \/ ShowContour \/ Cleared
  \/ Grab("test") \/ CloneForTest

-----------------------------------------------------------------------------
(* The dialog's thread, and the operator's hands.                          *)

\* A careful operator of a stopped station waits for the light to go out.
Idle == At("dialog", "idle")
Rests == ~m_hTestEvent /\ (hasty \/ ~light)

Start ==
  /\ Idle /\ Rests
  /\ light' = TRUE
  /\ Goto("dialog", "starting")
  /\ UNCHANGED <<setting, m_hTestEvent, place, cycle, button, driver, images,
                 contours>>

StartSignal ==
  /\ At("dialog", "starting")
  /\ m_hTestEvent' = TRUE
  /\ Goto("dialog", "idle")
  /\ UNCHANGED <<setting, light, place, cycle, button, driver, images, contours>>

\* Mutant: the Stop button puts out the light that the test thread sees by.
MutStop ==
  /\ Idle /\ m_hTestEvent
  /\ m_hTestEvent' = FALSE /\ light' = FALSE
  /\ UNCHANGED <<setting, place, pc, cycle, button, driver, images, contours>>

Stop ==
  /\ Idle /\ m_hTestEvent
  /\ m_hTestEvent' = FALSE
  /\ UNCHANGED <<setting, light, place, pc, cycle, button, driver, images, contours>>

\* The grab button refuses a running station, the measuring button does not.
Press(b) ==
  /\ Idle /\ (Rests \/ (b = "measure" /\ hasty))
  /\ button' = b
  /\ Goto("dialog", "grab")
  /\ UNCHANGED <<setting, outer, cycle, driver, images, contours>>

\* GrabOneAndShow returned false, or the image was measured.
Done ==
  /\ pc["dialog"] \in {"failed", "measure"}
  /\ Goto("dialog", "idle")
  /\ UNCHANGED <<setting, outer, cycle, button, driver, images, contours>>

\* A file shows no product of the fixture.
GrabImageFromFile ==
  /\ Idle /\ Rests
  /\ ho_Image' = Image("file", Empty)
  /\ UNCHANGED <<setting, outer, pc, cycle, button, driver, local, Imgsrc, contours>>

DialogStep ==
  \/ Start \/ StartSignal \/ Stop
  \/ Press("capture") \/ Press("measure") \/ Done \/ GrabImageFromFile
  \/ Grab("dialog") \/ CloneForDialog

\* A careful operator fills the fixture when asked to, or when all is dark.
Load(p) ==
  /\ fixture = Empty /\ (hasty => p \in HastyProducts)
  /\ invited \/ ~(m_hTestEvent \/ light)
  /\ fixture' = p /\ invited' = FALSE
  /\ UNCHANGED <<setting, m_hTestEvent, light, pc, cycle, button, driver, images,
                 contours>>

Unload ==
  /\ fixture # Empty
  /\ fixture' = Empty
  /\ UNCHANGED <<setting, m_hTestEvent, light, invited, pc, cycle, button, driver,
                 images, contours>>

Next == TestStep \/ DialogStep \/ Unload \/ \E p \in Products : Load(p)

Spec == Init /\ [][Next]_vars

-----------------------------------------------------------------------------
(* Properties.                                                             *)

\* The driver's buffer is allocated once, although both threads may be about to
\* grab the first image: the test for NULL and the allocation are not parted.
OneBuffer == buffers <= 1

\* Each thread uses the image it took for the purpose, whole and of the product
\* that is still there, unless it was taken away since, although buffer and
\* ho_Image are shared and the lock covers neither conversion nor use.  This holds
\* of the operator who waits for the light to go out, by which the test thread
\* tells that it uses no image any more.
OwnImage ==
  ~hasty =>
    /\ At("test", "judge") =>
         /\ Imgsrc.by = "test"
         /\ Imgsrc.of # Empty /\ fixture # Empty => Imgsrc.of = fixture
    /\ At("dialog", "measure") => ho_Image.by = "dialog"

\* What is drawn into the picture of a product, and the area that is left out of
\* the search for its desiccant, was found on this product.
ContoursOfProduct ==
  /\ ~hasty /\ fixture # Empty
  /\ At("test", "show") \/ (At("test", "judge") /\ check = "acc")
  => {g_hoBarCodeArea, g_hoBlobArea, m_hoDeformShape} \subseteq {Empty, fixture}

-----------------------------------------------------------------------------
(* What this implements: see Snapshots.                                    *)

\* The image that a thread carries from the frame to its use, wherever it is.
Holding(t) == pc[t] \in {"convert", "reading", "clone", "judge", "measure"}
Held(t) == CASE At(t, "convert") -> m_pBufForDriver
             [] At(t, "reading") -> local[t]
             [] At(t, "clone")   -> IF t = "test" THEN ho_Image ELSE local[t]
             [] At(t, "judge")   -> Imgsrc
             [] OTHER            -> ho_Image
Picture(t) == IF Holding(t) THEN {Held(t)} ELSE {}

\* Contours that the next round clears before it uses them.
Stale == state = 0 /\ pc["test"] \in {"top", "dark", "wait", "step", "cleared"}
Marks == IF Stale THEN {} ELSE {g_hoBarCodeArea, g_hoBlobArea, m_hoDeformShape} \ {Empty}

Shots == INSTANCE Snapshots WITH
  Inspector <- "test",
  careful   <- ~hasty,
  picture   <- [t \in Threads |-> Picture(t)],
  marks     <- Marks

\* The path of an image through the driver's buffer, which the next grab
\* overwrites, the bytes that the conversion reads and ho_Image, which both
\* threads write and clear, is one instant to its thread: it judges or measures
\* what stood there when its own frame came.  The contours it leaves are of the
\* product of such an image, and the next product meets neither.
ImplementsSnapshots == Shots!Spec
=============================================================================
