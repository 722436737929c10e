--------------------------- MODULE ImagingProofs ---------------------------
(***************************************************************************)
(* Theorems about Imaging: the driver's buffer is allocated once whatever  *)
(* the operator does, and with an operator who waits for the light each    *)
(* thread uses its own image of the product that is there, and contours    *)
(* are drawn only on the product they were found on: the images are the    *)
(* snapshots of Snapshots, each true to what was there when it was made.   *)
(***************************************************************************)
EXTENDS Imaging, TLAPS

\* The lock guards the test for NULL, the allocation and the frame.
LockHeld == \A t \in Threads : pc[t] \in {"inside", "malloc", "frame"} => g_criSection = t

\* A buffer is there exactly if one was allocated.
BufferCounted ==
  /\ buffers <= 1
  /\ m_pBufForDriver = NoImage => buffers = 0
  /\ \A t \in Threads : pc[t] = "malloc" => m_pBufForDriver = NoImage

BufferInv == TypeOK /\ LockHeld /\ BufferCounted

\* What the light tells a careful operator: while it is out the test thread rests.
\* In these three the operator is careful.
Working == pc["dialog"] \notin {"idle", "starting"}
LightTells ==
  /\ m_hTestEvent => light
  /\ pc["test"] # "wait" \/ state # 0 => light
  /\ pc["test"] = "dark" => ~m_hTestEvent
  /\ pc["test"] = "cleared" => state = 0
  /\ Working => ~light
  /\ pc["dialog"] = "starting" => /\ light /\ ~m_hTestEvent
                                /\ pc["test"] = "wait" /\ state = 0
  /\ invited => fixture = Empty

\* A product on an image of the round can only have been taken away since.
Current(of) == of # Empty => ~invited /\ fixture \in {Empty, of}

\* The image that a thread holds, from the frame to its use.
TestHolds ==
  /\ pc["test"] = "convert" => m_pBufForDriver.by = "test" /\ Current(m_pBufForDriver.of)
  /\ pc["test"] = "reading" => /\ local["test"] = m_pBufForDriver
                               /\ local["test"].by = "test" /\ Current(local["test"].of)
  /\ pc["test"] = "clone" => ho_Image.by = "test" /\ Current(ho_Image.of)
  /\ pc["test"] = "judge" => Imgsrc.by = "test" /\ Current(Imgsrc.of)
  /\ pc["test"] # "measure"

DialogHolds ==
  /\ pc["dialog"] = "convert" => m_pBufForDriver.by = "dialog"
  /\ pc["dialog"] = "reading" => /\ local["dialog"] = m_pBufForDriver
                                 /\ local["dialog"].by = "dialog"
  /\ pc["dialog"] = "clone" => local["dialog"].by = "dialog"
  /\ pc["dialog"] = "measure" => ho_Image.by = "dialog"

ContoursCurrent ==
  ~Stale => Current(g_hoBarCodeArea) /\ Current(g_hoBlobArea) /\ Current(m_hoDeformShape)

CarefulInv ==
  ~hasty => LightTells /\ TestHolds /\ DialogHolds /\ ContoursCurrent
IInv == BufferInv /\ CarefulInv

-----------------------------------------------------------------------------

\* What the operators of Imaging make of images, without their definitions.
LEMMA ImageFacts ==
  /\ NoImage \in Images /\ NoImage.by = "none" /\ NoImage.of = Empty
  /\ Image("blank", Empty) \in Images /\ Image("blank", Empty) # NoImage
  /\ Image("file", Empty) \in Images
  /\ \A t \in Threads, of \in Things :
       /\ Image(t, of) \in Images /\ Image(t, of).by = t /\ Image(t, of).of = of
       /\ Image(t, of) # NoImage
  /\ \A img \in Images : img.of \in Things
BY DEF NoImage, Image, Images, Threads, Things

\* When t takes a frame only t's images change, and they keep their product.
LEMMA AgedFacts ==
  ASSUME NEW img \in Images, NEW t \in Threads
  PROVE  /\ Aged(img, t) \in Images
         /\ Aged(img, t) = NoImage <=> img = NoImage
         /\ Aged(img, t).of = img.of
         /\ img.by # t => Aged(img, t) = img
BY DEF Aged, NoImage, Image, Images, Threads, Things

\* What a conversion yields is an image, and the one of the frame if nobody wrote meanwhile.
LEMMA ReadFacts ==
  ASSUME TypeOK, NEW t \in Threads
  PROVE  /\ Read(t) \in Images
         /\ local[t] = m_pBufForDriver => Read(t) = local[t]
BY DEF TypeOK, Read, Image, Images, Threads, Things

\* The types of the parts that the steps change together.
ControlTyped ==
  /\ build \in Builds /\ hasty \in Habits
  /\ m_hTestEvent \in BOOLEAN /\ light \in BOOLEAN
  /\ fixture \in Things /\ invited \in BOOLEAN
  /\ pc \in [Threads -> {"top", "dark", "wait", "step", "judge", "show", "cleared",
                         "idle", "starting", "measure"} \cup GrabPoints]
  /\ state \in -1..2
  /\ check \in {"code", "acc", "film", "stop"}
  /\ button \in {"capture", "measure"}

ImagesTyped ==
  /\ g_criSection \in Threads \cup {"free"}
  /\ m_pBufForDriver \in Images
  /\ buffers \in Nat
  /\ local \in [Threads -> Images]
  /\ ho_Image \in Images /\ Imgsrc \in Images
  /\ g_hoBarCodeArea \in Things /\ g_hoBlobArea \in Things
  /\ m_hoDeformShape \in Things

\* TypeOK in two halves: the control and the images.
LEMMA TypeParts == TypeOK <=> ControlTyped /\ ImagesTyped
BY DEF TypeOK, ControlTyped, ImagesTyped

\* TypeOK holds at the start.
LEMMA InitType == Init => TypeOK
<1> SUFFICES ASSUME Init PROVE TypeOK
  OBVIOUS
<1>1. ControlTyped
  <2>1. m_hTestEvent \in BOOLEAN /\ light \in BOOLEAN /\ invited \in BOOLEAN
    BY Zenon DEF Init
  <2>2. state \in -1..2 /\ fixture \in Things
    BY DEF Init, Things
  <2>3. QED
    BY <2>1, <2>2 DEF Init, ControlTyped, Threads
<1>2. ImagesTyped
  BY ImageFacts DEF Init, ImagesTyped, Threads, Things
<1>3. QED
  BY <1>1, <1>2, TypeParts

\* Every step keeps TypeOK.
LEMMA TypeStep == ASSUME TypeOK, [Next]_vars PROVE TypeOK'
<1>1. ASSUME NEW t \in Threads, Lock(t) PROVE TypeOK'
  <2>1. ControlTyped'
    BY <1>1, TypeParts
       DEF Lock, ControlTyped, Goto, setting, outer, place, cycle, GrabPoints
  <2>2. ImagesTyped'
    BY <1>1, TypeParts, AgedFacts DEF Lock, ImagesTyped, contours
  <2>3. QED
    BY <2>1, <2>2 DEF TypeOK, ControlTyped, ImagesTyped
<1>2. ASSUME NEW t \in Threads, LookForBuffer(t) PROVE TypeOK'
  <2>1. ControlTyped'
    BY <1>2, TypeParts
       DEF LookForBuffer, ControlTyped, Goto, setting, outer, place, cycle, GrabPoints
  <2>2. ImagesTyped'
    BY <1>2, TypeParts DEF LookForBuffer, ImagesTyped, driver, contours, images
  <2>3. QED
    BY <2>1, <2>2 DEF TypeOK, ControlTyped, ImagesTyped
<1>3. ASSUME NEW t \in Threads, Allocate(t) PROVE TypeOK'
  <2>1. ControlTyped'
    BY <1>3, TypeParts
       DEF Allocate, ControlTyped, Goto, setting, outer, place, cycle, GrabPoints
  <2>2. ImagesTyped'
    <3>1. m_pBufForDriver' \in Images /\ buffers' \in Nat
      BY <1>3, TypeParts, ImageFacts DEF Allocate, ImagesTyped
    <3>2. QED
      BY <1>3, <3>1, TypeParts DEF Allocate, ImagesTyped, images, contours
  <2>3. QED
    BY <2>1, <2>2 DEF TypeOK, ControlTyped, ImagesTyped
<1>4. ASSUME NEW t \in Threads, Frame(t) PROVE TypeOK'
  <2>1. ControlTyped'
    BY <1>4, TypeParts
       DEF Frame, ControlTyped, Goto, setting, outer, place, cycle, GrabPoints
  <2>2. ImagesTyped'
    BY <1>4, TypeParts, ImageFacts
       DEF Frame, ControlTyped, ImagesTyped, contours, images
  <2>3. QED
    BY <2>1, <2>2 DEF TypeOK, ControlTyped, ImagesTyped
<1>5. ASSUME NEW t \in Threads, NoFrame(t) PROVE TypeOK'
  <2>1. ControlTyped'
    BY <1>5, TypeParts
       DEF NoFrame, ControlTyped, Goto, setting, outer, place, cycle, GrabPoints
  <2>2. ImagesTyped'
    BY <1>5, TypeParts DEF NoFrame, ImagesTyped, contours, images
  <2>3. QED
    BY <2>1, <2>2 DEF TypeOK, ControlTyped, ImagesTyped
<1>6. ASSUME NEW t \in Threads, Convert(t) PROVE TypeOK'
  <2>1. ControlTyped'
    BY <1>6, TypeParts
       DEF Convert, ControlTyped, Goto, setting, outer, place, cycle, GrabPoints
  <2>2. ImagesTyped'
    BY <1>6, TypeParts, ImageFacts DEF Convert, ImagesTyped, driver, contours
  <2>3. QED
    BY <2>1, <2>2 DEF TypeOK, ControlTyped, ImagesTyped
<1>7. ASSUME NEW t \in Threads, Converted(t) PROVE TypeOK'
  <2>1. ControlTyped'
    BY <1>7, TypeParts
       DEF Converted, ControlTyped, Goto, setting, outer, place, cycle, GrabPoints
  <2>2. ImagesTyped'
    <3>1. Read(t) \in Images
      BY ReadFacts
    <3>2. local' \in [Threads -> Images] /\ ho_Image' \in Images
      <4>1. CASE t = "test"
        BY <1>7, <3>1, <4>1, TypeParts DEF Converted, ImagesTyped
      <4>2. CASE t # "test"
        BY <1>7, <3>1, <4>2, TypeParts DEF Converted, ImagesTyped
      <4>3. QED
        BY <4>1, <4>2
    <3>3. QED
      BY <1>7, <3>2, TypeParts DEF Converted, ImagesTyped, driver, contours
  <2>3. QED
    BY <2>1, <2>2 DEF TypeOK, ControlTyped, ImagesTyped
<1>8. ASSUME NEW t \in Threads, NotConverted(t) PROVE TypeOK'
  <2>1. ControlTyped'
    BY <1>8, TypeParts
       DEF NotConverted, ControlTyped, Goto, setting, outer, place, cycle, GrabPoints
  <2>2. ImagesTyped'
    BY <1>8, TypeParts, ImageFacts DEF NotConverted, ImagesTyped, driver, contours
  <2>3. QED
    BY <2>1, <2>2 DEF TypeOK, ControlTyped, ImagesTyped
<1>9. CASE CloneForTest
  <2>1. ControlTyped'
    BY <1>9, TypeParts
       DEF CloneForTest, ControlTyped, Goto, setting, outer, place, cycle, GrabPoints
  <2>2. ImagesTyped'
    BY <1>9, TypeParts, ImageFacts DEF CloneForTest, ImagesTyped, driver, contours
  <2>3. QED
    BY <2>1, <2>2 DEF TypeOK, ControlTyped, ImagesTyped
<1>10. CASE CloneForDialog
  <2>1. ControlTyped'
    BY <1>10, TypeParts
       DEF CloneForDialog, ControlTyped, Goto, setting, outer, place, cycle
  <2>2. ImagesTyped'
    BY <1>10, TypeParts, ImageFacts
       DEF CloneForDialog, ImagesTyped, driver, contours, Threads
  <2>3. QED
    BY <2>1, <2>2 DEF TypeOK, ControlTyped, ImagesTyped
<1>11. CASE Top
  <2>1. ControlTyped'
    BY <1>11, TypeParts DEF Top, ControlTyped, Goto, setting, outer, place, cycle
  <2>2. ImagesTyped'
    BY <1>11, TypeParts DEF Top, ImagesTyped, driver, contours, images
  <2>3. QED
    BY <2>1, <2>2 DEF TypeOK, ControlTyped, ImagesTyped
<1>12. CASE Dark
  <2>1. ControlTyped'
    <3>1. light' \in BOOLEAN
      BY <1>12, Zenon DEF Dark
    <3>2. state' = 0
      BY <1>12, Zenon DEF Dark
    <3>3. UNCHANGED <<setting, m_hTestEvent, place, check, button>>
      BY <1>12, Zenon DEF Dark
    <3>4. pc' = [pc EXCEPT !["test"] = "wait"]
      BY <1>12, Zenon DEF Dark, Goto
    <3>5. QED
      BY <3>1, <3>2, <3>3, <3>4, TypeParts
         DEF ControlTyped, setting, place, GrabPoints, Threads
  <2>2. ImagesTyped'
    BY <1>12, TypeParts DEF Dark, ImagesTyped, driver, contours, images
  <2>3. QED
    BY <2>1, <2>2 DEF TypeOK, ControlTyped, ImagesTyped
<1>13. CASE Proceed
  <2>1. ControlTyped'
    BY <1>13, TypeParts DEF Proceed, ControlTyped, Goto, setting, outer, place, cycle
  <2>2. ImagesTyped'
    BY <1>13, TypeParts DEF Proceed, ImagesTyped, driver, contours, images
  <2>3. QED
    BY <2>1, <2>2 DEF TypeOK, ControlTyped, ImagesTyped
<1>14. CASE NewCycle
  <2>1. ControlTyped'
    BY <1>14, TypeParts
       DEF NewCycle, ControlTyped, Goto, Ask, setting, outer, place, GrabPoints
  <2>2. ImagesTyped'
    BY <1>14, TypeParts, ImageFacts DEF NewCycle, ImagesTyped, driver, images
  <2>3. QED
    BY <2>1, <2>2 DEF TypeOK, ControlTyped, ImagesTyped
<1>15. CASE BeginCheck
  <2>1. ControlTyped'
    BY <1>15, TypeParts
       DEF BeginCheck, ControlTyped, Goto, Ask, setting, outer, place, GrabPoints
  <2>2. ImagesTyped'
    BY <1>15, TypeParts DEF BeginCheck, ImagesTyped, driver, contours, images
  <2>3. QED
    BY <2>1, <2>2 DEF TypeOK, ControlTyped, ImagesTyped
<1>16. CASE CheckBarcode
  <2>1. ControlTyped'
    BY <1>16, TypeParts
       DEF CheckBarcode, ControlTyped, Goto, Ask, Judging, setting, outer, place,
           GrabPoints, Threads
  <2>2. ImagesTyped'
    BY <1>16, TypeParts, ImageFacts DEF CheckBarcode, ImagesTyped, Judging, driver
  <2>3. QED
    BY <2>1, <2>2 DEF TypeOK, ControlTyped, ImagesTyped
<1>17. CASE CheckAccessary
  <2>1. ControlTyped'
    BY <1>17, TypeParts
       DEF CheckAccessary, ControlTyped, Goto, Judging, setting, outer, place, Threads
  <2>2. ImagesTyped'
    BY <1>17, TypeParts, ImageFacts DEF CheckAccessary, ImagesTyped, Judging, driver
  <2>3. QED
    BY <2>1, <2>2 DEF TypeOK, ControlTyped, ImagesTyped
<1>18. CASE CheckCovery
  <2>1. ControlTyped'
    BY <1>18, TypeParts
       DEF CheckCovery, ControlTyped, Goto, Judging, setting, outer, place, Threads
  <2>2. ImagesTyped'
    BY <1>18, TypeParts, ImageFacts
       DEF CheckCovery, ImagesTyped, Judging, driver, contours
  <2>3. QED
    BY <2>1, <2>2 DEF TypeOK, ControlTyped, ImagesTyped
<1>19. CASE CheckStop
  <2>1. ControlTyped'
    <3>1. state' = 0 \/ state' = state
      BY <1>19, Zenon DEF CheckStop
    <3>2. pc' = [pc EXCEPT !["test"] = "cleared"] \/ pc' = [pc EXCEPT !["test"] = "show"]
      BY <1>19, Zenon DEF CheckStop, Goto
    <3>3. UNCHANGED <<setting, outer, check, button>>
      BY <1>19, Zenon DEF CheckStop, Judging
    <3>4. QED
      BY <3>1, <3>2, <3>3, TypeParts
         DEF ControlTyped, setting, outer, place, Threads
  <2>2. ImagesTyped'
    BY <1>19, TypeParts, ImageFacts
       DEF CheckStop, ImagesTyped, Judging, driver, contours
  <2>3. QED
    BY <2>1, <2>2 DEF TypeOK, ControlTyped, ImagesTyped
<1>20. CASE NoImageForTest
  <2>1. ControlTyped'
    BY <1>20, TypeParts
       DEF NoImageForTest, ControlTyped, Goto, Ask, setting, outer, place, GrabPoints
  <2>2. ImagesTyped'
    BY <1>20, TypeParts DEF NoImageForTest, ImagesTyped, driver, contours, images
  <2>3. QED
    BY <2>1, <2>2 DEF TypeOK, ControlTyped, ImagesTyped
<1>21. CASE ShowContour
  <2>1. ControlTyped'
    BY <1>21, TypeParts
       DEF ShowContour, ControlTyped, Goto, Ask, setting, outer, place, GrabPoints
  <2>2. ImagesTyped'
    BY <1>21, TypeParts DEF ShowContour, ImagesTyped, driver, contours, images
  <2>3. QED
    BY <2>1, <2>2 DEF TypeOK, ControlTyped, ImagesTyped
<1>22. CASE Cleared
  <2>1. ControlTyped'
    BY <1>22, TypeParts DEF Cleared, ControlTyped, Goto, setting, cycle
  <2>2. ImagesTyped'
    BY <1>22, TypeParts DEF Cleared, ImagesTyped, driver, contours, images
  <2>3. QED
    BY <2>1, <2>2 DEF TypeOK, ControlTyped, ImagesTyped
<1>23. CASE Start
  <2>1. ControlTyped'
    BY <1>23, TypeParts DEF Start, ControlTyped, Goto, setting, place, cycle
  <2>2. ImagesTyped'
    BY <1>23, TypeParts DEF Start, ImagesTyped, driver, contours, images
  <2>3. QED
    BY <2>1, <2>2 DEF TypeOK, ControlTyped, ImagesTyped
<1>24. CASE StartSignal
  <2>1. ControlTyped'
    BY <1>24, TypeParts DEF StartSignal, ControlTyped, Goto, setting, place, cycle
  <2>2. ImagesTyped'
    BY <1>24, TypeParts DEF StartSignal, ImagesTyped, driver, contours, images
  <2>3. QED
    BY <2>1, <2>2 DEF TypeOK, ControlTyped, ImagesTyped
<1>25. CASE Stop
  <2>1. ControlTyped'
    BY <1>25, TypeParts DEF Stop, ControlTyped, setting, place, cycle
  <2>2. ImagesTyped'
    BY <1>25, TypeParts DEF Stop, ImagesTyped, driver, contours, images
  <2>3. QED
    BY <2>1, <2>2 DEF TypeOK, ControlTyped, ImagesTyped
<1>26. ASSUME NEW b \in {"capture", "measure"}, Press(b) PROVE TypeOK'
  <2>1. ControlTyped'
    BY <1>26, TypeParts
       DEF Press, ControlTyped, Goto, setting, outer, place, cycle, GrabPoints
  <2>2. ImagesTyped'
    BY <1>26, TypeParts DEF Press, ImagesTyped, driver, contours, images
  <2>3. QED
    BY <2>1, <2>2 DEF TypeOK, ControlTyped, ImagesTyped
<1>27. CASE Done
  <2>1. ControlTyped'
    BY <1>27, TypeParts DEF Done, ControlTyped, Goto, setting, outer, place, cycle
  <2>2. ImagesTyped'
    BY <1>27, TypeParts DEF Done, ImagesTyped, driver, contours, images
  <2>3. QED
    BY <2>1, <2>2 DEF TypeOK, ControlTyped, ImagesTyped
<1>28. CASE GrabImageFromFile
  <2>1. ControlTyped'
    BY <1>28, TypeParts
       DEF GrabImageFromFile, ControlTyped, setting, outer, place, cycle
  <2>2. ImagesTyped'
    BY <1>28, TypeParts, ImageFacts
       DEF GrabImageFromFile, ImagesTyped, driver, contours
  <2>3. QED
    BY <2>1, <2>2 DEF TypeOK, ControlTyped, ImagesTyped
<1>29. ASSUME NEW p \in Products, Load(p) PROVE TypeOK'
  <2>1. ControlTyped'
    BY <1>29, TypeParts DEF Load, ControlTyped, setting, cycle, Things
  <2>2. ImagesTyped'
    BY <1>29, TypeParts DEF Load, ImagesTyped, driver, contours, images
  <2>3. QED
    BY <2>1, <2>2 DEF TypeOK, ControlTyped, ImagesTyped
<1>30. CASE Unload
  <2>1. ControlTyped'
    BY <1>30, TypeParts DEF Unload, ControlTyped, setting, cycle, Things
  <2>2. ImagesTyped'
    BY <1>30, TypeParts DEF Unload, ImagesTyped, driver, contours, images
  <2>3. QED
    BY <2>1, <2>2 DEF TypeOK, ControlTyped, ImagesTyped
<1>31. CASE UNCHANGED vars
  <2>1. ControlTyped' /\ ImagesTyped'
    BY <1>31, TypeParts
       DEF ControlTyped, ImagesTyped, vars, setting, outer, place, cycle, driver,
           images, contours
  <2>2. QED
    BY <2>1 DEF TypeOK, ControlTyped, ImagesTyped
<1>32. QED
  BY Zenon, <1>1, <1>2, <1>3, <1>4, <1>5, <1>6, <1>7, <1>8, <1>9, <1>10, <1>11,
     <1>12, <1>13, <1>14, <1>15, <1>16, <1>17, <1>18, <1>19, <1>20, <1>21, <1>22,
     <1>23, <1>24, <1>25, <1>26, <1>27, <1>28, <1>29, <1>30, <1>31
     DEF Next, TestStep, DialogStep, Grab, Threads

-----------------------------------------------------------------------------
(* The buffer. *)

PcTyped == pc \in [Threads -> {"top", "dark", "wait", "step", "judge", "show",
                               "cleared", "idle", "starting", "measure"} \cup GrabPoints]

\* The lock is free and no buffer is allocated at the start.
LEMMA InitBuffer == Init => LockHeld /\ BufferCounted
BY DEF Init, LockHeld, BufferCounted, Threads

\* A step that leaves the driver alone and lets nobody into the lock.
LEMMA DriverAlone ==
  ASSUME LockHeld, BufferCounted, UNCHANGED driver,
         \A t \in Threads : \/ pc'[t] = pc[t]
                            \/ pc'[t] \notin {"inside", "malloc", "frame"}
  PROVE  LockHeld' /\ BufferCounted'
BY DEF LockHeld, BufferCounted, driver

\* Every step keeps the lock with the thread inside it, and the buffers counted.
LEMMA BufferStep ==
  ASSUME BufferInv, [Next]_vars PROVE LockHeld' /\ BufferCounted'
<1>0. PcTyped /\ LockHeld /\ BufferCounted
  BY DEF BufferInv, TypeOK, PcTyped
<1>1. ASSUME NEW t \in Threads, Lock(t) PROVE LockHeld' /\ BufferCounted'
  <2>1. m_pBufForDriver' = NoImage <=> m_pBufForDriver = NoImage
    BY <1>0, <1>1, AgedFacts DEF Lock, BufferInv, TypeOK
  <2>2. QED
    BY <1>0, <1>1, <2>1 DEF Lock, At, Goto, PcTyped, LockHeld, BufferCounted, Threads
<1>2. ASSUME NEW t \in Threads, LookForBuffer(t) PROVE LockHeld' /\ BufferCounted'
  BY <1>0, <1>2 DEF LookForBuffer, At, Goto, driver, PcTyped, LockHeld, BufferCounted
<1>3. ASSUME NEW t \in Threads, Allocate(t) PROVE LockHeld' /\ BufferCounted'
  <2>1. buffers = 0 /\ buffers' = 1 /\ m_pBufForDriver' # NoImage
    BY <1>0, <1>3, ImageFacts DEF Allocate, At, BufferCounted
  <2>2. /\ g_criSection = t /\ g_criSection' = t
        /\ \A u \in Threads : pc'[u] \in {"inside", "malloc", "frame"} => u = t
        /\ pc'[t] = "frame"
    BY <1>0, <1>3 DEF Allocate, At, Goto, PcTyped, LockHeld
  <2>3. QED
    BY <2>1, <2>2 DEF LockHeld, BufferCounted
<1>4. ASSUME NEW t \in Threads, Frame(t) PROVE LockHeld' /\ BufferCounted'
  <2>1. m_pBufForDriver' # NoImage /\ buffers' = buffers
    BY <1>0, <1>4, ImageFacts DEF Frame, BufferInv, TypeOK
  <2>2. \A u \in Threads : pc'[u] \notin {"inside", "malloc", "frame"}
    BY <1>0, <1>4 DEF Frame, At, Goto, PcTyped, LockHeld
  <2>3. QED
    BY <1>0, <2>1, <2>2 DEF LockHeld, BufferCounted
<1>5. ASSUME NEW t \in Threads, NoFrame(t) PROVE LockHeld' /\ BufferCounted'
  <2>1. UNCHANGED <<m_pBufForDriver, buffers>>
    BY <1>5 DEF NoFrame
  <2>2. \A u \in Threads : pc'[u] \notin {"inside", "malloc", "frame"}
    BY <1>0, <1>5 DEF NoFrame, Goto, PcTyped, LockHeld
  <2>3. QED
    BY <1>0, <2>1, <2>2 DEF LockHeld, BufferCounted
<1>6. ASSUME NEW t \in Threads, Convert(t) PROVE LockHeld' /\ BufferCounted'
  BY <1>0, <1>6, DriverAlone DEF Convert, Goto
<1>7. ASSUME NEW t \in Threads, Converted(t) PROVE LockHeld' /\ BufferCounted'
  BY <1>0, <1>7, DriverAlone DEF Converted, Goto
<1>8. ASSUME NEW t \in Threads, NotConverted(t) PROVE LockHeld' /\ BufferCounted'
  BY <1>0, <1>8, DriverAlone DEF NotConverted, Goto
<1>9. CASE CloneForTest
  BY <1>0, <1>9, DriverAlone DEF CloneForTest, Goto
<1>10. CASE CloneForDialog
  BY <1>0, <1>10, DriverAlone DEF CloneForDialog, Goto
<1>11. CASE Top
  BY <1>0, <1>11, DriverAlone DEF Top, Goto
<1>12. CASE Dark
  BY <1>0, <1>12, DriverAlone DEF Dark, Goto
<1>13. CASE Proceed
  BY <1>0, <1>13, DriverAlone DEF Proceed, Goto
<1>14. CASE NewCycle
  BY <1>0, <1>14, DriverAlone DEF NewCycle, Goto, Ask, PcTyped
<1>15. CASE BeginCheck
  BY <1>0, <1>15, DriverAlone DEF BeginCheck, Goto, Ask, PcTyped
<1>16. CASE CheckBarcode
  BY <1>0, <1>16, DriverAlone DEF CheckBarcode, Goto, Ask, Judging
<1>17. CASE CheckAccessary
  BY <1>0, <1>17, DriverAlone DEF CheckAccessary, Goto, Judging
<1>18. CASE CheckCovery
  BY <1>0, <1>18, DriverAlone DEF CheckCovery, Goto, Judging
<1>19. CASE CheckStop
  BY <1>0, <1>19, DriverAlone DEF CheckStop, Goto, Judging, PcTyped
<1>20. CASE NoImageForTest
  BY <1>0, <1>20, DriverAlone DEF NoImageForTest, Goto, Ask, PcTyped
<1>21. CASE ShowContour
  BY <1>0, <1>21, DriverAlone DEF ShowContour, Goto, Ask, PcTyped
<1>22. CASE Cleared
  BY <1>0, <1>22, DriverAlone DEF Cleared, Goto
<1>23. CASE Start
  BY <1>0, <1>23, DriverAlone DEF Start, Goto
<1>24. CASE StartSignal
  BY <1>0, <1>24, DriverAlone DEF StartSignal, Goto
<1>25. CASE Stop
  BY <1>0, <1>25, DriverAlone DEF Stop
<1>26. ASSUME NEW b \in {"capture", "measure"}, Press(b) PROVE LockHeld' /\ BufferCounted'
  BY <1>0, <1>26, DriverAlone DEF Press, Goto
<1>27. CASE Done
  BY <1>0, <1>27, DriverAlone DEF Done, Goto
<1>28. CASE GrabImageFromFile
  BY <1>0, <1>28, DriverAlone DEF GrabImageFromFile
<1>29. ASSUME NEW p \in Products, Load(p) PROVE LockHeld' /\ BufferCounted'
  BY <1>0, <1>29, DriverAlone DEF Load
<1>30. CASE Unload
  BY <1>0, <1>30, DriverAlone DEF Unload
<1>31. CASE UNCHANGED vars
  BY <1>0, <1>31, DriverAlone DEF vars
<1>32. QED
  BY Zenon, <1>1, <1>2, <1>3, <1>4, <1>5, <1>6, <1>7, <1>8, <1>9, <1>10, <1>11,
     <1>12, <1>13, <1>14, <1>15, <1>16, <1>17, <1>18, <1>19, <1>20, <1>21, <1>22,
     <1>23, <1>24, <1>25, <1>26, <1>27, <1>28, <1>29, <1>30, <1>31
     DEF Next, TestStep, DialogStep, Grab, Threads

-----------------------------------------------------------------------------
(* A careful operator: the light tells who may use the images. *)

\* The light agrees with the dialog at the start.
LEMMA InitLight == Init => LightTells
<1> SUFFICES ASSUME Init PROVE LightTells
  OBVIOUS
<1>1. pc["test"] = "wait" /\ pc["dialog"] = "idle"
  BY DEF Init, Threads
<1>2. ~m_hTestEvent /\ ~invited /\ state = 0
  BY Zenon DEF Init
<1>3. QED
  BY <1>1, <1>2 DEF LightTells, Working

\* With a careful operator every step keeps the light on while the test runs.
LEMMA LightStep ==
  ASSUME TypeOK, ~hasty, LightTells, [Next]_vars PROVE LightTells'
<1>0. PcTyped /\ state \in -1..2
  BY DEF TypeOK, PcTyped
<1>1. ASSUME NEW t \in Threads, Lock(t) PROVE LightTells'
  BY <1>0, <1>1 DEF Lock, At, Goto, outer, place, cycle, LightTells, Working
<1>2. ASSUME NEW t \in Threads, LookForBuffer(t) PROVE LightTells'
  BY <1>0, <1>2 DEF LookForBuffer, At, Goto, outer, place, cycle, LightTells, Working
<1>3. ASSUME NEW t \in Threads, Allocate(t) PROVE LightTells'
  BY <1>0, <1>3 DEF Allocate, At, Goto, outer, place, cycle, LightTells, Working
<1>4. ASSUME NEW t \in Threads, Frame(t) PROVE LightTells'
  BY <1>0, <1>4 DEF Frame, At, Goto, outer, place, cycle, LightTells, Working
<1>5. ASSUME NEW t \in Threads, NoFrame(t) PROVE LightTells'
  BY <1>0, <1>5 DEF NoFrame, Goto, outer, place, cycle, LightTells, Working
<1>6. ASSUME NEW t \in Threads, Convert(t) PROVE LightTells'
  BY <1>0, <1>6 DEF Convert, At, Goto, outer, place, cycle, LightTells, Working
<1>7. ASSUME NEW t \in Threads, Converted(t) PROVE LightTells'
  BY <1>0, <1>7 DEF Converted, At, Goto, outer, place, cycle, LightTells, Working
<1>8. ASSUME NEW t \in Threads, NotConverted(t) PROVE LightTells'
  BY <1>0, <1>8 DEF NotConverted, At, Goto, outer, place, cycle, LightTells, Working
<1>9. CASE CloneForTest
  BY <1>0, <1>9 DEF CloneForTest, At, Goto, outer, place, LightTells, Working
<1>10. CASE CloneForDialog
  BY <1>0, <1>10
     DEF CloneForDialog, At, Goto, outer, place, cycle, LightTells, Working
<1>11. CASE Top
  BY <1>0, <1>11 DEF Top, At, Goto, outer, place, LightTells, Working
<1>12. CASE Dark
  BY <1>0, <1>12 DEF Dark, At, Goto, place, LightTells, PcTyped, Threads
<1>13. CASE Proceed
  BY <1>0, <1>13 DEF Proceed, At, Goto, outer, place, LightTells, Working
<1>14. CASE NewCycle
  BY <1>0, <1>14
     DEF NewCycle, At, Goto, Ask, outer, place, LightTells, Working, PcTyped, Threads
<1>15. CASE BeginCheck
  BY <1>0, <1>15
     DEF BeginCheck, At, Goto, Ask, outer, place, LightTells, Working, PcTyped,
         Threads
<1>16. CASE CheckBarcode
  BY <1>0, <1>16
     DEF CheckBarcode, At, Goto, Ask, Judging, Reports, outer, place, LightTells,
         Working
<1>17. CASE CheckAccessary
  BY <1>0, <1>17
     DEF CheckAccessary, At, Goto, Judging, Reports, outer, place, LightTells, Working
<1>18. CASE CheckCovery
  BY <1>0, <1>18 DEF CheckCovery, At, Goto, Judging, outer, place, LightTells, Working
<1>19. CASE CheckStop
  BY <1>0, <1>19
     DEF CheckStop, At, Goto, Judging, outer, place, LightTells, Working, PcTyped,
         Threads
<1>20. CASE NoImageForTest
  BY <1>0, <1>20
     DEF NoImageForTest, At, Goto, Ask, Reports, outer, place, LightTells, Working,
         PcTyped, Threads
<1>21. CASE ShowContour
  BY <1>0, <1>21
     DEF ShowContour, At, Goto, Ask, Reports, outer, place, LightTells, Working,
         PcTyped, Threads
<1>22. CASE Cleared
  BY <1>0, <1>22 DEF Cleared, At, Goto, Reports, LightTells, Working, PcTyped, Threads
<1>23. CASE Start
  BY <1>0, <1>23 DEF Start, Goto, Idle, Rests, At, place, cycle, LightTells, Working
<1>24. CASE StartSignal
  BY <1>0, <1>24
     DEF StartSignal, At, Goto, place, LightTells, Working, PcTyped, Threads
<1>25. CASE Stop
  BY <1>0, <1>25 DEF Stop, Idle, At, place, cycle, LightTells, Working
<1>26. ASSUME NEW b \in {"capture", "measure"}, Press(b) PROVE LightTells'
  BY <1>0, <1>26 DEF Press, Goto, Idle, Rests, At, outer, place, cycle, LightTells
<1>27. CASE Done
  BY <1>0, <1>27 DEF Done, Goto, outer, place, cycle, LightTells, Working
<1>28. CASE GrabImageFromFile
  BY <1>0, <1>28
     DEF GrabImageFromFile, Idle, Rests, At, outer, place, cycle, LightTells
<1>29. ASSUME NEW p \in Products, Load(p) PROVE LightTells'
  BY <1>0, <1>29 DEF Load, cycle, LightTells, Working
<1>30. CASE Unload
  BY <1>0, <1>30 DEF Unload, cycle, LightTells, Working
<1>31. CASE UNCHANGED vars
  BY <1>31 DEF vars, outer, place, cycle, LightTells, Working
<1>32. QED
  BY Zenon, <1>1, <1>2, <1>3, <1>4, <1>5, <1>6, <1>7, <1>8, <1>9, <1>10, <1>11,
     <1>12, <1>13, <1>14, <1>15, <1>16, <1>17, <1>18, <1>19, <1>20, <1>21, <1>22,
     <1>23, <1>24, <1>25, <1>26, <1>27, <1>28, <1>29, <1>30, <1>31
     DEF Next, TestStep, DialogStep, Grab, Threads

\* While the dialog uses an image the test thread rests.
LEMMA DialogAlone ==
  ASSUME LightTells, Working
  PROVE  pc["test"] = "wait" /\ state = 0 /\ ~light /\ ~m_hTestEvent
BY DEF LightTells

\* With a careful operator every step keeps the dialog's image its own.
LEMMA DialogStepHolds ==
  ASSUME TypeOK, LightTells, DialogHolds, [Next]_vars PROVE DialogHolds'
<1>0. PcTyped /\ LightTells /\ DialogHolds /\ local \in [Threads -> Images] /\ fixture \in Things
  BY DEF TypeOK, PcTyped
<1>1. ASSUME NEW t \in Threads, Lock(t) PROVE DialogHolds'
  BY <1>0, <1>1, DialogAlone DEF Lock, At, Goto, DialogHolds, Working, Threads
<1>2. ASSUME NEW t \in Threads, LookForBuffer(t) PROVE DialogHolds'
  BY <1>0, <1>2 DEF LookForBuffer, At, Goto, driver, images, DialogHolds
<1>3. ASSUME NEW t \in Threads, Allocate(t) PROVE DialogHolds'
  BY <1>0, <1>3, DialogAlone DEF Allocate, At, Goto, DialogHolds, Working, Threads
<1>4. ASSUME NEW t \in Threads, Frame(t) PROVE DialogHolds'
  <2>1. m_pBufForDriver'.by = t
    BY <1>0, <1>4, ImageFacts DEF Frame
  <2>2. t = "dialog" \/ ~Working
    BY <1>0, <1>4, DialogAlone DEF Frame, At, Threads
  <2>3. QED
    BY <1>0, <1>4, <2>1, <2>2
       DEF Frame, At, Goto, images, DialogHolds, Working, PcTyped, Threads
<1>5. ASSUME NEW t \in Threads, NoFrame(t) PROVE DialogHolds'
  BY <1>0, <1>5 DEF NoFrame, Goto, images, DialogHolds
<1>6. ASSUME NEW t \in Threads, Convert(t) PROVE DialogHolds'
  BY <1>0, <1>6, DialogAlone DEF Convert, At, Goto, driver, DialogHolds, Working
<1>7. ASSUME NEW t \in Threads, Converted(t) PROVE DialogHolds'
  BY <1>0, <1>7, DialogAlone, ReadFacts
     DEF Converted, At, Goto, driver, DialogHolds, Working, Threads
<1>8. ASSUME NEW t \in Threads, NotConverted(t) PROVE DialogHolds'
  BY <1>0, <1>8 DEF NotConverted, At, Goto, driver, DialogHolds, PcTyped
<1>9. CASE CloneForTest
  BY <1>0, <1>9 DEF CloneForTest, At, Goto, driver, DialogHolds
<1>10. CASE CloneForDialog
  BY <1>0, <1>10 DEF CloneForDialog, At, Goto, DialogHolds, PcTyped
<1>11. CASE Top
  BY <1>0, <1>11 DEF Top, At, Goto, driver, images, DialogHolds
<1>12. CASE Dark
  BY <1>0, <1>12 DEF Dark, At, Goto, driver, images, DialogHolds
<1>13. CASE Proceed
  BY <1>0, <1>13 DEF Proceed, At, Goto, driver, images, DialogHolds
<1>14. CASE NewCycle
  BY <1>0, <1>14
     DEF NewCycle, At, Goto, Ask, driver, images, DialogHolds, PcTyped, Threads
<1>15. CASE BeginCheck
  BY <1>0, <1>15
     DEF BeginCheck, At, Goto, Ask, driver, images, DialogHolds, PcTyped, Threads
<1>16. CASE CheckBarcode
  BY <1>0, <1>16 DEF CheckBarcode, At, Goto, Ask, Judging, Reports, DialogHolds
<1>17. CASE CheckAccessary
  BY <1>0, <1>17 DEF CheckAccessary, At, Goto, Judging, Reports, DialogHolds
<1>18. CASE CheckCovery
  BY <1>0, <1>18 DEF CheckCovery, At, Goto, Judging, driver, DialogHolds
<1>19. CASE CheckStop
  BY <1>0, <1>19
     DEF CheckStop, At, Goto, Judging, driver, DialogHolds, PcTyped, Threads
<1>20. CASE NoImageForTest
  BY <1>0, <1>20
     DEF NoImageForTest, At, Goto, Ask, Reports, driver, images, DialogHolds,
         PcTyped, Threads
<1>21. CASE ShowContour
  BY <1>0, <1>21
     DEF ShowContour, At, Goto, Ask, Reports, driver, images, DialogHolds, PcTyped,
         Threads
<1>22. CASE Cleared
  BY <1>0, <1>22 DEF Cleared, At, Goto, Reports, DialogHolds
<1>23. CASE Start
  BY <1>0, <1>23 DEF Start, Goto, Idle, Rests, At, DialogHolds
<1>24. CASE StartSignal
  BY <1>0, <1>24 DEF StartSignal, At, Goto, DialogHolds
<1>25. CASE Stop
  BY <1>0, <1>25 DEF Stop, Idle, At, DialogHolds
<1>26. ASSUME NEW b \in {"capture", "measure"}, Press(b) PROVE DialogHolds'
  BY <1>0, <1>26 DEF Press, Goto, Idle, Rests, At, DialogHolds
<1>27. CASE Done
  BY <1>0, <1>27 DEF Done, Goto, images, DialogHolds
<1>28. CASE GrabImageFromFile
  BY <1>0, <1>28 DEF GrabImageFromFile, Idle, Rests, At, DialogHolds
<1>29. ASSUME NEW p \in Products, Load(p) PROVE DialogHolds'
  BY <1>0, <1>29 DEF Load, driver, images, DialogHolds
<1>30. CASE Unload
  BY <1>0, <1>30 DEF Unload, driver, images, DialogHolds
<1>31. CASE UNCHANGED vars
  BY <1>31 DEF vars, driver, images, DialogHolds
<1>32. QED
  BY Zenon, <1>1, <1>2, <1>3, <1>4, <1>5, <1>6, <1>7, <1>8, <1>9, <1>10, <1>11,
     <1>12, <1>13, <1>14, <1>15, <1>16, <1>17, <1>18, <1>19, <1>20, <1>21, <1>22,
     <1>23, <1>24, <1>25, <1>26, <1>27, <1>28, <1>29, <1>30, <1>31
     DEF Next, TestStep, DialogStep, Grab, Threads

\* With a careful operator every step keeps the test thread's image its own.
LEMMA TestStepHolds ==
  ASSUME TypeOK, ~hasty, LightTells, TestHolds, [Next]_vars PROVE TestHolds'
<1>0. PcTyped /\ LightTells /\ TestHolds /\ local \in [Threads -> Images] /\ fixture \in Things
  BY DEF TypeOK, PcTyped
<1>1. ASSUME NEW t \in Threads, Lock(t) PROVE TestHolds'
  BY <1>0, <1>1, DialogAlone, AgedFacts
     DEF Lock, At, Goto, outer, place, TestHolds, Working, PcTyped, Threads
<1>2. ASSUME NEW t \in Threads, LookForBuffer(t) PROVE TestHolds'
  BY <1>0, <1>2
     DEF LookForBuffer, At, Goto, driver, outer, place, images, TestHolds, Current
<1>3. ASSUME NEW t \in Threads, Allocate(t) PROVE TestHolds'
  BY <1>0, <1>3, DialogAlone
     DEF Allocate, At, Goto, outer, place, TestHolds, Working, Threads
<1>4. ASSUME NEW t \in Threads, Frame(t) PROVE TestHolds'
  <2>1. m_pBufForDriver'.by = t /\ m_pBufForDriver'.of = fixture
    BY <1>0, <1>4, ImageFacts DEF Frame
  <2>2. t = "test" \/ pc["test"] = "wait"
    BY <1>0, <1>4, DialogAlone DEF Frame, At, Working, Threads
  <2>3. UNCHANGED <<fixture, invited>> /\ (invited => fixture = Empty)
    BY <1>0, <1>4 DEF Frame, outer, place, LightTells
  <2>4. QED
    BY <1>0, <1>4, <2>1, <2>2, <2>3
       DEF Frame, At, Goto, images, TestHolds, Current, PcTyped, Threads
<1>5. ASSUME NEW t \in Threads, NoFrame(t) PROVE TestHolds'
  BY <1>0, <1>5 DEF NoFrame, Goto, outer, place, images, TestHolds, Current
<1>6. ASSUME NEW t \in Threads, Convert(t) PROVE TestHolds'
  BY <1>0, <1>6, DialogAlone
     DEF Convert, At, Goto, driver, outer, place, TestHolds, Current
<1>7. ASSUME NEW t \in Threads, Converted(t) PROVE TestHolds'
  BY <1>0, <1>7, DialogAlone, ReadFacts
     DEF Converted, At, Goto, driver, outer, place, TestHolds, Current, Threads
<1>8. ASSUME NEW t \in Threads, NotConverted(t) PROVE TestHolds'
  BY <1>0, <1>8
     DEF NotConverted, At, Goto, driver, outer, place, TestHolds, Current, PcTyped
<1>9. CASE CloneForTest
  BY <1>0, <1>9, ImageFacts
     DEF CloneForTest, At, Goto, outer, place, TestHolds, Current
<1>10. CASE CloneForDialog
  BY <1>0, <1>10, DialogAlone
     DEF CloneForDialog, At, Goto, outer, place, TestHolds, Working
<1>11. CASE Top
  BY <1>0, <1>11 DEF Top, At, Goto, outer, place, TestHolds
<1>12. CASE Dark
  BY <1>0, <1>12 DEF Dark, At, Goto, place, TestHolds
<1>13. CASE Proceed
  BY <1>0, <1>13 DEF Proceed, At, Goto, outer, place, TestHolds
<1>14. CASE NewCycle
  BY <1>0, <1>14 DEF NewCycle, At, Goto, Ask, outer, place, TestHolds, PcTyped
<1>15. CASE BeginCheck
  BY <1>0, <1>15 DEF BeginCheck, At, Goto, Ask, outer, place, TestHolds, PcTyped
<1>16. CASE CheckBarcode
  BY <1>0, <1>16
     DEF CheckBarcode, At, Goto, Ask, Judging, Reports, outer, place, TestHolds,
         PcTyped, Threads
<1>17. CASE CheckAccessary
  BY <1>0, <1>17
     DEF CheckAccessary, At, Goto, Judging, Reports, outer, place, TestHolds,
         PcTyped, Threads
<1>18. CASE CheckCovery
  BY <1>0, <1>18
     DEF CheckCovery, At, Goto, Judging, outer, place, TestHolds, PcTyped, Threads
<1>19. CASE CheckStop
  BY <1>0, <1>19
     DEF CheckStop, At, Goto, Judging, outer, place, TestHolds, PcTyped, Threads
<1>20. CASE NoImageForTest
  BY <1>0, <1>20
     DEF NoImageForTest, At, Goto, Ask, Reports, outer, place, TestHolds, PcTyped
<1>21. CASE ShowContour
  BY <1>0, <1>21
     DEF ShowContour, At, Goto, Ask, Reports, outer, place, TestHolds, PcTyped
<1>22. CASE Cleared
  BY <1>0, <1>22 DEF Cleared, At, Goto, Reports, TestHolds
<1>23. CASE Start
  BY <1>0, <1>23
     DEF Start, Goto, Idle, Rests, At, place, driver, images, TestHolds, Current
<1>24. CASE StartSignal
  BY <1>0, <1>24 DEF StartSignal, At, Goto, place, driver, images, TestHolds, Current
<1>25. CASE Stop
  BY <1>0, <1>25 DEF Stop, Idle, At, place, driver, images, TestHolds, Current
<1>26. ASSUME NEW b \in {"capture", "measure"}, Press(b) PROVE TestHolds'
  BY <1>0, <1>26
     DEF Press, Goto, Idle, Rests, At, driver, outer, place, images, TestHolds,
         Current
<1>27. CASE Done
  BY <1>0, <1>27 DEF Done, Goto, driver, outer, place, images, TestHolds, Current
<1>28. CASE GrabImageFromFile
  <2>1. pc'["test"] = "wait"
    BY <1>0, <1>28, Zenon DEF GrabImageFromFile, Rests, LightTells
  <2>2. QED
    BY <2>1 DEF TestHolds
<1>29. ASSUME NEW p \in Products, Load(p) PROVE TestHolds'
  <2>1. pc["test"] \in {"convert", "reading", "clone", "judge"} => invited
    BY <1>0, <1>29 DEF Load, LightTells
  <2>2. UNCHANGED <<pc, m_pBufForDriver, local, ho_Image, Imgsrc>> /\ ~invited'
    BY <1>29, Zenon DEF Load, driver, images
  <2>3. QED
    BY <1>0, <2>1, <2>2 DEF TestHolds, Current
<1>30. CASE Unload
  BY <1>0, <1>30 DEF Unload, driver, images, TestHolds, Current
<1>31. CASE UNCHANGED vars
  BY <1>31 DEF vars, outer, place, driver, images, TestHolds, Current
<1>32. QED
  BY Zenon, <1>1, <1>2, <1>3, <1>4, <1>5, <1>6, <1>7, <1>8, <1>9, <1>10, <1>11,
     <1>12, <1>13, <1>14, <1>15, <1>16, <1>17, <1>18, <1>19, <1>20, <1>21, <1>22,
     <1>23, <1>24, <1>25, <1>26, <1>27, <1>28, <1>29, <1>30, <1>31
     DEF Next, TestStep, DialogStep, Grab, Threads

\* With a careful operator every step keeps the contours on their product.
LEMMA ContoursStep ==
  ASSUME TypeOK, ~hasty, LightTells, TestHolds, ContoursCurrent, [Next]_vars PROVE ContoursCurrent'
<1>0. /\ PcTyped /\ LightTells /\ TestHolds /\ ContoursCurrent
      /\ state \in -1..2 /\ fixture \in Things
  BY DEF TypeOK, PcTyped
<1>1. ASSUME NEW t \in Threads, Lock(t) PROVE ContoursCurrent'
  BY <1>0, <1>1
     DEF Lock, At, Goto, outer, place, contours, cycle, ContoursCurrent, Stale,
         Current
<1>2. ASSUME NEW t \in Threads, LookForBuffer(t) PROVE ContoursCurrent'
  BY <1>0, <1>2
     DEF LookForBuffer, At, Goto, outer, place, contours, cycle, ContoursCurrent,
         Stale, Current
<1>3. ASSUME NEW t \in Threads, Allocate(t) PROVE ContoursCurrent'
  BY <1>0, <1>3
     DEF Allocate, At, Goto, outer, place, contours, cycle, ContoursCurrent, Stale,
         Current
<1>4. ASSUME NEW t \in Threads, Frame(t) PROVE ContoursCurrent'
  BY <1>0, <1>4
     DEF Frame, At, Goto, outer, place, contours, cycle, ContoursCurrent, Stale,
         Current
<1>5. ASSUME NEW t \in Threads, NoFrame(t) PROVE ContoursCurrent'
  BY <1>0, <1>5
     DEF NoFrame, Goto, outer, place, contours, cycle, ContoursCurrent, Stale, Current
<1>6. ASSUME NEW t \in Threads, Convert(t) PROVE ContoursCurrent'
  BY <1>0, <1>6
     DEF Convert, At, Goto, outer, place, contours, cycle, ContoursCurrent, Stale,
         Current
<1>7. ASSUME NEW t \in Threads, Converted(t) PROVE ContoursCurrent'
  BY <1>0, <1>7
     DEF Converted, At, Goto, outer, place, contours, cycle, ContoursCurrent, Stale,
         Current
<1>8. ASSUME NEW t \in Threads, NotConverted(t) PROVE ContoursCurrent'
  BY <1>0, <1>8
     DEF NotConverted, At, Goto, outer, place, contours, cycle, ContoursCurrent,
         Stale, Current
<1>9. CASE CloneForTest
  BY <1>0, <1>9
     DEF CloneForTest, At, Goto, outer, place, contours, ContoursCurrent, Stale,
         Current
<1>10. CASE CloneForDialog
  BY <1>0, <1>10
     DEF CloneForDialog, At, Goto, outer, place, contours, cycle, ContoursCurrent,
         Stale, Current
<1>11. CASE Top
  BY <1>0, <1>11
     DEF Top, At, Goto, outer, place, contours, cycle, ContoursCurrent, Stale, Current
<1>12. CASE Dark
  BY <1>0, <1>12 DEF Dark, At, Goto, place, ContoursCurrent, Stale
<1>13. CASE Proceed
  BY <1>0, <1>13
     DEF Proceed, At, Goto, outer, place, contours, cycle, ContoursCurrent, Stale,
         Current
<1>14. CASE NewCycle
  BY <1>0, <1>14
     DEF NewCycle, At, Goto, Ask, outer, place, ContoursCurrent, Stale, Current
<1>15. CASE BeginCheck
  BY <1>0, <1>15
     DEF BeginCheck, At, Goto, Ask, outer, place, contours, ContoursCurrent, Stale,
         Current
<1>16. CASE CheckBarcode
  <2>1. Current(Imgsrc.of) /\ ~Stale
    BY <1>0, <1>16 DEF CheckBarcode, Judging, At, TestHolds, Stale
  <2>2. UNCHANGED <<fixture, invited, g_hoBlobArea, m_hoDeformShape>>
    BY <1>16, Zenon DEF CheckBarcode, outer, place
  <2>3. g_hoBarCodeArea' \in {g_hoBarCodeArea, Imgsrc.of}
    BY <1>16 DEF CheckBarcode
  <2>4. QED
    BY <1>0, <2>1, <2>2, <2>3 DEF ContoursCurrent, Current
<1>17. CASE CheckAccessary
  <2>1. Current(Imgsrc.of) /\ ~Stale
    BY <1>0, <1>17 DEF CheckAccessary, Judging, At, TestHolds, Stale
  <2>2. UNCHANGED <<fixture, invited, g_hoBarCodeArea>>
    BY <1>17, Zenon DEF CheckAccessary, outer, place
  <2>3. {g_hoBlobArea', m_hoDeformShape'} \subseteq {Empty, Imgsrc.of}
    BY <1>17 DEF CheckAccessary
  <2>4. QED
    BY <1>0, <2>1, <2>2, <2>3 DEF ContoursCurrent, Current
<1>18. CASE CheckCovery
  BY <1>0, <1>18
     DEF CheckCovery, At, Goto, Judging, outer, place, contours, ContoursCurrent,
         Stale, Current
<1>19. CASE CheckStop
  BY <1>0, <1>19
     DEF CheckStop, At, Goto, Judging, outer, place, contours, ContoursCurrent,
         Stale, Current
<1>20. CASE NoImageForTest
  BY <1>0, <1>20
     DEF NoImageForTest, At, Goto, Ask, Reports, outer, place, contours,
         ContoursCurrent, Stale, Current
<1>21. CASE ShowContour
  BY <1>0, <1>21
     DEF ShowContour, At, Goto, Ask, Reports, outer, place, contours,
         ContoursCurrent, Stale, Current
<1>22. CASE Cleared
  <2>1. state' = 0 /\ pc'["test"] = "top"
    BY <1>0, <1>22 DEF Cleared, At, Goto, cycle, LightTells, PcTyped, Threads
  <2>2. QED
    BY <2>1 DEF ContoursCurrent, Stale
<1>23. CASE Start
  BY <1>0, <1>23
     DEF Start, Goto, Idle, Rests, At, place, contours, cycle, ContoursCurrent,
         Stale, Current
<1>24. CASE StartSignal
  BY <1>0, <1>24
     DEF StartSignal, At, Goto, place, contours, cycle, ContoursCurrent, Stale,
         Current
<1>25. CASE Stop
  BY <1>0, <1>25
     DEF Stop, Idle, At, place, contours, cycle, ContoursCurrent, Stale, Current
<1>26. ASSUME NEW b \in {"capture", "measure"}, Press(b) PROVE ContoursCurrent'
  BY <1>0, <1>26
     DEF Press, Goto, Idle, Rests, At, outer, place, contours, cycle,
         ContoursCurrent, Stale, Current
<1>27. CASE Done
  BY <1>0, <1>27
     DEF Done, Goto, outer, place, contours, cycle, ContoursCurrent, Stale, Current
<1>28. CASE GrabImageFromFile
  BY <1>0, <1>28
     DEF GrabImageFromFile, Idle, Rests, At, outer, place, contours, cycle,
         ContoursCurrent, Stale, Current
<1>29. ASSUME NEW p \in Products, Load(p) PROVE ContoursCurrent'
  <2>1. ~Stale => light
    BY <1>0, <1>29 DEF Stale, LightTells
  <2>2. ~Stale => invited
    BY <1>29, <2>1 DEF Load
  <2>3. UNCHANGED <<pc, cycle, contours>> /\ ~invited'
    BY <1>29, Zenon DEF Load
  <2>4. QED
    BY <1>0, <2>2, <2>3 DEF ContoursCurrent, Stale, Current, cycle, contours
<1>30. CASE Unload
  BY <1>0, <1>30 DEF Unload, contours, cycle, ContoursCurrent, Stale, Current
<1>31. CASE UNCHANGED vars
  BY <1>31 DEF vars, outer, place, cycle, contours, ContoursCurrent, Stale, Current
<1>32. QED
  BY Zenon, <1>1, <1>2, <1>3, <1>4, <1>5, <1>6, <1>7, <1>8, <1>9, <1>10, <1>11,
     <1>12, <1>13, <1>14, <1>15, <1>16, <1>17, <1>18, <1>19, <1>20, <1>21, <1>22,
     <1>23, <1>24, <1>25, <1>26, <1>27, <1>28, <1>29, <1>30, <1>31
     DEF Next, TestStep, DialogStep, Grab, Threads

-----------------------------------------------------------------------------
(* The theorems. *)

\* The inductive invariant holds at the start.
LEMMA InitIInv == Init => IInv
<1> SUFFICES ASSUME Init PROVE IInv
  OBVIOUS
<1>1. pc["test"] = "wait" /\ pc["dialog"] = "idle" /\ state = 0
  BY DEF Init, Threads
<1>2. TestHolds /\ DialogHolds /\ ContoursCurrent
  BY <1>1 DEF TestHolds, DialogHolds, ContoursCurrent, Stale
<1>3. QED
  BY <1>2, InitType, InitBuffer, InitLight DEF IInv, BufferInv, CarefulInv

\* The operator stays who he is.
LEMMA HastyKept == ASSUME [Next]_vars PROVE hasty' = hasty
BY Zenon DEF vars, setting, Next, TestStep, DialogStep, Grab, Lock, LookForBuffer,
   Allocate, Frame, NoFrame, Convert, Converted, NotConverted, CloneForTest,
   CloneForDialog, Top, Dark, Proceed, NewCycle, BeginCheck, Judging, CheckBarcode,
   CheckAccessary, CheckCovery, CheckStop, NoImageForTest, ShowContour, Cleared,
   Start, StartSignal, Stop, Press, Done, GrabImageFromFile, Load, Unload

\* Every step keeps the inductive invariant.
LEMMA IInvStep == ASSUME IInv, [Next]_vars PROVE IInv'
<1>1. TypeOK /\ BufferInv
  BY Zenon DEF IInv, BufferInv
<1>2. TypeOK' /\ LockHeld' /\ BufferCounted'
  BY <1>1, TypeStep, BufferStep
<1>3. hasty' = hasty
  BY HastyKept
<1>4. ASSUME ~hasty
      PROVE  LightTells' /\ TestHolds' /\ DialogHolds' /\ ContoursCurrent'
  <2>1. LightTells /\ TestHolds /\ DialogHolds /\ ContoursCurrent
    BY <1>4, Zenon DEF IInv, CarefulInv
  <2>2. QED
    BY <1>1, <1>4, <2>1, LightStep, TestStepHolds, DialogStepHolds, ContoursStep
<1>5. QED
  BY <1>2, <1>3, <1>4 DEF IInv, BufferInv, CarefulInv

\* The lock, the images and the contours are in step in every interleaving of the
\* test thread with the dialog, the last two with an operator who waits.
THEOREM Invariance == Spec => []IInv
<1>1. QED
  BY InitIInv, IInvStep, PTL DEF Spec

\* Every variable keeps its type, for any products.
THEOREM TypeCorrect == Spec => []TypeOK
<1>1. IInv => TypeOK
  BY DEF IInv, BufferInv
<1>2. QED
  BY <1>1, Invariance, PTL

\* The driver's buffer is allocated at most once, whatever the operator does.
THEOREM BufferOnce == Spec => []OneBuffer
<1>1. IInv => OneBuffer
  BY DEF IInv, BufferInv, BufferCounted, OneBuffer
<1>2. QED
  BY <1>1, Invariance, PTL

\* With an operator who waits for the light each thread uses the image it took for
\* the purpose, and the test thread one of the product that is there.
THEOREM ImagesOwned == Spec => []OwnImage
<1>1. IInv => OwnImage
  BY DEF IInv, CarefulInv, TestHolds, DialogHolds, Current, OwnImage, At
<1>2. QED
  BY <1>1, Invariance, PTL

\* With such an operator contours are drawn and masked on their own product only.
THEOREM ContoursOwned == Spec => []ContoursOfProduct
<1>1. IInv => ContoursOfProduct
  <2> SUFFICES ASSUME IInv, ~hasty, fixture # Empty,
                      At("test", "show") \/ (At("test", "judge") /\ check = "acc")
               PROVE  {g_hoBarCodeArea, g_hoBlobArea, m_hoDeformShape}
                        \subseteq {Empty, fixture}
    BY Zenon DEF ContoursOfProduct
  <2>1. ContoursCurrent /\ ~Stale
    BY DEF IInv, CarefulInv, At, Stale
  <2>2. QED
    BY <2>1 DEF ContoursCurrent, Current
<1>2. QED
  BY <1>1, Invariance, PTL

-----------------------------------------------------------------------------
(* The snapshots.                                                          *)

\* Where the image is that a thread carries.
LEMMA PictureNow ==
  ASSUME NEW t \in Threads
  PROVE  /\ ~Holding(t) => Picture(t) = {}
         /\ pc[t] = "convert" => Picture(t) = {m_pBufForDriver}
         /\ pc[t] = "reading" => Picture(t) = {local[t]}
         /\ pc[t] = "clone" => Picture(t) = {IF t = "test" THEN ho_Image ELSE local[t]}
         /\ pc[t] = "judge" => Picture(t) = {Imgsrc}
         /\ pc[t] = "measure" => Picture(t) = {ho_Image}
BY DEF Picture, Holding, Held, At

\* And where it is after a step.
LEMMA PictureThen ==
  ASSUME NEW t \in Threads
  PROVE  /\ ~Holding(t)' => Picture(t)' = {}
         /\ pc'[t] = "convert" => Picture(t)' = {m_pBufForDriver'}
         /\ pc'[t] = "reading" => Picture(t)' = {local'[t]}
         /\ pc'[t] = "clone" => Picture(t)' = {IF t = "test" THEN ho_Image' ELSE local'[t]}
         /\ pc'[t] = "judge" => Picture(t)' = {Imgsrc'}
         /\ pc'[t] = "measure" => Picture(t)' = {ho_Image'}
BY DEF Picture, Holding, Held, At

\* A thread that does not move keeps its picture if no image is written.
LEMMA PictureStays ==
  ASSUME NEW t \in Threads, pc'[t] = pc[t],
         UNCHANGED <<m_pBufForDriver, local, ho_Image, Imgsrc>>
  PROVE  Picture(t)' = Picture(t)
BY DEF Picture, Holding, Held, At

\* While a thread grabs or uses an image the other one holds none.
LEMMA OtherHoldsNothing ==
  ASSUME LightTells, NEW t \in Threads, NEW u \in Threads, u # t,
         pc[t] \in GrabPoints \cup {"judge", "measure"}
  PROVE  ~Holding(u)
<1>1. CASE t = "test"
  <2>1. pc["test"] # "wait"
    BY <1>1 DEF GrabPoints
  <2>2. ~Working
    BY <2>1, DialogAlone
  <2>3. QED
    BY <1>1, <2>2 DEF Working, Holding, Threads
<1>2. CASE t = "dialog"
  <2>1. Working
    BY <1>2 DEF GrabPoints, Working
  <2>2. pc["test"] = "wait"
    BY <2>1, DialogAlone
  <2>3. QED
    BY <1>2, <2>2 DEF Holding, Threads
<1>3. QED
  BY <1>1, <1>2 DEF Threads

\* So a step with an image disturbs no other picture, whatever it writes.
LEMMA OtherKeeps ==
  ASSUME TypeOK, LightTells, NEW t \in Threads, NEW u \in Threads, u # t, NEW x,
         pc[t] \in GrabPoints \cup {"judge", "measure"}, Goto(t, x)
  PROVE  Picture(u)' = Picture(u)
<1>1. pc'[u] = pc[u]
  BY DEF TypeOK, Goto
<1>2. ~Holding(u)
  BY OtherHoldsNothing
<1>3. ~Holding(u)'
  BY <1>1, <1>2 DEF Holding
<1>4. QED
  BY <1>2, <1>3, PictureNow, PictureThen

\* Marks change with the contours, and with the begin and end of a cycle.
LEMMA MarksStay ==
  ASSUME UNCHANGED contours, Stale' = Stale
  PROVE  Marks' = Marks
BY DEF Marks, contours

\* Steps of the images themselves are none of these.
LEMMA StaleStays ==
  ASSUME TypeOK, NEW t \in Threads, NEW x, Goto(t, x), state' = state,
         t = "test" => /\ pc[t] \notin {"top", "dark", "wait", "step", "cleared"}
                       /\ x \notin {"top", "dark", "wait", "step", "cleared"}
  PROVE  Stale' = Stale
<1>1. pc \in [Threads -> {"top", "dark", "wait", "step", "judge", "show", "cleared",
                         "idle", "starting", "measure"} \cup GrabPoints]
  BY DEF TypeOK
<1>2. CASE t = "test"
  BY <1>1, <1>2 DEF Stale, Goto
<1>3. CASE t # "test"
  <2>1. pc'["test"] = pc["test"]
    BY <1>1, <1>3 DEF Goto, Threads
  <2>2. QED
    BY <2>1 DEF Stale
<1>4. QED
  BY <1>2, <1>3

\* What a step does to the pictures, in terms of the abstract specification:
\* nothing,
LEMMA NothingShows ==
  ASSUME [Next]_vars, fixture' = fixture, Marks' = Marks,
         \A u \in Threads : Picture(u)' = Picture(u)
  PROVE  UNCHANGED Shots!snapshots
<1>1. [u \in Threads |-> Picture(u)]' = [u \in Threads |-> Picture(u)]
  OBVIOUS
<1>2. (~hasty)' = (~hasty)
  BY HastyKept
<1>3. QED
  BY <1>1, <1>2, Zenon DEF Shots!snapshots

\* one picture becomes another,
LEMMA OneChanges ==
  ASSUME NEW t \in Threads, NEW pic, Picture(t)' = pic,
         \A u \in Threads : u # t => Picture(u)' = Picture(u)
  PROVE  [u \in Threads |-> Picture(u)]'
           = [[u \in Threads |-> Picture(u)] EXCEPT ![t] = pic]
OBVIOUS

\* it is laid down.
LEMMA PictureLaidDown ==
  ASSUME [Next]_vars, fixture' = fixture, Marks' = Marks,
         NEW t \in Threads, Picture(t)' = {},
         \A u \in Threads : u # t => Picture(u)' = Picture(u)
  PROVE  Shots!Next
<1>1. (~hasty)' = (~hasty)
  BY HastyKept
<1>2. [u \in Threads |-> Picture(u)]'
        = [[u \in Threads |-> Picture(u)] EXCEPT ![t] = {}]
  BY OneChanges
<1>3. Shots!LayDown(t)
  BY <1>1, <1>2, Zenon DEF Shots!LayDown
<1>4. QED
  BY <1>3 DEF Shots!Next

\* A frame is the picture, and on its way to its use it stays what it is.
LEMMA GrabIsOneInstant ==
  ASSUME IInv, ~hasty, [Next]_vars, NEW t \in Threads, Grab(t)
  PROVE  [Shots!Next]_(Shots!snapshots)
<1>0. TypeOK /\ LightTells /\ TestHolds /\ DialogHolds
  BY Zenon DEF IInv, BufferInv, CarefulInv
<1>1. PICK x \in {"inside", "malloc", "frame", "convert", "reading", "clone", "failed"} :
        pc[t] \in {"grab", "inside", "malloc", "frame", "convert", "reading"} /\ Goto(t, x)
  BY DEF Grab, Lock, LookForBuffer, Allocate, Frame, NoFrame, Convert, Converted,
         NotConverted, At
<1>2. pc'[t] = x
  BY <1>0, <1>1 DEF TypeOK, Goto
<1>3. \A u \in Threads : u # t => Picture(u)' = Picture(u)
  BY <1>0, <1>1, OtherKeeps DEF GrabPoints
<1>4. Marks' = Marks /\ fixture' = fixture
  <2>1. UNCHANGED <<outer, cycle, contours>>
    BY Zenon DEF Grab, Lock, LookForBuffer, Allocate, Frame, NoFrame, Convert,
       Converted, NotConverted
  <2>2. state' = state /\ fixture' = fixture
    BY <2>1, Zenon DEF outer, cycle, place
  <2>3. Stale' = Stale
    BY <1>0, <1>1, <2>2, StaleStays
  <2>4. QED
    BY <2>1, <2>2, <2>3, MarksStay
<1>5. ASSUME Picture(t)' = Picture(t) PROVE UNCHANGED Shots!snapshots
  BY <1>3, <1>4, <1>5, NothingShows
<1>6. CASE Lock(t) \/ LookForBuffer(t) \/ Allocate(t) \/ NoFrame(t)
  <2>1. pc[t] \in {"grab", "inside", "malloc", "frame"}
    BY <1>6 DEF Lock, LookForBuffer, Allocate, NoFrame, At
  <2>2. pc'[t] \in {"inside", "malloc", "frame", "failed"}
    BY <1>0, <1>6 DEF Lock, LookForBuffer, Allocate, NoFrame, Goto, TypeOK
  <2>3. QED
    BY <1>5, <2>1, <2>2, PictureNow, PictureThen DEF Holding
<1>7. CASE Frame(t)
  <2>1. Picture(t) = {}
    BY <1>7, PictureNow DEF Frame, At, Holding
  <2>2. Picture(t)' = {[by |-> t, of |-> fixture]}
    <3>1. pc'[t] = "convert"
      BY <1>0, <1>7 DEF Frame, Goto, TypeOK
    <3>2. m_pBufForDriver' = [by |-> t, of |-> fixture]
      BY <1>7 DEF Frame, Image
    <3>3. QED
      BY <3>1, <3>2, PictureThen
  <2>3. [u \in Threads |-> Picture(u)]'
          = [[u \in Threads |-> Picture(u)] EXCEPT ![t] = {[by |-> t, of |-> fixture]}]
    BY <1>3, <2>2, OneChanges
  <2>4. (~hasty)' = (~hasty)
    BY HastyKept
  <2>5. [u \in Threads |-> Picture(u)][t] = {}
    BY <2>1
  <2>6. Shots!Grab(t)
    BY <1>4, <2>3, <2>4, <2>5, Zenon DEF Shots!Grab
  <2>7. QED
    BY <2>6 DEF Shots!Next
<1>8. CASE Convert(t)
  <2>1. Picture(t) = {m_pBufForDriver}
    BY <1>8, PictureNow DEF Convert, At
  <2>2. pc'[t] = "reading" /\ local'[t] = m_pBufForDriver
    BY <1>0, <1>8 DEF Convert, Goto, TypeOK
  <2>3. QED
    BY <1>5, <2>1, <2>2, PictureThen
<1>9. CASE Converted(t)
  <2>1. pc[t] = "reading" /\ pc'[t] = "clone"
    BY <1>0, <1>9 DEF Converted, At, Goto, TypeOK
  <2>2. local[t] = m_pBufForDriver
    BY <1>0, <2>1 DEF TestHolds, DialogHolds, Threads
  <2>3. Read(t) = local[t]
    BY <1>0, <2>2, ReadFacts
  <2>4. (IF t = "test" THEN ho_Image' ELSE local'[t]) = local[t]
    BY <1>0, <1>9, <2>3 DEF Converted, TypeOK
  <2>5. QED
    BY <1>5, <2>1, <2>4, PictureNow, PictureThen
<1>10. CASE NotConverted(t)
  <2>1. pc'[t] = "failed"
    BY <1>0, <1>10 DEF NotConverted, Goto, TypeOK
  <2>2. Picture(t)' = {}
    BY <2>1, PictureThen DEF Holding
  <2>3. QED
    BY <1>3, <1>4, <2>2, PictureLaidDown
<1>11. QED
  BY <1>6, <1>7, <1>8, <1>9, <1>10 DEF Grab

\* The copies at the end of a grab are the picture; what is displayed only is laid
\* down, and so is what was measured.
LEMMA CloneIsPicture ==
  ASSUME IInv, ~hasty, [Next]_vars, CloneForTest \/ CloneForDialog \/ Done
  PROVE  [Shots!Next]_(Shots!snapshots)
<1>0. TypeOK /\ LightTells
  BY Zenon DEF IInv, BufferInv, CarefulInv
<1>1. UNCHANGED <<outer, cycle, contours>>
  BY Zenon DEF CloneForTest, CloneForDialog, Done
<1>2. state' = state /\ fixture' = fixture
  BY <1>1, Zenon DEF outer, cycle, place
<1>3. CASE CloneForTest
  <2>1. PICK x \in {"failed", "judge"} : Goto("test", x)
    BY <1>3 DEF CloneForTest
  <2>2. pc["test"] = "clone" /\ pc'["test"] = x
    BY <1>0, <1>3, <2>1 DEF CloneForTest, At, Goto, TypeOK, Threads
  <2>3. \A u \in Threads : u # "test" => Picture(u)' = Picture(u)
    BY <1>0, <2>1, <2>2, OtherKeeps DEF GrabPoints, Threads
  <2>4. Marks' = Marks
    <3>1. Stale' = Stale
      BY <1>0, <1>2, <2>1, <2>2, StaleStays DEF Threads
    <3>2. QED
      BY <1>1, <3>1, MarksStay
  <2>5. CASE x = "judge"
    <3>1. Picture("test") = {ho_Image}
      BY <2>2, PictureNow DEF Threads
    <3>2. Picture("test")' = {ho_Image}
      BY <1>3, <2>2, <2>5, PictureThen DEF CloneForTest, Threads
    <3>3. QED
      BY <1>2, <2>3, <2>4, <3>1, <3>2, NothingShows
  <2>6. CASE x = "failed"
    <3>1. Picture("test")' = {}
      BY <2>2, <2>6, PictureThen DEF Holding, Threads
    <3>2. QED
      BY <1>2, <2>3, <2>4, <3>1, PictureLaidDown DEF Threads
  <2>7. QED
    BY <2>5, <2>6
<1>4. CASE CloneForDialog \/ Done
  <2>1. PICK x \in {"measure", "idle"} : Goto("dialog", x)
    BY <1>4 DEF CloneForDialog, Done
  <2>2. pc["dialog"] \in {"clone", "failed", "measure"} /\ pc'["dialog"] = x
    BY <1>0, <1>4, <2>1 DEF CloneForDialog, Done, At, Goto, TypeOK, Threads
  <2>3. \A u \in Threads : u # "dialog" => Picture(u)' = Picture(u)
    BY <1>0, <2>1, <2>2, OtherKeeps DEF GrabPoints, Threads
  <2>4. Marks' = Marks
    <3>1. Stale' = Stale
      BY <1>0, <1>2, <2>1, StaleStays DEF Threads
    <3>2. QED
      BY <1>1, <3>1, MarksStay
  <2>5. CASE x = "measure"
    <3>1. pc["dialog"] = "clone" /\ ho_Image' = local["dialog"]
      <4>1. pc'["dialog"] # "idle"
        BY <2>2, <2>5
      <4>2. ~Done
        BY <1>0, <4>1 DEF Done, Goto, TypeOK, Threads
      <4>3. QED
        BY <1>4, <4>2 DEF CloneForDialog, At
    <3>2. Picture("dialog") = {local["dialog"]}
      BY <3>1, PictureNow DEF Threads
    <3>3. Picture("dialog")' = {local["dialog"]}
      BY <2>2, <2>5, <3>1, PictureThen DEF Threads
    <3>4. QED
      BY <1>2, <2>3, <2>4, <3>2, <3>3, NothingShows
  <2>6. CASE x = "idle"
    <3>1. Picture("dialog")' = {}
      BY <2>2, <2>6, PictureThen DEF Holding, Threads
    <3>2. QED
      BY <1>2, <2>3, <2>4, <3>1, PictureLaidDown DEF Threads
  <2>7. QED
    BY <2>5, <2>6
<1>5. QED
  BY <1>3, <1>4

\* A check lays the picture down and marks no more than it showed.
LEMMA ChecksJudge ==
  ASSUME IInv, ~hasty, [Next]_vars,
         CheckBarcode \/ CheckAccessary \/ CheckCovery \/ CheckStop
  PROVE  Shots!Next
<1>0. TypeOK /\ LightTells
  BY Zenon DEF IInv, BufferInv, CarefulInv
<1>1. PICK x \in {"grab", "show", "cleared"} : Goto("test", x)
  BY DEF CheckBarcode, CheckAccessary, CheckCovery, CheckStop, Ask
<1>2. pc["test"] = "judge" /\ pc'["test"] = x
  BY <1>0, <1>1 DEF CheckBarcode, CheckAccessary, CheckCovery, CheckStop, Judging, At,
     Goto, TypeOK, Threads
<1>3. \A u \in Threads : u # "test" => Picture(u)' = Picture(u)
  BY <1>0, <1>1, <1>2, OtherKeeps DEF Threads
<1>4. Picture("test") = {Imgsrc} /\ Picture("test")' = {}
  BY <1>2, PictureNow, PictureThen DEF Holding, Threads
<1>5. fixture' = fixture
  BY Zenon DEF CheckBarcode, CheckAccessary, CheckCovery, CheckStop, outer, place
<1>6. Marks' \subseteq Marks \cup ({Imgsrc.of} \ {Empty})
  <2>1. ~Stale
    BY <1>2 DEF Stale
  <2>2. /\ g_hoBarCodeArea' \in {g_hoBarCodeArea, Imgsrc.of, Empty}
        /\ g_hoBlobArea' \in {g_hoBlobArea, Imgsrc.of, Empty}
        /\ m_hoDeformShape' \in {m_hoDeformShape, Imgsrc.of, Empty}
    BY DEF CheckBarcode, CheckAccessary, CheckCovery, CheckStop, contours
  <2>3. QED
    BY <2>1, <2>2 DEF Marks
<1>7. (~hasty)' = (~hasty)
  BY HastyKept
<1>8. [u \in Threads |-> Picture(u)]'
        = [[u \in Threads |-> Picture(u)] EXCEPT !["test"] = {}]
  BY <1>3, <1>4, OneChanges DEF Threads
<1>9. [u \in Threads |-> Picture(u)]["test"] = {Imgsrc}
  BY <1>4 DEF Threads
<1>10. Shots!Shown("test") = {Imgsrc.of}
  BY <1>9 DEF Shots!Shown
<1>11. [u \in Threads |-> Picture(u)]["test"] # {}
  BY <1>9
<1>12. Shots!Judge
  BY <1>5, <1>6, <1>7, <1>8, <1>10, <1>11, Zenon DEF Shots!Judge
<1>13. QED
  BY <1>12 DEF Shots!Next

\* The other steps of the test thread concern no image; a cycle forgets all marks
\* where it ends or before the next one begins.
LEMMA RoundsForget ==
  ASSUME IInv, [Next]_vars,
         \/ Top \/ Dark \/ Proceed \/ NewCycle \/ BeginCheck
         \/ NoImageForTest \/ ShowContour \/ Cleared
  PROVE  [Shots!Next]_(Shots!snapshots)
<1>0. TypeOK
  BY Zenon DEF IInv, BufferInv
<1>1. PICK x \in {"top", "dark", "wait", "step", "grab", "show"} : Goto("test", x)
  BY DEF Top, Dark, Proceed, NewCycle, BeginCheck, NoImageForTest, ShowContour, Cleared,
         Ask
<1>2. /\ pc["test"] \in {"top", "dark", "wait", "step", "failed", "show", "cleared"}
      /\ pc'["test"] = x
      /\ pc'["dialog"] = pc["dialog"]
  BY <1>0, <1>1 DEF Top, Dark, Proceed, NewCycle, BeginCheck, NoImageForTest,
     ShowContour, Cleared, At, Goto, TypeOK, Threads
<1>3. UNCHANGED <<fixture, m_pBufForDriver, local, ho_Image, Imgsrc>>
  BY Zenon DEF Top, Dark, Proceed, NewCycle, BeginCheck, NoImageForTest, ShowContour,
     Cleared, outer, place, driver, images
<1>4. \A u \in Threads : Picture(u)' = Picture(u)
  <2>1. Picture("dialog")' = Picture("dialog")
    BY <1>2, <1>3, PictureStays DEF Threads
  <2>2. Picture("test") = {} /\ Picture("test")' = {}
    BY <1>2, PictureNow, PictureThen DEF Holding, Threads
  <2>3. QED
    BY <2>1, <2>2 DEF Threads
<1>5. CASE Marks' = Marks
  BY <1>3, <1>4, <1>5, NothingShows
<1>6. CASE Marks' = {}
  <2>1. (~hasty)' = (~hasty)
    BY HastyKept
  <2>2. [u \in Threads |-> Picture(u)]' = [u \in Threads |-> Picture(u)]
    BY <1>4
  <2>3. Shots!Forget
    BY <1>3, <1>6, <2>1, <2>2, Zenon DEF Shots!Forget
  <2>4. QED
    BY <2>3 DEF Shots!Next
<1>7. Marks' \in {Marks, {}}
  <2>1. CASE NewCycle
    <3>1. {g_hoBarCodeArea', g_hoBlobArea', m_hoDeformShape'} = {Empty}
      BY <2>1 DEF NewCycle
    <3>2. QED
      BY <3>1 DEF Marks
  <2>2. CASE ~NewCycle
    <3>1. UNCHANGED <<g_hoBarCodeArea, g_hoBlobArea, m_hoDeformShape>>
      BY <2>2, Zenon DEF Top, Dark, Proceed, BeginCheck, NoImageForTest, ShowContour,
         Cleared, contours
    <3>2. Stale => Stale'
      BY <1>0, <1>1, <1>2, <2>2 DEF Top, Dark, Proceed, BeginCheck, NoImageForTest,
         ShowContour, Cleared, Stale, At, Ask, Goto, cycle, TypeOK, Threads
    <3>3. QED
      BY <3>1, <3>2 DEF Marks
  <2>3. QED
    BY <2>1, <2>2
<1>8. QED
  BY <1>5, <1>6, <1>7

\* Nor do the buttons that begin something, the end of Start and a file's image.
LEMMA ButtonsShowNothing ==
  ASSUME IInv, ~hasty, [Next]_vars,
         \/ Start \/ StartSignal \/ Stop \/ GrabImageFromFile
         \/ Press("capture") \/ Press("measure")
  PROVE  UNCHANGED Shots!snapshots
<1>0. TypeOK /\ LightTells
  BY Zenon DEF IInv, BufferInv, CarefulInv
<1>1. pc'["test"] = pc["test"]
  BY <1>0 DEF Start, StartSignal, Stop, GrabImageFromFile, Press, Goto, TypeOK, Threads
<1>2. UNCHANGED <<fixture, state, m_pBufForDriver, local, Imgsrc,
                  g_hoBarCodeArea, g_hoBlobArea, m_hoDeformShape>>
  BY Zenon DEF Start, StartSignal, Stop, GrabImageFromFile, Press, outer, place, cycle,
     driver, images, contours
<1>3. pc["dialog"] \in {"idle", "starting"} /\ pc'["dialog"] \in {"idle", "starting", "grab"}
  BY <1>0 DEF Start, StartSignal, Stop, GrabImageFromFile, Press, Idle, At, Goto, TypeOK,
     Threads
<1>4. Picture("dialog")' = Picture("dialog")
  BY <1>3, PictureNow, PictureThen DEF Holding, Threads
<1>5. Picture("test")' = Picture("test")
  <2>1. CASE GrabImageFromFile
    <3>1. pc["test"] = "wait"
      BY <1>0, <2>1, Zenon DEF GrabImageFromFile, Rests, LightTells
    <3>2. QED
      BY <1>1, <3>1, PictureNow, PictureThen DEF Holding, Threads
  <2>2. CASE ~GrabImageFromFile
    <3>1. ho_Image' = ho_Image
      BY <2>2, Zenon DEF Start, StartSignal, Stop, Press, images
    <3>2. QED
      BY <1>1, <1>2, <3>1, PictureStays DEF Threads
  <2>3. QED
    BY <2>1, <2>2
<1>6. Marks' = Marks
  BY <1>1, <1>2 DEF Marks, Stale
<1>7. QED
  BY <1>2, <1>4, <1>5, <1>6, NothingShows DEF Threads

\* A careful operator puts the next product where nothing of the last one is in use.
LEMMA LoadPuts ==
  ASSUME IInv, [Next]_vars, NEW p \in Products, Load(p)
  PROVE  Shots!Next
<1>1. UNCHANGED <<pc, state, m_pBufForDriver, local, ho_Image, Imgsrc,
                  g_hoBarCodeArea, g_hoBlobArea, m_hoDeformShape>>
  BY Zenon DEF Load, driver, images, cycle, contours
<1>2. \A u \in Threads : Picture(u)' = Picture(u)
  BY <1>1, PictureStays
<1>3. [u \in Threads |-> Picture(u)]' = [u \in Threads |-> Picture(u)]
  BY <1>2
<1>4. Marks' = Marks
  BY <1>1 DEF Marks, Stale
<1>5. fixture = Empty /\ fixture' = p
  BY DEF Load
<1>6. ASSUME ~hasty PROVE Marks = {} /\ Shots!Shown("test") \subseteq {Empty}
  <2>0. LightTells /\ TestHolds /\ ContoursCurrent
    BY <1>6, Zenon DEF IInv, CarefulInv
  <2>1. \A of : Current(of) => of = Empty \/ ~invited
    BY DEF Current
  <2>2. ~invited => pc["test"] = "wait" /\ state = 0
    BY <2>0, Zenon DEF Load, LightTells
  <2>3. Marks = {}
    <3>1. CASE Stale
      BY <3>1 DEF Marks
    <3>2. CASE ~Stale
      <4>1. invited
        BY <2>2, <3>2 DEF Stale
      <4>2. QED
        BY <2>0, <2>1, <3>2, <4>1 DEF ContoursCurrent, Marks
    <3>3. QED
      BY <3>1, <3>2
  <2>4. \A img \in Picture("test") : img.of = Empty
    <3>1. CASE ~Holding("test")
      BY <3>1, PictureNow DEF Threads
    <3>2. CASE Holding("test")
      <4>1. invited
        BY <2>2, <3>2 DEF Holding
      <4>2. pc["test"] # "measure"
        BY <2>0 DEF TestHolds
      <4>3. QED
        BY <2>0, <2>1, <3>2, <4>1, <4>2, PictureNow DEF Holding, TestHolds, Threads
    <3>3. QED
      BY <3>1, <3>2
  <2>5. [u \in Threads |-> Picture(u)]["test"] = Picture("test")
    BY DEF Threads
  <2>6. Shots!Shown("test") \subseteq {Empty}
    BY <2>4, <2>5 DEF Shots!Shown
  <2>7. QED
    BY <2>3, <2>6
<1>7. (~hasty)' = (~hasty)
  BY HastyKept
<1>8. Shots!Put(p)
  BY <1>3, <1>4, <1>5, <1>6, <1>7, Zenon DEF Shots!Put
<1>9. QED
  BY <1>8 DEF Shots!Next

\* Only the operator's hands change what stands on the fixture.
LEMMA FixtureMoves ==
  ASSUME [Next]_vars
  PROVE  fixture' = fixture \/ Unload \/ \E p \in Products : Load(p)
BY Zenon DEF vars, outer, place, Next, TestStep, DialogStep, Grab, Lock, LookForBuffer,
   Allocate, Frame, NoFrame, Convert, Converted, NotConverted, CloneForTest,
   CloneForDialog, Top, Dark, Proceed, NewCycle, BeginCheck, CheckBarcode,
   CheckAccessary, CheckCovery, CheckStop, NoImageForTest, ShowContour, Cleared,
   Start, StartSignal, Stop, Press, Done, GrabImageFromFile

\* Taking a product away concerns no picture.
LEMMA UnloadTakes ==
  ASSUME [Next]_vars, Unload
  PROVE  Shots!Next
<1>1. UNCHANGED <<pc, state, m_pBufForDriver, local, ho_Image, Imgsrc,
                  g_hoBarCodeArea, g_hoBlobArea, m_hoDeformShape>>
  BY Zenon DEF Unload, driver, images, cycle, contours
<1>2. \A u \in Threads : Picture(u)' = Picture(u)
  BY <1>1, PictureStays
<1>3. [u \in Threads |-> Picture(u)]' = [u \in Threads |-> Picture(u)]
  BY <1>2
<1>4. Marks' = Marks
  BY <1>1 DEF Marks, Stale
<1>5. (~hasty)' = (~hasty)
  BY HastyKept
<1>6. Shots!Take
  BY <1>3, <1>4, <1>5, Zenon DEF Unload, Shots!Take
<1>7. QED
  BY <1>6 DEF Shots!Next

\* Every step is one of the snapshots' or shows nothing.
LEMMA ShotsStep ==
  ASSUME IInv, [Next]_vars
  PROVE  [Shots!Next]_(Shots!snapshots)
<1>1. ASSUME NEW p \in Products, Load(p) PROVE Shots!Next
  BY <1>1, LoadPuts
<1>2. CASE Unload
  BY <1>2, UnloadTakes
<1>3. CASE hasty /\ ~Unload /\ ~(\E p \in Products : Load(p))
  <2>1. fixture' = fixture
    BY <1>3, FixtureMoves
  <2>2. (~hasty)' = (~hasty)
    BY HastyKept
  <2>3. Shots!Spoil
    BY <1>3, <2>1, <2>2, Zenon DEF Shots!Spoil
  <2>4. QED
    BY <2>3 DEF Shots!Next
<1>4. CASE ~hasty /\ ~Unload /\ ~(\E p \in Products : Load(p))
  <2>1. ASSUME NEW t \in Threads, Grab(t) PROVE [Shots!Next]_(Shots!snapshots)
    BY <1>4, <2>1, GrabIsOneInstant
  <2>2. CASE CloneForTest \/ CloneForDialog \/ Done
    BY <1>4, <2>2, CloneIsPicture
  <2>3. CASE CheckBarcode \/ CheckAccessary \/ CheckCovery \/ CheckStop
    BY <1>4, <2>3, ChecksJudge
  <2>4. CASE \/ Top \/ Dark \/ Proceed \/ NewCycle \/ BeginCheck
             \/ NoImageForTest \/ ShowContour \/ Cleared
    BY <2>4, RoundsForget
  <2>5. CASE \/ Start \/ StartSignal \/ Stop \/ GrabImageFromFile
             \/ Press("capture") \/ Press("measure")
    BY <1>4, <2>5, ButtonsShowNothing
  <2>6. CASE UNCHANGED vars
    <3>1. UNCHANGED <<fixture, pc, state, m_pBufForDriver, local, ho_Image, Imgsrc,
                      g_hoBarCodeArea, g_hoBlobArea, m_hoDeformShape>>
      BY <2>6, Zenon DEF vars, outer, place, driver, images, cycle, contours
    <3>2. Marks' = Marks
      BY <3>1 DEF Marks, Stale
    <3>3. \A u \in Threads : Picture(u)' = Picture(u)
      BY <3>1, PictureStays
    <3>4. QED
      BY <3>1, <3>2, <3>3, NothingShows
  <2>7. QED
    BY <1>4, <2>1, <2>2, <2>3, <2>4, <2>5, <2>6, Zenon
       DEF Next, TestStep, DialogStep, Threads
<1>5. QED
  BY <1>1, <1>2, <1>3, <1>4

\* At the start nothing stands on the fixture and nobody holds a picture.
LEMMA ShotsInit == ASSUME Init PROVE Shots!Init
<1>1. pc["test"] = "wait" /\ pc["dialog"] = "idle"
  BY DEF Init, Threads
<1>2. [u \in Threads |-> Picture(u)] = [u \in Threads |-> {}]
  <2>1. \A u \in Threads : Picture(u) = {}
    BY <1>1, PictureNow DEF Holding, Threads
  <2>2. QED
    BY <2>1
<1>3. state = 0 /\ fixture = Empty /\ hasty \in Habits
  BY Zenon DEF Init
<1>4. Marks = {}
  BY <1>1, <1>3 DEF Marks, Stale
<1>5. (~hasty) \in BOOLEAN
  OBVIOUS
<1>6. QED
  BY <1>2, <1>3, <1>4, <1>5, Zenon DEF Shots!Init

\* The image path, through one driver's buffer that the next grab overwrites and one
\* image that both threads write, implements pictures that are taken in an instant
\* and held by their thread alone.
THEOREM Refinement == Spec => ImplementsSnapshots
<1>1. Init => Shots!Init
  BY ShotsInit
<1>2. IInv /\ [Next]_vars => [Shots!Next]_(Shots!snapshots)
  BY ShotsStep
<1>3. QED
  BY <1>1, <1>2, Invariance, PTL DEF Spec, ImplementsSnapshots, Shots!Spec

\* What the snapshots promise follows from their steps alone: each product finds
\* neither a picture nor a mark of another one.
LEMMA PicturesStep ==
  ASSUME Shots!PicturesTrue, [Shots!Next]_(Shots!snapshots), ~hasty, ~hasty'
  PROVE  Shots!PicturesTrue'
<1> DEFINE F == [u \in Threads |-> Picture(u)]
<1>0. /\ \A t \in Threads : \A img \in F[t] : img.by = t
      /\ fixture # Empty => Shots!Shown("test") \cup Marks \subseteq {Empty, fixture}
  BY Zenon DEF Shots!PicturesTrue
<1>1. /\ Shots!Shown("test") = {img.of : img \in F["test"]}
      /\ Shots!Shown("test")' = {img.of : img \in F'["test"]}
  BY DEF Shots!Shown
<1>2. SUFFICES /\ \A t \in Threads : \A img \in F'[t] : img.by = t
               /\ fixture' # Empty => Shots!Shown("test")' \cup Marks' \subseteq {Empty, fixture'}
  BY Zenon DEF Shots!PicturesTrue
<1>3. ASSUME NEW p \in Products, Shots!Put(p)
      PROVE  /\ F' = F /\ Marks' = {} /\ Shots!Shown("test") \subseteq {Empty}
  BY <1>3, Zenon DEF Shots!Put
<1>4. CASE Shots!Take
  <2>1. F' = F /\ fixture' = Empty
    BY <1>4, Zenon DEF Shots!Take
  <2>2. QED
    BY <1>0, <2>1
<1>5. ASSUME NEW t \in Threads, Shots!Grab(t)
      PROVE  /\ F' = [F EXCEPT ![t] = {[by |-> t, of |-> fixture]}]
             /\ fixture' = fixture /\ Marks' = Marks
  BY <1>5, Zenon DEF Shots!Grab
<1>6. ASSUME NEW t \in Threads, Shots!LayDown(t)
      PROVE  F' = [F EXCEPT ![t] = {}] /\ fixture' = fixture /\ Marks' = Marks
  BY <1>6, Zenon DEF Shots!LayDown
<1>7. CASE Shots!Judge
  <2>1. /\ F' = [F EXCEPT !["test"] = {}] /\ fixture' = fixture
        /\ Marks' \subseteq Marks \cup (Shots!Shown("test") \ {Empty})
    BY <1>7, Zenon DEF Shots!Judge
  <2>2. /\ \A t \in Threads : F'[t] \subseteq F[t]
        /\ Shots!Shown("test")' = {}
    <3> HIDE DEF F
    <3>1. F'["test"] = {} /\ \A t \in Threads : t # "test" => F'[t] = F[t]
      BY <2>1 DEF F, Threads
    <3>2. QED
      BY <1>1, <3>1
  <2>3. QED
    BY <1>0, <2>1, <2>2
<1>8. CASE Shots!Forget
  <2>1. F' = F /\ fixture' = fixture /\ Marks' = {}
    BY <1>8, Zenon DEF Shots!Forget
  <2>2. QED
    BY <1>0, <1>1, <2>1
<1>9. CASE UNCHANGED Shots!snapshots
  <2>1. F' = F /\ fixture' = fixture /\ Marks' = Marks
    BY <1>9, Zenon DEF Shots!snapshots
  <2>2. QED
    BY <1>0, <1>1, <2>1
<1>10. CASE \E p \in Products : Shots!Put(p)
  BY <1>0, <1>1, <1>3, <1>10
<1>11. CASE \E t \in Threads : Shots!Grab(t)
  <2>1. PICK t \in Threads : Shots!Grab(t)
    BY <1>11
  <2>2. /\ F'[t] = {[by |-> t, of |-> fixture]}
        /\ \A u \in Threads : u # t => F'[u] = F[u]
        /\ fixture' = fixture /\ Marks' = Marks
    BY <1>5, <2>1
  <2>3. Shots!Shown("test")' \subseteq Shots!Shown("test") \cup {fixture}
    <3> HIDE DEF F
    <3>1. "test" \in Threads
      BY DEF Threads
    <3>2. QED
      BY <1>1, <2>2, <3>1
  <2>4. QED
    <3> HIDE DEF F
    <3>1. QED
      BY <1>0, <2>2, <2>3
<1>12. CASE \E t \in Threads : Shots!LayDown(t)
  <2>1. PICK t \in Threads : Shots!LayDown(t)
    BY <1>12
  <2>2. /\ F'[t] = {}
        /\ \A u \in Threads : u # t => F'[u] = F[u]
        /\ fixture' = fixture /\ Marks' = Marks
    BY <1>6, <2>1
  <2>3. Shots!Shown("test")' \subseteq Shots!Shown("test")
    <3> HIDE DEF F
    <3>1. "test" \in Threads
      BY DEF Threads
    <3>2. QED
      BY <1>1, <2>2, <3>1
  <2>4. QED
    <3> HIDE DEF F
    <3>1. QED
      BY <1>0, <2>2, <2>3
<1>13. ~Shots!Spoil
  BY Zenon DEF Shots!Spoil
<1>14. QED
  BY <1>4, <1>7, <1>8, <1>9, <1>10, <1>11, <1>12, <1>13, Zenon DEF Shots!Next

\* The abstract specification keeps its promise: pictures are their thread's own, and
\* pictures and marks of one product never meet the next.
THEOREM PicturesAreTrue == Shots!Spec => []Shots!PicturesTrue
<1>1. Shots!Init => Shots!PicturesTrue
  <2>1. Shots!Init => [u \in Threads |-> Picture(u)] = [u \in Threads |-> {}] /\ fixture = Empty
    BY Zenon DEF Shots!Init
  <2>2. Shots!Init => \A t \in Threads : [u \in Threads |-> Picture(u)][t] = {}
    BY <2>1
  <2>3. QED
    BY <2>1, <2>2, Zenon DEF Shots!PicturesTrue
<1>2. Shots!PicturesTrue /\ [Shots!Next]_(Shots!snapshots) => Shots!PicturesTrue'
  <2> SUFFICES ASSUME Shots!PicturesTrue, [Shots!Next]_(Shots!snapshots)
               PROVE  Shots!PicturesTrue'
    OBVIOUS
  <2>1. CASE hasty'
    BY <2>1, Zenon DEF Shots!PicturesTrue
  <2>2. (~hasty)' = (~hasty)
    <3>1. [Shots!Next]_(Shots!snapshots)
      OBVIOUS
    <3>2. QED
      BY <3>1, Zenon DEF Shots!Next, Shots!snapshots, Shots!Put, Shots!Take, Shots!Grab,
         Shots!LayDown, Shots!Judge, Shots!Forget, Shots!Spoil
  <2>3. CASE ~hasty'
    BY <2>2, <2>3, PicturesStep
  <2>4. QED
    BY <2>1, <2>3
<1>3. QED
  BY <1>1, <1>2, PTL DEF Shots!Spec
=============================================================================
