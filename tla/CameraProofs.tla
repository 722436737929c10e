---------------------------- MODULE CameraProofs ----------------------------
(***************************************************************************)
(* Proofs about Camera, for any set of checkers and any number of frames:  *)
(* the types, and that flags, object and handle of the camera stay in step *)
(* whichever call of the SDK fails, down to the last line of the teardown, *)
(* and a measurement without an image of its own takes a fresh picture.    *)
(***************************************************************************)
EXTENDS Camera, TLAPS

(* What the actions do to the device alone, grabbing and measuring aside:
   the buffer is the only part of it a grab can change. *)
DeviceInv ==
  /\ FlagsTellDevice
  /\ HandleOwned
  /\ ReleasedAtEnd
  /\ FlagsInOrder

-----------------------------------------------------------------------------
(* Types *)

(* A grab, successful or not, keeps the types of all it touches. *)
LEMMA GrabType ==
  ASSUME TypeOK, NEW ok \in BOOLEAN, GrabOneAndShow(ok)
  PROVE  m_pBufForDriver' \in BOOLEAN /\ frames' \in 0..MaxFrames /\ ho_Image' \in Images
<1>1. m_pBufForDriver' \in BOOLEAN
  <2>1. CASE GrabDelivers
    BY <2>1 DEF GrabDelivers
  <2>2. CASE GrabFails
    BY <2>2, Zenon DEF GrabFails, TypeOK
  <2>3. QED
    BY <2>1, <2>2 DEF GrabOneAndShow
<1>2. frames' \in 0..MaxFrames /\ ho_Image' \in Images
  <2>1. CASE GrabDelivers
    BY <2>1, CameraAssumption
       DEF GrabDelivers, GrabOneAndShow, TypeOK, Images, FromFile
  <2>2. CASE GrabFails
    <3>1. UNCHANGED frames
      BY <2>2 DEF GrabFails
    <3>2. ho_Image' \in {ho_Image, frames'}
      BY DEF GrabOneAndShow
    <3>3. QED
      BY <3>1, <3>2, CameraAssumption DEF TypeOK, Images, FromFile
  <2>3. QED
    BY <2>1, <2>2 DEF GrabOneAndShow
<1>3. QED
  BY <1>1, <1>2

(* A measurement keeps the types of results and list, given an image. *)
LEMMA MeasureType ==
  ASSUME TypeOK, NEW c \in Checkers, ho_Image' \in Images, Measure(c)
  PROVE  /\ m_Result_measure' \in [Checkers -> MeasureResult]
         /\ listed' \in {Empty, CameraFailed}
                           \cup {Measured(img) : img \in Images}
                           \cup {MeasureFailed(code) : code \in 0..6}
<1>1. m_Result_measure[c] \in MeasureResult
  BY DEF TypeOK
<1>2. CASE ho_Image' = NoImage /\ listed' = Measured(m_Result_measure[c].of)
           /\ UNCHANGED m_Result_measure
  BY <1>1, <1>2 DEF TypeOK, MeasureResult
<1>3. CASE /\ m_Result_measure' = [m_Result_measure EXCEPT
                                    ![c] = [of |-> ho_Image', errorCode |-> 0]]
           /\ listed' = Measured(ho_Image')
  BY <1>3 DEF TypeOK, MeasureResult
<1>4. ASSUME NEW code \in Errors(c),
             m_Result_measure' = [m_Result_measure EXCEPT ![c].errorCode = code],
             listed' = MeasureFailed(code)
      PROVE  /\ m_Result_measure' \in [Checkers -> MeasureResult]
             /\ listed' \in {Empty, CameraFailed}
                               \cup {Measured(img) : img \in Images}
                               \cup {MeasureFailed(e) : e \in 0..6}
  <2>1. code \in 0..6
    BY DEF Errors, HoleErrors, CircleErrors
  <2>2. [m_Result_measure[c] EXCEPT !.errorCode = code] \in MeasureResult
    BY <1>1, <2>1 DEF MeasureResult
  <2>3. m_Result_measure' =
          [m_Result_measure EXCEPT ![c] = [m_Result_measure[c] EXCEPT !.errorCode = code]]
    BY <1>4
  <2>4. m_Result_measure' \in [Checkers -> MeasureResult]
    BY <2>2, <2>3 DEF TypeOK
  <2>5. QED
    BY <1>4, <2>1, <2>4
<1>5. QED
  BY <1>2, <1>3, <1>4 DEF Measure

(* The types in parts: the camera and what the dialog knows of it; the images. *)
CameraTyped ==
  /\ phase \in {"init", "connected", "refused", "run", "stop", "close", "destroy",
                "gone"}
  /\ sdk \in {"none", "open", "grabbing"}
  /\ m_pcMyCamera \in BOOLEAN /\ m_hDevHandle \in BOOLEAN
  /\ m_bCreateDevice \in BOOLEAN /\ m_bOpenDevice \in BOOLEAN
  /\ m_bStartGrabbing \in BOOLEAN
  /\ m_pBufForDriver \in BOOLEAN
  /\ m_bCamConneted \in BOOLEAN /\ m_bCurrent \in BOOLEAN

ImagesTyped ==
  /\ frames \in 0..MaxFrames
  /\ ho_Image \in Images
  /\ m_Result_measure \in [Checkers -> MeasureResult]
  /\ listed \in {Empty, CameraFailed}
                  \cup {Measured(img) : img \in Images}
                  \cup {MeasureFailed(code) : code \in 0..6}

\* TypeOK in two halves: the camera and the images.
LEMMA TypeParts == TypeOK <=> CameraTyped /\ ImagesTyped
BY DEF TypeOK, CameraTyped, ImagesTyped

\* TypeOK holds at the start.
LEMMA InitType == Init => TypeOK
<1> SUFFICES ASSUME Init PROVE TypeOK
  OBVIOUS
<1>1. CameraTyped
  BY DEF Init, CameraTyped
<1>2. ImagesTyped
  <2>1. frames \in 0..MaxFrames /\ NoImage \in Images
    BY CameraAssumption DEF Init, Images, FromFile, NoImage
  <2>2. [of |-> NoImage, errorCode |-> 0] \in MeasureResult
    BY <2>1 DEF MeasureResult
  <2>3. QED
    BY <2>1, <2>2 DEF Init, ImagesTyped
<1>3. QED
  BY <1>1, <1>2, TypeParts

\* Every step keeps TypeOK.
LEMMA TypeStep == ASSUME TypeOK, [Next]_vars PROVE TypeOK'
<1>1. CASE CameraInit
  <2>1. CameraTyped'
    <3>1. CASE NoCamera \/ OpenFails
      BY <1>1, <3>1, TypeParts
         DEF CameraInit, NoCamera, OpenFails, CameraTyped, device, flags, view
    <3>2. CASE PayloadFails \/ Opens
      BY <1>1, <3>2, TypeParts
         DEF CameraInit, PayloadFails, Opens, CameraTyped, device, flags, view
    <3>3. QED
      BY <1>1, <3>1, <3>2 DEF CameraInit
  <2>2. ImagesTyped'
    BY <1>1, TypeParts DEF CameraInit, ImagesTyped, results
  <2>3. QED
    BY <2>1, <2>2 DEF TypeOK, CameraTyped, ImagesTyped
<1>2. CASE Connected
  <2>1. CameraTyped'
    BY <1>2, TypeParts DEF Connected, StartGrabbing, CameraTyped
  <2>2. ImagesTyped'
    BY <1>2, TypeParts DEF Connected, ImagesTyped, results
  <2>3. QED
    BY <2>1, <2>2 DEF TypeOK, CameraTyped, ImagesTyped
<1>3. CASE Refused
  BY <1>3 DEF Refused, TypeOK, device, flags, results
<1>4. CASE Capture
  <2>1. m_pBufForDriver' \in BOOLEAN /\ frames' \in 0..MaxFrames /\ ho_Image' \in Images
    BY <1>4, GrabType DEF Capture
  <2>2. QED
    BY <1>4, <2>1 DEF Capture, TypeOK, device, flags, view, results
<1>5. CASE GrabImageFromFile
  BY <1>5, CameraAssumption
     DEF GrabImageFromFile, TypeOK, device, flags, view, results, Images, FromFile
<1>6. CASE ClickCurrent
  BY <1>6 DEF ClickCurrent, TypeOK, device, flags, results
<1>7. ASSUME NEW c \in Checkers, MeasureButton(c) PROVE TypeOK'
  <2>1. m_pBufForDriver' \in BOOLEAN /\ frames' \in 0..MaxFrames /\ ho_Image' \in Images
    <3>1. CASE m_bCurrent
      BY <1>7, <3>1 DEF MeasureButton, TypeOK
    <3>2. CASE ~m_bCurrent
      BY <1>7, <3>2, GrabType DEF MeasureButton
    <3>3. QED
      BY <3>1, <3>2
  <2>2. /\ m_Result_measure' \in [Checkers -> MeasureResult]
        /\ listed' \in {Empty, CameraFailed}
                          \cup {Measured(img) : img \in Images}
                          \cup {MeasureFailed(code) : code \in 0..6}
    <3>1. CASE Measure(c)
      BY <2>1, <3>1, MeasureType
    <3>2. CASE listed' = CameraFailed /\ UNCHANGED m_Result_measure
      BY <3>2 DEF TypeOK
    <3>3. QED
      BY <1>7, <3>1, <3>2 DEF MeasureButton
  <2>3. UNCHANGED <<device, flags, view, phase>>
    BY <1>7, Zenon DEF MeasureButton
  <2>4. CameraTyped'
    BY <2>1, <2>3, TypeParts DEF CameraTyped, device, flags, view
  <2>5. ImagesTyped'
    BY <2>1, <2>2 DEF ImagesTyped
  <2>6. QED
    BY <2>4, <2>5 DEF TypeOK, CameraTyped, ImagesTyped
<1>8. CASE Exit
  BY <1>8 DEF Exit, TypeOK, device, flags, view, results
<1>9. CASE StopGrabbing
  <2>1. CameraTyped'
    <3>1. /\ UNCHANGED <<m_pcMyCamera, m_hDevHandle, m_bCreateDevice, m_bOpenDevice,
                         m_pBufForDriver, view>>
          /\ phase' = "close"
          /\ sdk' \in {sdk, "open"} /\ m_bStartGrabbing' \in {m_bStartGrabbing, FALSE}
      BY <1>9, Zenon DEF StopGrabbing
    <3>2. QED
      BY <3>1, TypeParts, Zenon DEF CameraTyped, view
  <2>2. ImagesTyped'
    BY <1>9, TypeParts DEF StopGrabbing, ImagesTyped, results
  <2>3. QED
    BY <2>1, <2>2 DEF TypeOK, CameraTyped, ImagesTyped
<1>10. CASE CloseDevice
  <2>1. ImagesTyped'
    BY <1>10, TypeParts DEF CloseDevice, ImagesTyped, results
  <2>2. /\ UNCHANGED <<m_pcMyCamera, m_bCreateDevice, m_pBufForDriver, view>>
        /\ phase' = "destroy"
    BY <1>10 DEF CloseDevice
  <2>3. /\ sdk' \in {sdk, "none"} /\ m_hDevHandle' \in {m_hDevHandle, FALSE}
        /\ m_bStartGrabbing' \in {m_bStartGrabbing, FALSE}
        /\ m_bOpenDevice' \in {m_bOpenDevice, FALSE}
    BY <1>10 DEF CloseDevice
  <2>4. CameraTyped'
    BY <2>2, <2>3, TypeParts, ZenonT(30) DEF CameraTyped, view
  <2>5. QED
    BY <2>1, <2>4 DEF TypeOK, CameraTyped, ImagesTyped
<1>11. CASE DestroyDevice
  <2>1. ImagesTyped'
    BY <1>11, TypeParts DEF DestroyDevice, ImagesTyped, results
  <2>2. CameraTyped'
    BY <1>11, TypeParts DEF DestroyDevice, CameraTyped, view
  <2>3. QED
    BY <2>1, <2>2 DEF TypeOK, CameraTyped, ImagesTyped
<1>12. CASE UNCHANGED vars
  BY <1>12 DEF vars, TypeOK, device, flags, view, results
<1>13. QED
  BY <1>1, <1>2, <1>3, <1>4, <1>5, <1>6, <1>7, <1>8, <1>9, <1>10, <1>11, <1>12 DEF Next

-----------------------------------------------------------------------------
(* The device *)

(* A grab allocates the buffer only while grabbing, so only beside an object. *)
LEMMA GrabBuffer ==
  ASSUME TypeOK, DeviceInv, NEW ok \in BOOLEAN, GrabOneAndShow(ok), m_pBufForDriver'
  PROVE  m_pcMyCamera
BY DEF TypeOK, DeviceInv, FlagsTellDevice, FlagsInOrder, GrabOneAndShow, GrabDelivers,
       GrabFails

(* What a step that runs the dialog may change of the device: its buffer. *)
LEMMA OnlyBuffer ==
  ASSUME TypeOK, DeviceInv, UNCHANGED <<phase, device, flags>>,
         m_pBufForDriver' => m_pBufForDriver \/ m_pcMyCamera, phase # "gone"
  PROVE  DeviceInv'
BY DEF TypeOK, DeviceInv, FlagsTellDevice, HandleOwned, ReleasedAtEnd, FlagsInOrder,
       device, flags

\* The facts about the device hold at the start.
LEMMA InitDevice == Init => DeviceInv
BY DEF Init, DeviceInv, FlagsTellDevice, HandleOwned, ReleasedAtEnd, FlagsInOrder

\* Every step keeps the facts about the device.
LEMMA DeviceStep == ASSUME TypeOK, DeviceInv, [Next]_vars PROVE DeviceInv'
<1> USE DEF DeviceInv, FlagsTellDevice, HandleOwned, ReleasedAtEnd, FlagsInOrder
<1>1. CASE CameraInit
  BY <1>1 DEF CameraInit, NoCamera, OpenFails, PayloadFails, Opens, TypeOK, device, flags
<1>2. CASE Connected
  BY <1>2 DEF Connected, StartGrabbing, TypeOK
<1>3. CASE Refused
  BY <1>3 DEF Refused, TypeOK, device, flags
<1>4. CASE Capture
  BY <1>4, GrabBuffer, OnlyBuffer DEF Capture
<1>5. CASE GrabImageFromFile
  BY <1>5, OnlyBuffer DEF GrabImageFromFile
<1>6. CASE ClickCurrent
  BY <1>6, OnlyBuffer DEF ClickCurrent
<1>7. ASSUME NEW c \in Checkers, MeasureButton(c) PROVE DeviceInv'
  <2>1. CASE m_bCurrent
    BY <1>7, <2>1, OnlyBuffer DEF MeasureButton
  <2>2. CASE ~m_bCurrent
    BY <1>7, <2>2, GrabBuffer, OnlyBuffer DEF MeasureButton
  <2>3. QED
    BY <2>1, <2>2
<1>8. CASE Exit
  BY <1>8 DEF Exit, TypeOK, device, flags
<1>9. CASE StopGrabbing
  BY <1>9 DEF StopGrabbing, TypeOK
<1>10. CASE CloseDevice
  BY <1>10 DEF CloseDevice, TypeOK
<1>11. CASE DestroyDevice
  BY <1>11 DEF DestroyDevice, TypeOK
<1>12. CASE UNCHANGED vars
  BY <1>12 DEF vars, device, flags
<1>13. QED
  BY <1>1, <1>2, <1>3, <1>4, <1>5, <1>6, <1>7, <1>8, <1>9, <1>10, <1>11, <1>12 DEF Next

-----------------------------------------------------------------------------
(* The theorems *)

(* The inductive invariant: types, and flags, object, buffer and handle in step
   between any two calls. *)
THEOREM Invariance == Spec => []IInv
<1>1. Init => IInv
  BY InitType, InitDevice DEF IInv, DeviceInv
<1>2. IInv /\ [Next]_vars => IInv'
  BY TypeStep, DeviceStep DEF IInv, DeviceInv
<1>3. QED
  BY <1>1, <1>2, PTL DEF Spec

(* Every variable keeps its type. *)
THEOREM TypeCorrect == Spec => []TypeOK
<1>1. IInv => TypeOK
  BY DEF IInv
<1>2. QED
  BY <1>1, Invariance, PTL

(* A flag of myCameraClass that is set tells of an object with an open handle:
   no setter, StartGrabbing or GrabOneImage dereferences a missing camera. *)
THEOREM FlagsTruthful == Spec => []FlagsTellDevice
<1>1. IInv => FlagsTellDevice
  BY DEF IInv
<1>2. QED
  BY <1>1, Invariance, PTL

(* The SDK's handle lives exactly as long as an object holds it. *)
THEOREM HandleKept == Spec => []HandleOwned
<1>1. IInv => HandleOwned
  BY DEF IInv
<1>2. QED
  BY <1>1, Invariance, PTL

(* A press that takes its picture and lists numbers lists those of that picture. *)
LEMMA LiveStep ==
  ASSUME TypeOK, NEW c \in Checkers, MeasureButton(c), ~m_bCurrent,
         listed'.kind = "measured"
  PROVE  /\ frames' = frames + 1 /\ listed' = Measured(frames')
         /\ m_Result_measure'[c] = [of |-> frames', errorCode |-> 0]
<1>1. GrabOneAndShow(TRUE) /\ Measure(c)
  <2>1. listed' # CameraFailed
    BY DEF CameraFailed
  <2>2. QED
    BY <2>1, Zenon DEF MeasureButton
<1>2. frames' = frames + 1 /\ ho_Image' = frames'
  BY <1>1 DEF GrabOneAndShow, GrabDelivers
<1>3. ho_Image' # NoImage
  BY <1>2 DEF TypeOK, NoImage
<1>4. ~\E code \in Errors(c) : listed' = MeasureFailed(code)
  BY DEF MeasureFailed
<1>5. /\ m_Result_measure' = [m_Result_measure EXCEPT
                                ![c] = [of |-> ho_Image', errorCode |-> 0]]
      /\ listed' = Measured(ho_Image')
  BY <1>1, <1>3, <1>4 DEF Measure
<1>6. m_Result_measure'[c] = [of |-> ho_Image', errorCode |-> 0]
  BY <1>5 DEF TypeOK
<1>7. QED
  BY <1>2, <1>5, <1>6

(* A measuring button that is to take a picture never lists the numbers of an
   older one, nor a result that still carries an older error. *)
THEOREM LiveOnly == Spec => LiveMeasuresLive
<1>1. TypeOK /\ [Next]_vars =>
        [\A c \in Checkers :
           MeasureButton(c) /\ ~m_bCurrent /\ listed'.kind = "measured"
             => /\ frames' = frames + 1 /\ listed' = Measured(frames')
                /\ m_Result_measure'[c] = [of |-> frames', errorCode |-> 0]]_vars
  BY LiveStep
<1>2. QED
  BY <1>1, TypeCorrect, PTL DEF Spec, LiveMeasuresLive

(* The teardown of the dialog releases handle, object and buffer, however far
   OpenDevice and StartGrabbing got. *)
THEOREM Released == Spec => []ReleasedAtEnd
<1>1. IInv => ReleasedAtEnd
  BY DEF IInv
<1>2. QED
  BY <1>1, Invariance, PTL
=============================================================================
