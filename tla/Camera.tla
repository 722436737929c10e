------------------------------- MODULE Camera -------------------------------
(***************************************************************************)
(* The camera of the measuring station: CMyCamera, which owns a handle of  *)
(* the camera SDK, myCameraClass, which owns the CMyCamera and three flags *)
(* about it, and the dialog, which connects, grabs, measures and tears the *)
(* camera down again (MyCamera.cpp, myCameraClass.cpp, Checker5678Dlg.cpp, *)
(* ImProcChecker.cpp).                                                     *)
(*                                                                         *)
(* Every call of the SDK may fail.  A frame is the number of its delivery; *)
(* the numbers of a measurement are the image they were taken from, and a  *)
(* failed one is the stage at which the algorithm gave up.  The setters of *)
(* exposure and trigger, which change nothing in the program, are left     *)
(* out, and so are pixel formats: a conversion succeeds or fails.          *)
(***************************************************************************)
EXTENDS Naturals

CONSTANTS
  Checkers,     \* the ImProcChecker objects that measure: USB hole and circle
  Circles,      \* those of them that measure a single circle
  MaxFrames     \* bound: frames the camera delivers

ASSUME CameraAssumption == MaxFrames \in Nat /\ Circles \subseteq Checkers

NoImage == 0
FromFile == MaxFrames + 1        \* an image loaded from a file
Images == 0..FromFile

VARIABLES
  phase,              \* where the dialog is in its life
  sdk,                \* the handle as the SDK knows it
  m_pcMyCamera,       \* is there a CMyCamera?
  m_hDevHandle,       \* does it hold a handle?
  m_bCreateDevice, m_bOpenDevice, m_bStartGrabbing,
  m_pBufForDriver,    \* is the frame buffer allocated?
  m_bCamConneted,     \* the dialog's view; otherwise it has shown a message
  m_bCurrent,         \* "measure the current image": do not grab one first
  frames,             \* frames delivered so far
  ho_Image,           \* the image all checkers share
  m_Result_measure,   \* each checker's last numbers, and the last error code
  listed              \* what the list box shows after a measuring button

device  == <<sdk, m_pcMyCamera, m_hDevHandle>>
flags   == <<m_bCreateDevice, m_bOpenDevice, m_bStartGrabbing>>
view    == <<m_bCamConneted, m_bCurrent>>
results == <<m_Result_measure, listed>>
vars    == <<phase, device, flags, m_pBufForDriver, view, frames, ho_Image,
             results>>

\* Where DoubleCircle2 gives up: no region of the size of the hole, no circle at
\* its left or its right end, not four edge points across, or an exception.
HoleErrors == {1, 2, 3, 6, 4}

\* Where SingleCircle does: no round region, no circle, or an exception.
CircleErrors == {1, 2, 4}

Errors(c) == IF c \in Circles THEN CircleErrors ELSE HoleErrors

MeasureResult == [of : Images, errorCode : 0..6]

Empty         == [kind |-> "empty", of |-> NoImage]
CameraFailed  == [kind |-> "cameraFailed", of |-> NoImage]
Measured(img) == [kind |-> "measured", of |-> img]
MeasureFailed(code) == [kind |-> "measureFailed", of |-> code]

TypeOK ==
  /\ phase \in {"init", "connected", "refused", "run", "stop", "close", "destroy",
                "gone"}
  /\ sdk \in {"none", "open", "grabbing"}
  /\ m_pcMyCamera \in BOOLEAN /\ m_hDevHandle \in BOOLEAN
  /\ m_bCreateDevice \in BOOLEAN /\ m_bOpenDevice \in BOOLEAN
  /\ m_bStartGrabbing \in BOOLEAN
  /\ m_pBufForDriver \in BOOLEAN
  /\ m_bCamConneted \in BOOLEAN /\ m_bCurrent \in BOOLEAN
  /\ frames \in 0..MaxFrames
  /\ ho_Image \in Images
  /\ m_Result_measure \in [Checkers -> MeasureResult]
  /\ listed \in {Empty, CameraFailed}
                  \cup {Measured(img) : img \in Images}
                  \cup {MeasureFailed(code) : code \in 0..6}

Init ==
  /\ phase = "init"
  /\ sdk = "none" /\ m_pcMyCamera = FALSE /\ m_hDevHandle = FALSE
  /\ m_bCreateDevice = FALSE /\ m_bOpenDevice = FALSE /\ m_bStartGrabbing = FALSE
  /\ m_pBufForDriver = FALSE
  /\ m_bCamConneted = FALSE /\ m_bCurrent = FALSE
  /\ frames = 0 /\ ho_Image = NoImage
  /\ listed = Empty
  /\ m_Result_measure = [c \in Checkers |-> [of |-> NoImage, errorCode |-> 0]]

-----------------------------------------------------------------------------
(* Connecting: OnInitDialog calls CameraInit and looks at what it returns. *)

\* EnumDevices fails, or there is no camera with this index.
NoCamera ==
  /\ phase' = "refused"
  /\ UNCHANGED <<device, flags>>

\* Mutant: the flags are set before the camera is opened.
MutOpenFails ==
  /\ phase' = "connected"
  /\ m_bCreateDevice' = TRUE /\ m_bOpenDevice' = TRUE
  /\ UNCHANGED <<device, m_bStartGrabbing>>

\* CMyCamera::Open fails: it has destroyed the handle if there was one, the
\* object is deleted, and OpenDevice returns MV_OK all the same.
OpenFails ==
  /\ phase' = "connected"
  /\ UNCHANGED <<device, flags>>

\* The payload size cannot be read: OpenDevice returns with the device open and
\* the flags not set.
PayloadFails ==
  /\ phase' = "refused"
  /\ sdk' = "open" /\ m_pcMyCamera' = TRUE /\ m_hDevHandle' = TRUE
  /\ UNCHANGED flags

Opens ==
  /\ phase' = "connected"
  /\ sdk' = "open" /\ m_pcMyCamera' = TRUE /\ m_hDevHandle' = TRUE
  /\ m_bCreateDevice' = TRUE /\ m_bOpenDevice' = TRUE
  /\ UNCHANGED m_bStartGrabbing

CameraInit ==
  /\ phase = "init"
  /\ NoCamera \/ OpenFails \/ PayloadFails \/ Opens
  /\ UNCHANGED <<m_pBufForDriver, view, frames, ho_Image, results>>

\* StartGrabbing sets its flag whether or not the SDK could start.
StartGrabbing ==
  IF m_bOpenDevice /\ ~m_bStartGrabbing
    THEN m_bStartGrabbing' = TRUE /\ sdk' \in {sdk, "grabbing"}
    ELSE UNCHANGED <<m_bStartGrabbing, sdk>>

Connected ==
  /\ phase = "connected" /\ phase' = "run"
  /\ StartGrabbing
  /\ m_bCamConneted' = TRUE
  /\ UNCHANGED <<m_pcMyCamera, m_hDevHandle, m_bCreateDevice, m_bOpenDevice,
                 m_pBufForDriver, m_bCurrent, frames, ho_Image, results>>

Refused ==
  /\ phase = "refused" /\ phase' = "run"
  /\ m_bCurrent' = TRUE /\ m_bCamConneted' = FALSE
  /\ UNCHANGED <<device, flags, m_pBufForDriver, frames, ho_Image, results>>

-----------------------------------------------------------------------------
(* Grabbing.                                                               *)

\* GrabOneImage returns no data: not grabbing, no buffer, or no frame in time.
GrabFails ==
  /\ m_pBufForDriver' \in IF m_bStartGrabbing THEN {m_pBufForDriver, TRUE}
                                              ELSE {m_pBufForDriver}
  /\ UNCHANGED frames

\* GrabOneImage fills the buffer, allocated on the first call.
GrabDelivers ==
  /\ m_bStartGrabbing /\ sdk = "grabbing" /\ frames < MaxFrames
  /\ frames' = frames + 1
  /\ m_pBufForDriver' = TRUE

\* GrabOneAndShow returns ok.  A frame that cannot be converted leaves an image
\* that cannot be displayed, and the exception makes it return false.
GrabOneAndShow(ok) ==
  \/ ok /\ GrabDelivers /\ ho_Image' = frames'
  \/ ~ok /\ GrabDelivers /\ UNCHANGED ho_Image
  \/ ~ok /\ GrabFails /\ UNCHANGED ho_Image

\* The capture button does not look at what GrabOneAndShow returns.
Capture ==
  /\ phase = "run" /\ UNCHANGED phase
  /\ \E ok \in BOOLEAN : GrabOneAndShow(ok)
  /\ UNCHANGED <<device, flags, view, results>>

\* The load button, when the file can be read.
GrabImageFromFile ==
  /\ phase = "run" /\ UNCHANGED phase
  /\ ho_Image' = FromFile
  /\ UNCHANGED <<device, flags, m_pBufForDriver, view, frames, results>>

ClickCurrent ==
  /\ phase = "run" /\ UNCHANGED phase
  /\ m_bCurrent' = ~m_bCurrent
  /\ UNCHANGED <<device, flags, m_pBufForDriver, m_bCamConneted, frames, ho_Image,
                 results>>

-----------------------------------------------------------------------------
(* Measuring: the two buttons of OnBnClickedButtonStart and ...Start4.     *)

\* Mutant: a success leaves the error code of the measurement before it.
MutMeasure(c) ==
  \/ /\ ho_Image' = NoImage
     /\ listed' = Measured(m_Result_measure[c].of)
     /\ UNCHANGED m_Result_measure
  \/ /\ ho_Image' # NoImage
     /\ m_Result_measure' = [m_Result_measure EXCEPT ![c].of = ho_Image']
     /\ listed' = Measured(ho_Image')
  \/ /\ ho_Image' # NoImage
     /\ \E code \in Errors(c) :
          /\ m_Result_measure' = [m_Result_measure EXCEPT ![c].errorCode = code]
          /\ listed' = MeasureFailed(code)

\* MeasureUSB and MeasureCircle, and what the button lists.  Without an image
\* they show a message and return 0, and the button lists the numbers there
\* were; a failure keeps the numbers and stores its code.
Measure(c) ==
  \/ /\ ho_Image' = NoImage
     /\ listed' = Measured(m_Result_measure[c].of)
     /\ UNCHANGED m_Result_measure
  \/ /\ ho_Image' # NoImage
     /\ m_Result_measure' = [m_Result_measure EXCEPT
                                ![c] = [of |-> ho_Image', errorCode |-> 0]]
     /\ listed' = Measured(ho_Image')
  \/ /\ ho_Image' # NoImage
     /\ \E code \in Errors(c) :
          /\ m_Result_measure' = [m_Result_measure EXCEPT ![c].errorCode = code]
          /\ listed' = MeasureFailed(code)

\* Mutant: the button goes on after a failed grab.
MutMeasureButton(c) ==
  /\ phase = "run" /\ UNCHANGED phase
  /\ \/ ~m_bCurrent /\ (\E ok \in BOOLEAN : GrabOneAndShow(ok)) /\ Measure(c)
     \/ m_bCurrent /\ UNCHANGED <<m_pBufForDriver, frames, ho_Image>> /\ Measure(c)
  /\ UNCHANGED <<device, flags, view>>

MeasureButton(c) ==
  /\ phase = "run" /\ UNCHANGED phase
  /\ \/ /\ ~m_bCurrent /\ GrabOneAndShow(FALSE)
        /\ listed' = CameraFailed
        /\ UNCHANGED m_Result_measure
     \/ ~m_bCurrent /\ GrabOneAndShow(TRUE) /\ Measure(c)
     \/ m_bCurrent /\ UNCHANGED <<m_pBufForDriver, frames, ho_Image>> /\ Measure(c)
  /\ UNCHANGED <<device, flags, view>>

-----------------------------------------------------------------------------
(* Tearing down: the exit button, then the destructor's four calls.        *)

Exit ==
  /\ phase = "run" /\ phase' = "stop"
  /\ UNCHANGED <<device, flags, m_pBufForDriver, view, frames, ho_Image, results>>

StopGrabbing ==
  /\ phase = "stop" /\ phase' = "close"
  /\ IF m_bOpenDevice /\ m_bStartGrabbing
       THEN m_bStartGrabbing' = FALSE /\ sdk' \in {sdk, "open"}
       ELSE UNCHANGED <<m_bStartGrabbing, sdk>>
  /\ UNCHANGED <<m_pcMyCamera, m_hDevHandle, m_bCreateDevice, m_bOpenDevice,
                 m_pBufForDriver, view, frames, ho_Image, results>>

\* CloseDevice: CMyCamera::Close closes the device and destroys the handle.
CloseDevice ==
  /\ phase = "close" /\ phase' = "destroy"
  /\ IF m_bCreateDevice /\ m_bOpenDevice
       THEN /\ IF m_pcMyCamera THEN sdk' = "none" /\ m_hDevHandle' = FALSE
                               ELSE UNCHANGED <<sdk, m_hDevHandle>>
            /\ m_bStartGrabbing' = FALSE /\ m_bOpenDevice' = FALSE
       ELSE UNCHANGED <<sdk, m_hDevHandle, m_bStartGrabbing, m_bOpenDevice>>
  /\ UNCHANGED <<m_pcMyCamera, m_bCreateDevice, m_pBufForDriver, view, frames,
                 ho_Image, results>>

\* Mutant: the guard that is commented out in DestroyDevice.
MutDestroyDevice ==
  /\ phase = "destroy" /\ phase' = "gone"
  /\ IF m_bCreateDevice
       THEN /\ m_pBufForDriver' = FALSE /\ m_pcMyCamera' = FALSE
            /\ m_hDevHandle' = FALSE /\ sdk' = "none" /\ m_bCreateDevice' = FALSE
       ELSE UNCHANGED <<m_pBufForDriver, device, m_bCreateDevice>>
  /\ UNCHANGED <<m_bOpenDevice, m_bStartGrabbing, view, frames, ho_Image, results>>

\* DestroyDevice frees the buffer and deletes the object, whose destructor
\* destroys the handle it still has.
DestroyDevice ==
  /\ phase = "destroy" /\ phase' = "gone"
  /\ m_pBufForDriver' = (m_pBufForDriver /\ ~m_pcMyCamera)
  /\ sdk' = IF m_pcMyCamera /\ m_hDevHandle THEN "none" ELSE sdk
  /\ m_pcMyCamera' = FALSE /\ m_hDevHandle' = FALSE
  /\ m_bCreateDevice' = FALSE
  /\ UNCHANGED <<m_bOpenDevice, m_bStartGrabbing, view, frames, ho_Image, results>>

-----------------------------------------------------------------------------
Next ==
  \/ CameraInit \/ Connected \/ Refused
  \/ Capture \/ GrabImageFromFile \/ ClickCurrent
  \/ \E c \in Checkers : MeasureButton(c)
  \/ Exit \/ StopGrabbing \/ CloseDevice \/ DestroyDevice

Spec == Init /\ [][Next]_vars

-----------------------------------------------------------------------------
(* Properties.                                                             *)

\* The setters, StartGrabbing and GrabOneImage dereference m_pcMyCamera under
\* nothing but m_bOpenDevice or m_bStartGrabbing: a flag that is set tells of an
\* object with an open handle, whichever call of the SDK failed before.
FlagsTellDevice ==
  /\ m_bOpenDevice => m_pcMyCamera /\ m_hDevHandle /\ sdk # "none"
  /\ m_bStartGrabbing => m_bOpenDevice

\* A handle of the SDK lives exactly as long as an object holds it: none is
\* leaked, none is destroyed twice.
HandleOwned == sdk # "none" <=> m_pcMyCamera /\ m_hDevHandle

\* After the teardown nothing is left of the camera, however far OpenDevice got.
ReleasedAtEnd ==
  phase = "gone" => sdk = "none" /\ ~m_pcMyCamera /\ ~m_pBufForDriver

\* A measuring button that is to take a picture lists numbers only of a frame
\* taken by this press, never of the image left by an earlier one, and the result
\* it read them from carries no error of an earlier measurement.
LiveMeasuresLive ==
  [][\A c \in Checkers :
       MeasureButton(c) /\ ~m_bCurrent /\ listed'.kind = "measured"
         => /\ frames' = frames + 1 /\ listed' = Measured(frames')
            /\ m_Result_measure'[c] = [of |-> frames', errorCode |-> 0]]_vars

-----------------------------------------------------------------------------
(* The inductive invariant behind the safety properties.                   *)

\* The three flags and the buffer between one call and the next.
FlagsInOrder ==
  /\ m_bOpenDevice => m_bCreateDevice
  /\ m_pBufForDriver => m_pcMyCamera
  /\ phase = "init" => sdk = "none" /\ ~m_pcMyCamera /\ ~m_bOpenDevice
  /\ phase \in {"close", "destroy", "gone"} => ~m_bStartGrabbing
  /\ phase \in {"destroy", "gone"} => ~m_bOpenDevice

IInv ==
  /\ TypeOK
  /\ FlagsTellDevice
  /\ HandleOwned
  /\ ReleasedAtEnd
  /\ FlagsInOrder
=============================================================================
