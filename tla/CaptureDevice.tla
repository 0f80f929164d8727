--------------------------- MODULE CaptureDevice ---------------------------
(***************************************************************************)
(* The V4L2 device of internal/capture/v4l2: what Start acquires step by   *)
(* step and gives back when a step fails, and the mapped buffers that go   *)
(* round between the driver, the goroutine that dequeues and the loop of   *)
(* Run that copies. What becomes of the frames is in VideoPath.            *)
(*                                                                         *)
(* An ioctl succeeds or fails; formats and sizes are left out.             *)
(***************************************************************************)
EXTENDS Integers, FiniteSets

CONSTANT FrameBuffers   \* the most buffers a driver grants when FrameBufferSize are asked for

ASSUME DeviceAssumption == FrameBuffers \in Nat \ {0}

VARIABLES
    source,     \* where Start or Run is
    fd,         \* the device is open
    granted,    \* buffers the driver granted
    mapped,     \* those mapped into memory
    atDriver,   \* those queued for the driver to fill
    dq,         \* the goroutine that dequeues
    offered,    \* the buffer it offers to Run, or 0
    copying     \* the buffer Run copies, or 0

driverVars == <<fd, granted, mapped, atDriver>>
deviceVars == <<source, driverVars, dq, offered, copying>>

DeviceInit ==
    /\ source = "new" /\ fd = FALSE /\ granted = 0
    /\ mapped = {} /\ atDriver = {}
    /\ dq = "off" /\ offered = 0 /\ copying = 0

\* device.close: streamOff, munmap of what is mapped, close.
CloseDevice == fd' = FALSE /\ mapped' = {} /\ atDriver' = {} /\ UNCHANGED granted

\* A step of Start fails: the device is closed and the error returned.
StartFailed == source' = "over" /\ CloseDevice

-----------------------------------------------------------------------------
(* Start. *)

\* QueryDevice, which closes the device it opened, NegotiateFormat and openDevice.
OpenDevice ==
    /\ source = "new"
    /\ \/ source' = "format" /\ fd' = TRUE
       \/ source' = "over" /\ UNCHANGED fd
    /\ UNCHANGED <<granted, mapped, atDriver, dq, offered, copying>>

\* setFormat, where the driver may choose another format; setFrameRate, whose
\* failure is ignored; REQBUFS, which may grant another number than was asked.
SetFormat ==
    /\ source = "format"
    /\ \/ /\ source' = "buffers" /\ granted' \in 1..FrameBuffers
          /\ UNCHANGED <<fd, mapped, atDriver>>
       \/ StartFailed
    /\ UNCHANGED <<dq, offered, copying>>

\* The loop of initBuffers: QUERYBUF and mmap, then QBUF.
InitBuffer(b) ==
    /\ source = "buffers" /\ b = Cardinality(atDriver) + 1 /\ b <= granted
    /\ \/ /\ b \notin mapped /\ mapped' = mapped \cup {b}
          /\ UNCHANGED <<source, fd, granted, atDriver>>
       \/ /\ b \in mapped /\ atDriver' = atDriver \cup {b}
          /\ UNCHANGED <<source, fd, granted, mapped>>
       \/ StartFailed
    /\ UNCHANGED <<dq, offered, copying>>

\* streamOn, after which Run starts its goroutine.
StreamOn ==
    /\ source = "buffers" /\ Cardinality(atDriver) = granted
    /\ \/ source' = "run" /\ dq' = "ioctl" /\ UNCHANGED driverVars
       \/ StartFailed /\ UNCHANGED dq
    /\ UNCHANGED <<offered, copying>>

-----------------------------------------------------------------------------
(* Run. *)

\* DQBUF returns a filled buffer, or an error: the device is gone or was closed.
DequeueBuffer ==
    /\ dq = "ioctl"
    /\ \/ /\ source # "over" /\ dq' = "offer"
          /\ offered' \in atDriver /\ atDriver' = atDriver \ {offered'}
       \/ dq' = "error" /\ UNCHANGED <<offered, atDriver>>
    /\ UNCHANGED <<source, fd, granted, mapped, copying>>

\* Run takes the buffer and forward copies it, while the next one is dequeued.
TakeBuffer ==
    /\ source = "run" /\ dq = "offer"
    /\ source' = "copy" /\ copying' = offered
    /\ dq' = "ioctl" /\ offered' = 0
    /\ UNCHANGED driverVars

\* Mutated form: a frame that forward skips is not requeued.
RequeueCopied ==
    /\ source = "copy"
    /\ \/ source' = "run" /\ atDriver' \in {atDriver, atDriver \cup {copying}}
          /\ UNCHANGED <<fd, granted, mapped>>
       \/ source' = "over" /\ CloseDevice
    /\ copying' = 0
    /\ UNCHANGED <<dq, offered>>

\* queueBuffer, whether the frame was sent, dropped or skipped; an error ends Run.
Requeue ==
    /\ source = "copy"
    /\ \/ source' = "run" /\ atDriver' = atDriver \cup {copying}
          /\ UNCHANGED <<fd, granted, mapped>>
       \/ source' = "over" /\ CloseDevice
    /\ copying' = 0
    /\ UNCHANGED <<dq, offered>>

\* The context is done, or Run takes an error of the goroutine, which has ended.
RunOver ==
    /\ source = "run" /\ source' = "over" /\ CloseDevice
    /\ dq' \in IF dq = "error" THEN {"error", "ended"} ELSE {dq}
    /\ UNCHANGED <<offered, copying>>

\* The goroutine sees done closed: what it holds goes with it.
DequeuerEnds ==
    /\ source = "over" /\ dq \in {"offer", "error"}
    /\ dq' = "ended" /\ offered' = 0
    /\ UNCHANGED <<source, driverVars, copying>>

DeviceNext ==
    \/ OpenDevice \/ SetFormat \/ StreamOn
    \/ \E b \in 1..FrameBuffers : InitBuffer(b)
    \/ DequeueBuffer \/ TakeBuffer \/ Requeue \/ RunOver \/ DequeuerEnds

DeviceSpec == DeviceInit /\ [][DeviceNext]_deviceVars

-----------------------------------------------------------------------------
(* Properties. *)

DeviceTypeOK ==
    /\ source \in {"new", "format", "buffers", "run", "copy", "over"}
    /\ fd \in BOOLEAN /\ granted \in 0..FrameBuffers
    /\ mapped \subseteq 1..FrameBuffers /\ atDriver \subseteq mapped
    /\ dq \in {"off", "ioctl", "offer", "error", "ended"}
    /\ {offered, copying} \subseteq 0..FrameBuffers

\* While the source runs every buffer is in one place, with the driver, offered or
\* copied: none is written by the driver while it is read, and none is lost, which
\* would stall capture for good. Once Start has failed, at whatever step, or Run is
\* over, the device is closed and nothing is mapped.
BuffersAccounted ==
    /\ source \in {"run", "copy"} =>
        /\ atDriver \cup ({offered, copying} \ {0}) = 1..granted
        /\ {offered, copying} \cap atDriver = {}
        /\ offered = copying => offered = 0
    /\ source = "over" => ~fd /\ mapped = {} /\ copying = 0
=============================================================================
