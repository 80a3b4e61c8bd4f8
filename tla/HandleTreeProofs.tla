----------------------------- MODULE HandleTreeProofs -----------------------------
(***************************************************************************)
(* Proofs about HandleTree, for an application in any language: what it    *)
(* holds it got in a session that is still open, because no entry point    *)
(* can be called without a handle.  That is a fact about the table of      *)
(* ControlApi, which the proof reads entry by entry.                       *)
(***************************************************************************)
EXTENDS HandleTree, TLAPS

USE OutsAssumption

-------------------------------------------------------------------------------
(* The table of entry points *)

LEMMA EveryEntryPointTakesHandles == \A f \in EntryPoints : f.takes # {}
<1>1. \A names, kind : \A f \in Uses(names, kind) : f.takes # {}
  BY DEF Uses, EntryPoint
<1>2. \A name, kind, given : \A f \in Gives(name, kind, given) : f.takes # {}
  BY DEF Gives, EntryPoint
<1>3. EntryPoint("ctlSwitchMux", {"mux", "display"}, {}).takes # {}
  BY DEF EntryPoint
<1> USE DEF EntryPoints, Changes, Features3D, DriverVersion, Devices, DeviceProperties,
           LevelZero, Sharpness, I2CAndAux, PowerOptimization, Brightness,
           PixelTransformation, PanelDescriptor, RetroScaling, Scaling, Lace,
           PanelSelfRefresh, ArcSyncMonitor, Mux, ArcSyncProfile, DisplayModes,
           CombinedDisplays, Vblank, LinkedAdapters, DisplaySettings, Ecc,
           Engines, Fans, FanModes, FanState, Firmware, PcieSpeed, Frequencies,
           FrequencyRange, FrequencyState, Leds, LedState, VideoProcessing,
           Memory, MemoryBandwidth, OverclockWaiver, GpuFrequencyOffset,
           GpuVoltageOffset, GpuLock, VramFrequencyOffset, VramVoltageOffset,
           PowerLimit, TemperatureLimit, Telemetry, GpuFrequencyOffsetV2,
           GpuMaxVoltageV2, VramSpeedV2, PowerLimitV2, TemperatureLimitV2,
           VFCurve, Pci, PowerDomains, PowerDomainLimits, Temperatures
<1> QED
  BY <1>1, <1>2, <1>3, SMTT(60)

-------------------------------------------------------------------------------
LEMMA TypeOKInit == Init => TypeOK
BY DEF Init, TypeOK

LEMMA TypeOKStep == TypeOK /\ [Next]_vars => TypeOK'
<1> SUFFICES ASSUME TypeOK, [Next]_vars PROVE TypeOK'
  OBVIOUS
<1> USE DEF TypeOK, Delivered
<1>1. CASE Open
  BY <1>1 DEF Open
<1>2. CASE Close
  BY <1>2 DEF Close, HeldAfterClose
<1>3. ASSUME NEW f \in EntryPoints, Forward(f) PROVE TypeOK'
  <2>1. f.takes # {} /\ f.takes \subseteq held
    BY <1>3, EveryEntryPointTakesHandles DEF Forward, Holds
  <2>2. session
    BY <2>1
  <2> QED
    BY <1>3, <2>2 DEF Forward
<1>4. CASE UNCHANGED vars
  BY <1>4 DEF vars
<1> QED
  BY <1>1, <1>2, <1>3, <1>4 DEF Next

\* What an application holds are handles of kinds its language has out parameters
\* for, and it holds none outside a session.
THEOREM HandleTyping == Spec => []TypeOK
BY TypeOKInit, TypeOKStep, PTL DEF Spec
===============================================================================
