------------------------------- MODULE ControlApi -------------------------------
(***************************************************************************)
(* drivers.gpu.control-library/Source/cApiWrapper.cpp, lines 261-5906: the *)
(* 125 entry points that forward, by feature in the order of the file, and *)
(* the helpers of IGCLWrapper.i that wrap one of them.  All have one body, *)
(* in CApiWrapper; what tells them apart is here: the kinds of the handles *)
(* an entry point takes, and the kinds of those it gives out through an    *)
(* out parameter or a field of its argument structure.                     *)
(*                                                                         *)
(* SensorsOfSensors is a faulty variant of Temperatures, used nowhere.     *)
(***************************************************************************)

\* "ze": the Level Zero device and loader module of ctlGetZeDevice.
HandleKinds == {"api", "adapter", "display", "i2cPinPair", "mux", "engine", "fan", "firmware",
                "freq", "led", "mem", "pwr", "temp", "ze"}

EntryPoint(name, takes, gives) == [name |-> name, takes |-> takes, gives |-> gives]

\* Entry points that take a handle and give none.
Uses(names, kind) == {EntryPoint(f, {kind}, {}) : f \in names}

\* An entry point that takes one handle and gives out others.
Gives(name, kind, given) == {EntryPoint(name, {kind}, {given})}

-------------------------------------------------------------------------------
Changes == Uses({"ctlWaitForPropertyChange", "ctlReservedCall"}, "adapter")
Features3D == Uses({"ctlGetSupported3DCapabilities", "ctlGetSet3DFeature"}, "adapter")
DriverVersion == Uses({"ctlCheckDriverVersion"}, "adapter")
Devices ==
    Gives("ctlEnumerateDevices", "api", "adapter")
    \cup Gives("ctlEnumerateDisplayOutputs", "adapter", "display")
    \cup Gives("ctlEnumerateI2CPinPairs", "adapter", "i2cPinPair")
DeviceProperties ==
    Uses({"ctlGetDeviceProperties"}, "adapter")
    \cup Uses({"ctlGetDisplayProperties", "ctlGetAdaperDisplayEncoderProperties"}, "display")
LevelZero == Gives("ctlGetZeDevice", "adapter", "ze")

Sharpness ==
    Uses({"ctlGetSharpnessCaps", "ctlGetCurrentSharpness", "ctlSetCurrentSharpness"}, "display")
I2CAndAux ==
    Uses({"ctlI2CAccess", "ctlAUXAccess"}, "display")
    \cup Uses({"ctlI2CAccessOnPinPair"}, "i2cPinPair")
PowerOptimization ==
    Uses({"ctlGetPowerOptimizationCaps", "ctlGetPowerOptimizationSetting",
          "ctlSetPowerOptimizationSetting"}, "display")
Brightness == Uses({"ctlSetBrightnessSetting", "ctlGetBrightnessSetting"}, "display")
PixelTransformation ==
    Uses({"ctlPixelTransformationGetConfig", "ctlPixelTransformationSetConfig"}, "display")
PanelDescriptor == Uses({"ctlPanelDescriptorAccess"}, "display")
RetroScaling ==
    Uses({"ctlGetSupportedRetroScalingCapability", "ctlGetSetRetroScaling"}, "adapter")
Scaling ==
    Uses({"ctlGetSupportedScalingCapability", "ctlGetCurrentScaling", "ctlSetCurrentScaling"},
         "display")
Lace == Uses({"ctlGetLACEConfig", "ctlSetLACEConfig"}, "display")
PanelSelfRefresh == Uses({"ctlSoftwarePSR"}, "display")
ArcSyncMonitor == Uses({"ctlGetIntelArcSyncInfoForMonitor"}, "display")
Mux ==
    Gives("ctlEnumerateMuxDevices", "api", "mux")
    \cup Gives("ctlGetMuxProperties", "mux", "display")
    \cup {EntryPoint("ctlSwitchMux", {"mux", "display"}, {})}
ArcSyncProfile == Uses({"ctlGetIntelArcSyncProfile", "ctlSetIntelArcSyncProfile"}, "display")
DisplayModes == Uses({"ctlEdidManagement", "ctlGetSetCustomMode"}, "display")
CombinedDisplays ==
    Uses({"ctlGetSetCombinedDisplay"}, "adapter")
    \cup Gives("ctlGetSetDisplayGenlock", "adapter", "adapter")
Vblank == Uses({"ctlGetVblankTimestamp"}, "display")
LinkedAdapters ==
    Uses({"ctlLinkDisplayAdapters", "ctlUnlinkDisplayAdapters"}, "adapter")
    \cup Gives("ctlGetLinkedDisplayAdapters", "adapter", "adapter")
DisplaySettings ==
    Uses({"ctlGetSetDynamicContrastEnhancement", "ctlGetSetWireFormat",
          "ctlGetSetDisplaySettings"}, "display")

-------------------------------------------------------------------------------
Ecc == Uses({"ctlEccGetProperties", "ctlEccGetState", "ctlEccSetState"}, "adapter")
Engines ==
    Gives("ctlEnumEngineGroups", "adapter", "engine")
    \cup Uses({"ctlEngineGetProperties", "ctlEngineGetActivity"}, "engine")
Fans ==
    Gives("ctlEnumFans", "adapter", "fan")
    \cup Uses({"ctlFanGetProperties", "ctlFanGetConfig"}, "fan")
FanModes == Uses({"ctlFanSetDefaultMode", "ctlFanSetFixedSpeedMode", "ctlFanSetSpeedTableMode"},
                 "fan")
FanState == Uses({"ctlFanGetState"}, "fan")
Firmware ==
    Uses({"ctlGetFirmwareProperties"}, "adapter")
    \cup Gives("ctlEnumerateFirmwareComponents", "adapter", "firmware")
    \cup Uses({"ctlGetFirmwareComponentProperties"}, "firmware")
PcieSpeed == Uses({"ctlAllowPCIeLinkSpeedUpdate"}, "adapter")
Frequencies ==
    Gives("ctlEnumFrequencyDomains", "adapter", "freq")
    \cup Uses({"ctlFrequencyGetProperties", "ctlFrequencyGetAvailableClocks"}, "freq")
FrequencyRange == Uses({"ctlFrequencyGetRange", "ctlFrequencySetRange"}, "freq")
FrequencyState == Uses({"ctlFrequencyGetState", "ctlFrequencyGetThrottleTime"}, "freq")
Leds ==
    Gives("ctlEnumLeds", "adapter", "led")
    \cup Uses({"ctlLedGetProperties"}, "led")
LedState == Uses({"ctlLedGetState", "ctlLedSetState"}, "led")
VideoProcessing ==
    Uses({"ctlGetSupportedVideoProcessingCapabilities", "ctlGetSetVideoProcessingFeature"},
         "adapter")
Memory ==
    Gives("ctlEnumMemoryModules", "adapter", "mem")
    \cup Uses({"ctlMemoryGetProperties", "ctlMemoryGetState"}, "mem")
MemoryBandwidth == Uses({"ctlMemoryGetBandwidth"}, "mem")

OverclockWaiver == Uses({"ctlOverclockGetProperties", "ctlOverclockWaiverSet"}, "adapter")
GpuFrequencyOffset ==
    Uses({"ctlOverclockGpuFrequencyOffsetGet", "ctlOverclockGpuFrequencyOffsetSet"}, "adapter")
GpuVoltageOffset ==
    Uses({"ctlOverclockGpuVoltageOffsetGet", "ctlOverclockGpuVoltageOffsetSet"}, "adapter")
GpuLock == Uses({"ctlOverclockGpuLockGet", "ctlOverclockGpuLockSet"}, "adapter")
VramFrequencyOffset ==
    Uses({"ctlOverclockVramFrequencyOffsetGet", "ctlOverclockVramFrequencyOffsetSet"}, "adapter")
VramVoltageOffset ==
    Uses({"ctlOverclockVramVoltageOffsetGet", "ctlOverclockVramVoltageOffsetSet"}, "adapter")
PowerLimit == Uses({"ctlOverclockPowerLimitGet", "ctlOverclockPowerLimitSet"}, "adapter")
TemperatureLimit ==
    Uses({"ctlOverclockTemperatureLimitGet", "ctlOverclockTemperatureLimitSet"}, "adapter")
Telemetry == Uses({"ctlPowerTelemetryGet", "ctlOverclockResetToDefault"}, "adapter")
GpuFrequencyOffsetV2 ==
    Uses({"ctlOverclockGpuFrequencyOffsetGetV2", "ctlOverclockGpuFrequencyOffsetSetV2"}, "adapter")
GpuMaxVoltageV2 ==
    Uses({"ctlOverclockGpuMaxVoltageOffsetGetV2", "ctlOverclockGpuMaxVoltageOffsetSetV2"},
         "adapter")
VramSpeedV2 ==
    Uses({"ctlOverclockVramMemSpeedLimitGetV2", "ctlOverclockVramMemSpeedLimitSetV2"}, "adapter")
PowerLimitV2 == Uses({"ctlOverclockPowerLimitGetV2", "ctlOverclockPowerLimitSetV2"}, "adapter")
TemperatureLimitV2 ==
    Uses({"ctlOverclockTemperatureLimitGetV2", "ctlOverclockTemperatureLimitSetV2"}, "adapter")
VFCurve == Uses({"ctlOverclockReadVFCurve", "ctlOverclockWriteCustomVFCurve"}, "adapter")
Pci == Uses({"ctlPciGetProperties", "ctlPciGetState"}, "adapter")
PowerDomains ==
    Gives("ctlEnumPowerDomains", "adapter", "pwr")
    \cup Uses({"ctlPowerGetProperties", "ctlPowerGetEnergyCounter"}, "pwr")
PowerDomainLimits == Uses({"ctlPowerGetLimits", "ctlPowerSetLimits"}, "pwr")
SensorsOfSensors ==
    Gives("ctlEnumTemperatureSensors", "temp", "temp")
    \cup Uses({"ctlTemperatureGetProperties", "ctlTemperatureGetState"}, "temp")
Temperatures ==
    Gives("ctlEnumTemperatureSensors", "adapter", "temp")
    \cup Uses({"ctlTemperatureGetProperties", "ctlTemperatureGetState"}, "temp")

EntryPoints ==
    UNION {Changes, Features3D, DriverVersion, Devices, DeviceProperties, LevelZero, Sharpness,
           I2CAndAux, PowerOptimization, Brightness, PixelTransformation, PanelDescriptor,
           RetroScaling, Scaling, Lace, PanelSelfRefresh, ArcSyncMonitor, Mux, ArcSyncProfile,
           DisplayModes, CombinedDisplays, Vblank, LinkedAdapters, DisplaySettings, Ecc, Engines,
           Fans, FanModes, FanState, Firmware, PcieSpeed, Frequencies, FrequencyRange,
           FrequencyState, Leds, LedState, VideoProcessing, Memory, MemoryBandwidth,
           OverclockWaiver, GpuFrequencyOffset, GpuVoltageOffset, GpuLock, VramFrequencyOffset,
           VramVoltageOffset, PowerLimit, TemperatureLimit, Telemetry, GpuFrequencyOffsetV2,
           GpuMaxVoltageV2, VramSpeedV2, PowerLimitV2, TemperatureLimitV2, VFCurve, Pci,
           PowerDomains, PowerDomainLimits, Temperatures}

Named == [n \in {f.name : f \in EntryPoints} |-> CHOOSE f \in EntryPoints : f.name = n]

\* Those an application calls to get at handles.
Givers == {f \in EntryPoints : f.gives # {}}

-------------------------------------------------------------------------------
\* The helpers of IGCLWrapper.i that set Size or Version in the argument structure,
\* if any, and return what the entry point they name returns.
HelperOf ==
    [IGCL_EnumerateAdapters |-> "ctlEnumerateDevices",
     IGCL_EnumerateDisplays |-> "ctlEnumerateDisplayOutputs",
     IGCL_GetDisplayProperties |-> "ctlGetDisplayProperties",
     IGCL_GetAdapterProperties |-> "ctlGetDeviceProperties",
     IGCL_I2CAccess |-> "ctlI2CAccess",
     IGCL_AUXAccess |-> "ctlAUXAccess",
     IGCL_GetSetDCE |-> "ctlGetSetDynamicContrastEnhancement",
     IGCL_WaitForDisplayChange |-> "ctlWaitForPropertyChange"]

\* %pointer_functions: the handles for which the C# bindings can make an out parameter.
CSharpOuts == {"adapter", "display", "i2cPinPair", "engine", "mem"}
===============================================================================
