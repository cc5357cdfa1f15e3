------------------------------- MODULE StdNet -------------------------------
(*************************************************************************)
(* H.282, LDAP, Kerberos, SMI, SNMP, CAP, CBR, CDT, CredSSP: the types   *)
(* (standards/h282, ldap, kerberos, smi, snmp, cap, cbr, cdt, credssp),  *)
(* in the notation of Asn1Types, one definition for each page of the source. *)
(* LdapString and Opaque have a codec of their own that writes an OCTET STRING. *)
(* Left out: ExtUtcTime, which encodes by hand.                          *)
(*************************************************************************)
EXTENDS Asn1Types

H282Types1 == [
    AnonymousAudioInputsCapabilityAvailableDevices |-> Auto(Sequence(<< T("DeviceClass"),
        T("DeviceID") >>)),
    AudioInputsCapabilityAvailableDevices |->
        Delegate(SetOf(T("AnonymousAudioInputsCapabilityAvailableDevices"))),
    AudioInputsCapability |-> Auto(Sequence(<< T("INTEGER"),
        Opt(SetOf(T("AudioInputsCapabilityAvailableDevices"))) >>)),
    AutoSlideDisplayTime |-> Delegate(T("INTEGER")),
    AutoSlideShowControl |-> Auto(Choice(<< T("NULL"), T("NULL"), T("NULL") >>)),
    BackLight |-> Delegate(T("INTEGER")),
    AnonymousCameraFilterCapabilityFilterTextLabel |-> Auto(Sequence(<< T("INTEGER"),
        T("DeviceText") >>)),
    CameraFilterCapabilityFilterTextLabel |->
        Delegate(SetOf(T("AnonymousCameraFilterCapabilityFilterTextLabel"))),
    CameraFilterCapability |-> Auto(Sequence(<< T("INTEGER"),
        Opt(SetOf(T("CameraFilterCapabilityFilterTextLabel"))) >>)),
    CameraFilterNumber |-> Delegate(T("INTEGER")),
    CameraFocusedToLimit |-> Auto(Choice(<< T("NULL"), T("NULL") >>)),
    AnonymousCameraLensCapabilityAccessoryTextLabel |-> Auto(Sequence(<< T("INTEGER"),
        T("DeviceText") >>)),
    CameraLensCapabilityAccessoryTextLabel |->
        Delegate(SetOf(T("AnonymousCameraLensCapabilityAccessoryTextLabel")))]

H282Types2 == [
    CameraLensCapability |-> Auto(Sequence(<< T("INTEGER"),
        Opt(SetOf(T("CameraLensCapabilityAccessoryTextLabel"))) >>)),
    CameraLensNumber |-> Delegate(T("INTEGER")),
    CameraPanSpeed |-> Delegate(T("INTEGER")),
    CameraPanSpeedCapability |-> Auto(Sequence(<< T("CameraPanSpeed"), T("CameraPanSpeed"),
        T("CameraPanSpeed") >>)),
    CameraPannedToLimit |-> Auto(Choice(<< T("NULL"), T("NULL") >>)),
    CameraTiltSpeed |-> Delegate(T("INTEGER")),
    CameraTiltSpeedCapability |-> Auto(Sequence(<< T("CameraTiltSpeed"), T("CameraTiltSpeed"),
        T("CameraTiltSpeed") >>)),
    CameraTiltedToLimit |-> Auto(Choice(<< T("NULL"), T("NULL") >>)),
    CameraZoomedToLimit |-> Auto(Choice(<< T("NULL"), T("NULL") >>)),
    CapabilityID |-> Auto(Choice(<< T("INTEGER"), T("Key") >>)),
    ConfigureDeviceEventsRequest |-> Auto(Sequence(<< T("Handle"), T("DeviceClass"),
        T("DeviceID"), SetOf(T("DeviceEventIdentifier")) >>)),
    ConfigureDeviceEventsResponseResult |-> Auto(Choice(<< T("NULL"), T("NULL"), T("NULL"),
        T("NULL"), T("NULL") >>))]

H282Types3 == [
    ConfigureDeviceEventsResponse |-> Auto(Sequence(<< T("Handle"),
        T("ConfigureDeviceEventsResponseResult") >>)),
    ControlAttribute |-> Auto(Choice(<< T("DeviceState"), T("DeviceDate"), T("DeviceTime"),
        T("DevicePreset"), T("H282_Mode"), T("H282_Mode"), T("H282_Mode"), T("PointingToggle"),
        T("CameraLensNumber"), T("CameraFilterNumber"), T("NULL"), T("SelectExternalLight"),
        T("NULL"), T("CameraPanSpeed"), T("CameraTiltSpeed"), T("BackLight"), T("WhiteBalance"),
        T("H282_Mode"), T("NULL"), T("NULL"), T("NULL"), T("PanContinuous"), T("TiltContinuous"),
        T("ZoomContinuous"), T("FocusContinuous"), T("SetZoomPosition"), T("SetFocusPosition"),
        T("SetIrisPosition"), T("SetPanPosition"), T("SetTiltPosition"), T("ZoomMagnification"),
        T("PanView"), T("TiltView"), T("SlideNumber"), T("SelectDirection"),
        T("AutoSlideShowControl"), T("AutoSlideDisplayTime"), T("BOOLEAN"), T("BOOLEAN"),
        T("BOOLEAN"), T("BOOLEAN"), T("BOOLEAN"), T("ProgramNumber"), T("SelectDirection"),
        T("ProgramDuration"), T("BOOLEAN"), T("PlaybackSpeed"), T("BOOLEAN"), T("BOOLEAN"),
        T("ProgramDuration"), T("BOOLEAN"), T("RecordForDuration"), T("DeviceInputs"),
        T("DeviceInputs"), T("NonStandardParameter") >>)),
    CurrentAudioOutputMute |-> Auto(Choice(<< T("BOOLEAN"), T("NULL") >>)),
    CurrentAutoSlideDisplayTime |-> Auto(Choice(<< T("AutoSlideDisplayTime"), T("NULL") >>)),
    CurrentBackLight |-> Auto(Choice(<< T("BackLight"), T("NULL") >>)),
    CurrentCameraFilterNumber |-> Auto(Choice(<< T("CameraFilterNumber"), T("NULL") >>)),
    CurrentCameraLensNumber |-> Auto(Choice(<< T("CameraLensNumber"), T("NULL") >>)),
    CurrentCameraPanSpeed |-> Auto(Choice(<< T("CameraPanSpeed"), T("NULL") >>)),
    CurrentCameraTiltSpeed |-> Auto(Choice(<< T("CameraTiltSpeed"), T("NULL") >>)),
    CurrentDeviceDateCurrentDay |-> Auto(Choice(<< T("H282_Day"), T("NULL") >>)),
    CurrentDeviceDateCurrentMonth |-> Auto(Choice(<< T("H282_Month"), T("NULL") >>)),
    CurrentDeviceDateCurrentYear |-> Auto(Choice(<< T("H282_Year"), T("NULL") >>))]

H282Types4 == [
    CurrentDeviceDate |-> Auto(Sequence(<< T("CurrentDeviceDateCurrentDay"),
        T("CurrentDeviceDateCurrentMonth"), T("CurrentDeviceDateCurrentYear") >>)),
    CurrentDevicePreset |-> Auto(Choice(<< T("PresetNumber"), T("NULL") >>)),
    CurrentDeviceState |-> Auto(Choice(<< T("DeviceState"), T("NULL") >>)),
    CurrentDeviceTimeCurrentHour |-> Auto(Choice(<< T("Hour"), T("NULL") >>)),
    CurrentDeviceTimeCurrentMinute |-> Auto(Choice(<< T("Minute"), T("NULL") >>)),
    CurrentDeviceTime |-> Auto(Sequence(<< T("CurrentDeviceTimeCurrentHour"),
        T("CurrentDeviceTimeCurrentMinute") >>)),
    CurrentExternalLight |-> Auto(Choice(<< T("INTEGER"), T("NULL"), T("NULL") >>)),
    CurrentFocusPosition |-> Auto(Choice(<< T("FocusPosition"), T("NULL") >>)),
    CurrentIrisPosition |-> Auto(Choice(<< T("IrisPosition"), T("NULL") >>)),
    CurrentMode |-> Auto(Choice(<< T("H282_Mode"), T("NULL") >>)),
    CurrentPanPosition |-> Auto(Choice(<< T("PanPosition"), T("NULL") >>)),
    CurrentPlaybackSpeed |-> Auto(Choice(<< T("PlaybackSpeed"), T("NULL") >>)),
    CurrentPointingMode |-> Auto(Choice(<< T("NULL"), T("NULL"), T("NULL") >>)),
    CurrentSelectedProgram |-> Auto(Choice(<< T("ProgramNumber"), T("NULL") >>)),
    CurrentSlide |-> Auto(Choice(<< T("SlideNumber"), T("NULL") >>)),
    CurrentStreamPlayerState |-> Auto(Choice(<< T("StreamPlayerState"), T("NULL") >>))]

H282Types5 == [
    CurrentTiltPosition |-> Auto(Choice(<< T("TiltPosition"), T("NULL") >>)),
    CurrentWhiteBalance |-> Auto(Choice(<< T("WhiteBalance"), T("NULL") >>)),
    CurrentZoomPosition |-> Auto(Choice(<< T("ZoomPosition"), T("NULL") >>)),
    H282_Day |-> Delegate(T("INTEGER")),
    DeviceAttribute |-> Auto(Choice(<< T("NULL"), T("NULL"), T("NULL"),
        T("DevicePresetCapability"), T("NULL"), T("NULL"), T("NULL"), T("CameraLensCapability"),
        T("CameraFilterCapability"), T("NULL"), T("ExternalCameraLightCapability"), T("NULL"),
        T("CameraPanSpeedCapability"), T("CameraTiltSpeedCapability"), T("NULL"),
        T("MaxBacklight"), T("MaxWhiteBalance"), T("NULL"), T("NULL"), T("NULL"), T("NULL"),
        T("NULL"), T("NULL"), T("NULL"), T("NULL"), T("NULL"), T("MinZoomPositionSetSize"),
        T("MinFocusPositionStepSize"), T("MinIrisPositionStepSize"), T("PanPositionCapability"),
        T("TiltPositionCapability"), T("MinZoomMagnificationStepSize"), T("NULL"), T("NULL"),
        T("MaxNumberOfSlides"), T("NULL"), T("NULL"), T("NULL"), T("MaxSlideDisplayTime"),
        T("NULL"), T("NULL"), T("NULL"), T("NULL"), T("NULL"), T("MaxNumberOfPrograms"),
        T("NULL"), T("NULL"), T("NULL"), T("NULL"), T("NULL"), T("PlayBackSpeedCapability"),
        T("NULL"), T("NULL"), T("NULL"), T("NULL"), T("NULL"), T("VideoInputsCapability"),
        T("VideoInputsCapability"), T("AudioInputsCapability"), T("AudioInputsCapability"),
        T("NULL"), T("NULL"), T("NULL"), T("NULL"), T("NULL"), T("NULL"), T("NULL"), T("NULL"),
        T("NULL"), T("NonStandardParameter") >>)),
    DeviceAttributeRequest |-> Auto(Sequence(<< T("Handle"), T("DeviceClass"), T("DeviceID") >>)),
    DeviceAttributeResponseResult |-> Auto(Choice(<< T("NULL"), T("NULL"), T("NULL") >>)),
    DeviceAttributeResponse |-> Auto(Sequence(<< T("Handle"), Opt(SetOf(T("DeviceAttribute"))),
        T("DeviceAttributeResponseResult") >>))]

H282Types6 == [
    DeviceClass |-> Auto(Choice(<< T("NULL"), T("NULL"), T("NULL"), T("NULL"), T("NULL"),
        T("NULL"), T("NonStandardIdentifier") >>)),
    DeviceControlRequest |-> Auto(Sequence(<< T("Handle"), T("DeviceClass"), T("DeviceID"),
        SetOf(T("ControlAttribute")) >>)),
    DeviceDate |-> Auto(Sequence(<< T("H282_Day"), T("H282_Month"), T("H282_Year") >>)),
    DeviceEvent |-> Auto(Choice(<< T("BOOLEAN"), T("BOOLEAN"), T("CameraPannedToLimit"),
        T("CameraTiltedToLimit"), T("CameraZoomedToLimit"), T("CameraFocusedToLimit"), T("NULL"),
        T("StreamPlayerState"), T("ProgramNumber"), T("NonStandardParameter") >>)),
    DeviceEventIdentifier |-> Auto(Choice(<< T("NULL"), T("NULL"), T("NULL"), T("NULL"),
        T("NULL"), T("NULL"), T("NULL"), T("NULL"), T("NULL"), T("NonStandardIdentifier") >>)),
    DeviceEventNotifyIndication |-> Auto(Sequence(<< T("DeviceClass"), T("DeviceID"),
        SetOf(T("DeviceEvent")) >>)),
    DeviceID |-> Delegate(T("INTEGER")),
    AnonymousDeviceInputsInputDevices |-> Auto(Sequence(<< T("DeviceClass"), T("DeviceID") >>)),
    DeviceInputsInputDevices |-> Delegate(SetOf(T("AnonymousDeviceInputsInputDevices"))),
    DeviceInputs |-> Auto(Sequence(<< SetOf(T("DeviceInputsInputDevices")) >>))]

H282Types7 == [
    DeviceLockEnquireRequest |-> Auto(Sequence(<< T("Handle"), T("DeviceClass"),
        T("DeviceID") >>)),
    DeviceLockEnquireResponseResult |-> Auto(Choice(<< T("NULL"), T("NULL"), T("NULL") >>)),
    DeviceLockEnquireResponse |-> Auto(Sequence(<< T("Handle"),
        T("DeviceLockEnquireResponseResult") >>)),
    DeviceLockRequest |-> Auto(Sequence(<< T("Handle"), T("DeviceClass"), T("DeviceID"),
        T("BOOLEAN") >>)),
    DeviceLockResponseResult |-> Auto(Choice(<< T("NULL"), T("NULL"), T("NULL"), T("NULL"),
        T("NULL") >>)),
    DeviceLockResponse |-> Auto(Sequence(<< T("Handle"), T("DeviceLockResponseResult") >>)),
    DeviceLockTerminatedIndication |-> Auto(Sequence(<< T("DeviceClass"), T("DeviceID") >>)),
    DevicePresetMode |-> Auto(Choice(<< T("NULL"), T("NULL") >>)),
    DevicePreset |-> Auto(Sequence(<< T("PresetNumber"), T("DevicePresetMode") >>))]

H282Types8 == [
    AnonymousDevicePresetCapabilityPresetCapability |-> Auto(Sequence(<< T("PresetNumber"),
        T("BOOLEAN"), T("DeviceText") >>)),
    DevicePresetCapabilityPresetCapability |->
        Delegate(SetOf(T("AnonymousDevicePresetCapabilityPresetCapability"))),
    DevicePresetCapability |-> Auto(Sequence(<< T("PresetNumber"),
        Opt(SetOf(T("DevicePresetCapabilityPresetCapability"))) >>)),
    DeviceProfile |-> Auto(Sequence(<< T("DeviceID"), T("BOOLEAN"), T("BOOLEAN"), T("BOOLEAN"),
        T("BOOLEAN"), T("BOOLEAN"), T("INTEGER"), Opt(T("TextString")) >>))]

H282Types9 == [
    DeviceState |-> Auto(Choice(<< T("NULL"), T("NULL") >>)),
    DeviceStatusEnquireRequest |-> Auto(Sequence(<< T("Handle"), T("DeviceClass"), T("DeviceID"),
        SetOf(T("StatusAttributeIdentifier")) >>)),
    DeviceStatusEnquireResponseResult |-> Auto(Choice(<< T("NULL"), T("NULL"), T("NULL"),
        T("NULL"), T("NULL") >>)),
    DeviceStatusEnquireResponse |-> Auto(Sequence(<< T("Handle"),
        Opt(SetOf(T("StatusAttribute"))), T("DeviceStatusEnquireResponseResult") >>)),
    DeviceText |-> Delegate(T("OCTET STRING")),
    DeviceTime |-> Auto(Sequence(<< T("Hour"), T("Minute") >>)),
    AnonymousExternalCameraLightCapabilityLightTextLabel |-> Auto(Sequence(<< T("INTEGER"),
        T("DeviceText") >>)),
    ExternalCameraLightCapabilityLightTextLabel |->
        Delegate(SetOf(T("AnonymousExternalCameraLightCapabilityLightTextLabel"))),
    ExternalCameraLightCapability |-> Auto(Sequence(<< T("INTEGER"),
        Opt(SetOf(T("ExternalCameraLightCapabilityLightTextLabel"))) >>)),
    FocusContinuousFocusDirection |-> Auto(Choice(<< T("NULL"), T("NULL"), T("NULL"),
        T("NULL") >>)),
    FocusContinuous |-> Auto(Sequence(<< T("FocusContinuousFocusDirection"), T("INTEGER") >>))]

H282Types10 == [
    FocusPosition |-> Delegate(T("INTEGER")),
    H221NonStandardIdentifier |-> Delegate(T("OCTET STRING")),
    Handle |-> Delegate(T("INTEGER")),
    Hour |-> Delegate(T("INTEGER")),
    IndicationPdu |-> Auto(Choice(<< T("SourceChangeEventIndication"),
        T("DeviceLockTerminatedIndication"), T("DeviceEventNotifyIndication"),
        T("NonStandardPdu") >>)),
    IrisContinuousIrisDirection |-> Auto(Choice(<< T("NULL"), T("NULL"), T("NULL"), T("NULL") >>)),
    IrisContinuous |-> Auto(Sequence(<< T("IrisContinuousIrisDirection"), T("INTEGER") >>)),
    IrisPosition |-> Delegate(T("INTEGER")),
    Key |-> Auto(Choice(<< T("OBJECT IDENTIFIER"), T("H221NonStandardIdentifier") >>)),
    MaxBacklight |-> Delegate(T("INTEGER")),
    MaxNumberOfPrograms |-> Delegate(T("INTEGER")),
    MaxNumberOfSlides |-> Delegate(T("INTEGER")),
    MaxSlideDisplayTime |-> Delegate(T("INTEGER")),
    MaxWhiteBalance |-> Delegate(T("INTEGER")),
    MinFocusPositionStepSize |-> Delegate(T("INTEGER")),
    MinIrisPositionStepSize |-> Delegate(T("INTEGER")),
    MinZoomMagnificationStepSize |-> Delegate(T("INTEGER")),
    MinZoomPositionSetSize |-> Delegate(T("INTEGER")),
    Minute |-> Delegate(T("INTEGER")),
    H282_Mode |-> Auto(Choice(<< T("NULL"), T("NULL") >>)),
    H282_Month |-> Delegate(T("INTEGER")),
    AnonymousNonCollapsingCapabilitiesApplicationData |->
        Auto(Choice(<< SetOf(T("DeviceProfile")), SetOf(T("StreamProfile")) >>)),
    AnonymousNonCollapsingCapabilities |-> Auto(Sequence(<< T("CapabilityID"),
        T("AnonymousNonCollapsingCapabilitiesApplicationData") >>)),
    NonCollapsingCapabilities |-> Delegate(SetOf(T("AnonymousNonCollapsingCapabilities")))]

H282Types11 == [
    NonStandardIdentifier |-> Auto(Choice(<< T("OBJECT IDENTIFIER"),
        T("H221NonStandardIdentifier") >>)),
    NonStandardPdu |-> Auto(Sequence(<< T("NonStandardParameter") >>)),
    NonStandardParameter |-> Auto(Sequence(<< T("Key"), T("OCTET STRING") >>)),
    PanContinuousPanDirection |-> Auto(Choice(<< T("NULL"), T("NULL"), T("NULL"), T("NULL") >>)),
    PanContinuous |-> Auto(Sequence(<< T("PanContinuousPanDirection"), T("INTEGER") >>)),
    PanPosition |-> Delegate(T("INTEGER")),
    PanPositionCapability |-> Auto(Sequence(<< T("INTEGER"), T("INTEGER"), T("INTEGER") >>)),
    PanView |-> Delegate(T("INTEGER")),
    PlayBackSpeedCapability |-> Auto(Sequence(<< SetOf(T("INTEGER")), SetOf(T("INTEGER")) >>)),
    PlaybackSpeed |-> Auto(Sequence(<< T("INTEGER"), T("BOOLEAN") >>)),
    PointingToggle |-> Auto(Choice(<< T("NULL"), T("NULL"), T("NULL") >>)),
    PositioningMode |-> Auto(Choice(<< T("NULL"), T("NULL") >>)),
    PresetNumber |-> Delegate(T("INTEGER"))]

H282Types12 == [
    ProgramDuration |-> Auto(Sequence(<< T("INTEGER"), T("INTEGER"), T("INTEGER"),
        T("INTEGER") >>)),
    ProgramNumber |-> Delegate(T("INTEGER")),
    RdcPdu |-> Auto(Choice(<< T("RequestPdu"), T("ResponsePdu"), T("IndicationPdu") >>)),
    RecordForDuration |-> Auto(Sequence(<< T("INTEGER"), T("INTEGER"), T("INTEGER") >>)),
    RequestPdu |-> Auto(Choice(<< T("SourceSelectRequest"), T("SourceEventsRequest"),
        T("DeviceAttributeRequest"), T("DeviceLockRequest"), T("DeviceLockEnquireRequest"),
        T("DeviceControlRequest"), T("DeviceStatusEnquireRequest"),
        T("ConfigureDeviceEventsRequest"), T("NonStandardPdu") >>)),
    ResponsePdu |-> Auto(Choice(<< T("SourceSelectResponse"), T("SourceEventsResponse"),
        T("DeviceAttributeResponse"), T("DeviceLockResponse"), T("DeviceLockEnquireResponse"),
        T("DeviceStatusEnquireResponse"), T("ConfigureDeviceEventsResponse"),
        T("NonStandardPdu") >>)),
    SelectDirection |-> Auto(Choice(<< T("NULL"), T("NULL") >>)),
    SelectExternalLight |-> Auto(Choice(<< T("INTEGER"), T("NULL") >>)),
    SetFocusPosition |-> Auto(Sequence(<< T("FocusPosition"), T("PositioningMode") >>)),
    SetIrisPosition |-> Auto(Sequence(<< T("IrisPosition"), T("PositioningMode") >>)),
    SetPanPosition |-> Auto(Sequence(<< T("PanPosition"), T("PositioningMode") >>))]

H282Types13 == [
    SetTiltPosition |-> Auto(Sequence(<< T("TiltPosition"), T("PositioningMode") >>)),
    SetZoomPosition |-> Auto(Sequence(<< T("ZoomPosition"), T("PositioningMode") >>)),
    SlideNumber |-> Delegate(T("INTEGER")),
    SourceChangeEventIndication |-> Auto(Sequence(<< T("DeviceClass"), T("DeviceID") >>)),
    SourceEventsRequest |-> Auto(Sequence(<< T("Handle"), T("StreamID"), T("BOOLEAN") >>)),
    SourceEventsResponseResult |-> Auto(Choice(<< T("NULL"), T("NULL"), T("NULL") >>)),
    SourceEventsResponse |-> Auto(Sequence(<< T("Handle"), T("DeviceClass"), T("DeviceID"),
        T("SourceEventsResponseResult") >>)),
    SourceSelectRequest |-> Auto(Sequence(<< T("Handle"), T("DeviceClass"), T("DeviceID"),
        T("StreamID") >>))]

H282Types14 == [
    SourceSelectResponseResult |-> Auto(Choice(<< T("NULL"), T("NULL"), T("NULL"), T("NULL"),
        T("NULL"), T("NULL") >>)),
    SourceSelectResponse |-> Auto(Sequence(<< T("Handle"), T("SourceSelectResponseResult") >>)),
    StatusAttribute |-> Auto(Choice(<< T("CurrentDeviceState"), T("CurrentDeviceDate"),
        T("CurrentDeviceTime"), T("CurrentDevicePreset"), T("CurrentMode"), T("CurrentMode"),
        T("CurrentMode"), T("CurrentPointingMode"), T("CurrentCameraLensNumber"),
        T("CurrentCameraFilterNumber"), T("CurrentExternalLight"), T("CurrentCameraPanSpeed"),
        T("CurrentCameraTiltSpeed"), T("CurrentBackLight"), T("CurrentWhiteBalance"),
        T("CurrentMode"), T("CurrentZoomPosition"), T("CurrentFocusPosition"),
        T("CurrentIrisPosition"), T("CurrentPanPosition"), T("CurrentTiltPosition"),
        T("CurrentSlide"), T("CurrentAutoSlideDisplayTime"), T("CurrentSelectedProgram"),
        T("CurrentStreamPlayerState"), T("ProgramDuration"), T("CurrentPlaybackSpeed"),
        T("CurrentAudioOutputMute"), T("DeviceInputs"), T("DeviceInputs"), T("DeviceInputs"),
        T("DeviceInputs"), T("NonStandardParameter") >>)),
    StatusAttributeIdentifier |-> Auto(Choice(<< T("NULL"), T("NULL"), T("NULL"), T("NULL"),
        T("NULL"), T("NULL"), T("NULL"), T("NULL"), T("NULL"), T("NULL"), T("NULL"), T("NULL"),
        T("NULL"), T("NULL"), T("NULL"), T("NULL"), T("NULL"), T("NULL"), T("NULL"), T("NULL"),
        T("NULL"), T("NULL"), T("NULL"), T("NULL"), T("NULL"), T("NULL"), T("NULL"), T("NULL"),
        T("NULL"), T("NULL"), T("NULL"), T("NULL"), T("NULL"), T("NonStandardIdentifier") >>)),
    StreamID |-> Delegate(T("INTEGER")),
    StreamPlayerState |-> Auto(Choice(<< T("NULL"), T("NULL"), T("NULL"), T("NULL"), T("NULL"),
        T("NULL"), T("NULL"), T("NULL"), T("NULL"), T("NULL") >>)),
    StreamProfile |-> Auto(Sequence(<< T("StreamID"), T("BOOLEAN"), T("BOOLEAN"),
        Opt(T("TextString")) >>))]

H282Types15 == [
    TextString |-> Delegate(T("BMPString")),
    TiltContinuousTiltDirection |-> Auto(Choice(<< T("NULL"), T("NULL"), T("NULL"), T("NULL") >>)),
    TiltContinuous |-> Auto(Sequence(<< T("TiltContinuousTiltDirection"), T("INTEGER") >>)),
    TiltPosition |-> Delegate(T("INTEGER")),
    TiltPositionCapability |-> Auto(Sequence(<< T("INTEGER"), T("INTEGER"), T("INTEGER") >>)),
    TiltView |-> Delegate(T("INTEGER")),
    AnonymousVideoInputsCapabilityAvailableDevices |-> Auto(Sequence(<< T("DeviceClass"),
        T("DeviceID") >>)),
    VideoInputsCapabilityAvailableDevices |->
        Delegate(SetOf(T("AnonymousVideoInputsCapabilityAvailableDevices"))),
    VideoInputsCapability |-> Auto(Sequence(<< T("INTEGER"), T("INTEGER"),
        Opt(SetOf(T("VideoInputsCapabilityAvailableDevices"))) >>)),
    WhiteBalance |-> Delegate(T("INTEGER")),
    H282_Year |-> Delegate(T("INTEGER")),
    ZoomContinuousZoomDirection |-> Auto(Choice(<< T("NULL"), T("NULL"), T("NULL"), T("NULL") >>)),
    ZoomContinuous |-> Auto(Sequence(<< T("ZoomContinuousZoomDirection"), T("INTEGER") >>)),
    ZoomMagnification |-> Delegate(T("INTEGER")),
    ZoomPosition |-> Delegate(T("INTEGER"))]

LdapTypes1 == [
    MessageId |-> Alias(T("INTEGER")),
    LdapString |-> Tagged(Universal(4), Delegate(T("OCTET STRING")))]

LdapTypes2 == [
    LdapOid |-> Alias(T("OCTET STRING")),
    LdapDn |-> Alias(T("LdapString")),
    RelativeLdapDn |-> Alias(T("LdapString")),
    AttributeDescription |-> Alias(T("LdapString")),
    Ldap_AttributeValue |-> Alias(T("OCTET STRING")),
    AssertionValue |-> Alias(T("OCTET STRING")),
    MatchingRuleId |-> Alias(T("LdapString")),
    Referral |-> Alias(SequenceOf(T("Uri"))),
    Uri |-> Alias(T("LdapString")),
    Controls |-> Alias(SequenceOf(T("Control"))),
    AttributeSelection |-> Alias(SequenceOf(T("LdapString"))),
    PartialAttributeList |-> Alias(SequenceOf(T("PartialAttribute"))),
    AttributeList |-> Alias(SequenceOf(T("Ldap_Attribute"))),
    LdapMessage |-> Sequence(<< T("MessageId"), T("ProtocolOp"), Opt(I(0, T("Controls"))) >>),
    ProtocolOp |-> Choice(<< T("BindRequest"), T("BindResponse"), T("UnbindRequest"),
        T("SearchRequest"), T("SearchResultEntry"), T("SearchResultDone"),
        T("SearchResultReference"), T("ModifyRequest"), T("ModifyResponse"), T("AddRequest"),
        T("AddResponse"), T("DelRequest"), T("DelResponse"), T("ModifyDnRequest"),
        T("ModifyDnResponse"), T("CompareRequest"), T("CompareResponse"), T("AbandonRequest"),
        T("ExtendedRequest"), T("ExtendedResponse"), T("IntermediateResponse") >>),
    AttributeValueAssertion |-> Sequence(<< T("AttributeDescription"), T("AssertionValue") >>),
    PartialAttribute |-> Sequence(<< T("AttributeDescription"),
        SetOf(T("Ldap_AttributeValue")) >>),
    Ldap_Attribute |-> Sequence(<< T("AttributeDescription"), SetOf(T("Ldap_AttributeValue")) >>),
    LdapResult |-> Sequence(<< T("ResultCode"), T("LdapDn"), T("LdapString"),
        Opt(I(3, T("Referral"))) >>)]

LdapTypes3 == [
    ResultCode |-> Enumerated,
    Control |-> Sequence(<< T("LdapOid"), Def(T("BOOLEAN")), Opt(T("OCTET STRING")) >>),
    BindRequest |-> Tagged(Application(0), Sequence(<< T("INTEGER"), T("LdapDn"),
        T("AuthenticationChoice") >>)),
    AuthenticationChoice |-> Choice(<< I(0, T("OCTET STRING")), I(3, T("SaslCredentials")) >>),
    SaslCredentials |-> Sequence(<< T("LdapString"), Opt(T("OCTET STRING")) >>)]

LdapTypes4 == [
    BindResponse |-> Tagged(Application(1), Sequence(<< T("ResultCode"), T("LdapDn"),
        T("LdapString"), Opt(I(3, T("Referral"))), Opt(I(7, T("OCTET STRING"))) >>)),
    UnbindRequest |-> Tagged(Application(2), Null),
    SearchRequest |-> Tagged(Application(3), Sequence(<< T("LdapDn"), T("SearchRequestScope"),
        T("SearchRequestDerefAliases"), T("INTEGER"), T("INTEGER"), T("BOOLEAN"), T("Filter"),
        T("AttributeSelection") >>))]

LdapTypes5 == [
    SearchRequestScope |-> Enumerated,
    SearchRequestDerefAliases |-> Enumerated,
    Filter |-> Choice(<< I(0, SetOf(T("Filter"))), I(1, SetOf(T("Filter"))), I(2, T("Filter")),
        I(3, T("AttributeValueAssertion")), I(4, T("SubstringFilter")),
        I(5, T("AttributeValueAssertion")), I(6, T("AttributeValueAssertion")),
        I(7, T("AttributeDescription")), I(8, T("AttributeValueAssertion")),
        I(9, T("MatchingRuleAssertion")) >>),
    SubstringFilter |-> Sequence(<< T("AttributeDescription"),
        SequenceOf(T("SubstringChoice")) >>)]

LdapTypes6 == [
    SubstringChoice |-> Choice(<< I(0, T("AssertionValue")), I(1, T("AssertionValue")),
        I(2, T("AssertionValue")) >>),
    MatchingRuleAssertion |-> Sequence(<< Opt(I(1, T("MatchingRuleId"))),
        Opt(I(2, T("AttributeDescription"))), I(3, T("AssertionValue")),
        Def(I(4, T("BOOLEAN"))) >>),
    SearchResultEntry |-> Tagged(Application(4), Sequence(<< T("LdapDn"),
        T("PartialAttributeList") >>)),
    SearchResultReference |-> Tagged(Application(19), Delegate(SequenceOf(T("Uri")))),
    SearchResultDone |-> Tagged(Application(5), Delegate(T("LdapResult"))),
    ModifyRequest |-> Tagged(Application(6), Sequence(<< T("LdapDn"),
        SequenceOf(T("ModifyRequestChanges")) >>)),
    ModifyRequestChanges |-> Sequence(<< T("ChangeOperation"), T("PartialAttribute") >>),
    ChangeOperation |-> Enumerated]

LdapTypes7 == [
    ModifyResponse |-> Tagged(Application(7), Delegate(T("LdapResult"))),
    AddRequest |-> Tagged(Application(8), Sequence(<< T("LdapDn"), T("AttributeList") >>)),
    AddResponse |-> Tagged(Application(9), Delegate(T("LdapResult"))),
    DelRequest |-> Tagged(Application(10), Delegate(T("LdapDn"))),
    DelResponse |-> Tagged(Application(11), Delegate(T("LdapResult"))),
    ModifyDnRequest |-> Tagged(Application(12), Sequence(<< T("LdapDn"), T("RelativeLdapDn"),
        T("BOOLEAN"), Opt(I(0, T("LdapDn"))) >>)),
    ModifyDnResponse |-> Tagged(Application(13), Delegate(T("LdapResult"))),
    CompareRequest |-> Tagged(Application(14), Sequence(<< T("LdapDn"),
        T("AttributeValueAssertion") >>)),
    CompareResponse |-> Tagged(Application(15), Delegate(T("LdapResult"))),
    AbandonRequest |-> Tagged(Application(16), Delegate(T("MessageId")))]

LdapTypes8 == [
    ExtendedRequest |-> Tagged(Application(23), Sequence(<< I(0, T("LdapOid")),
        Opt(I(1, T("OCTET STRING"))) >>)),
    ExtendedResponse |-> Tagged(Application(24), Sequence(<< T("ResultCode"), T("LdapDn"),
        T("LdapString"), Opt(I(3, T("Referral"))), Opt(I(10, T("LdapOid"))),
        Opt(I(11, T("OCTET STRING"))) >>)),
    IntermediateResponse |-> Tagged(Application(25), Sequence(<< Opt(I(0, T("LdapOid"))),
        Opt(I(1, T("OCTET STRING"))) >>))]

KerberosTypes1 == [
    HostAddresses |-> Alias(SequenceOf(T("HostAddress"))),
    AdMandatoryForKdc |-> Alias(T("AuthorizationData")),
    AdIfRelevant |-> Alias(T("AuthorizationData")),
    EtypeInfo2 |-> Alias(SequenceOf(T("EtypeInfo2Entry"))),
    EtypeInfo |-> Alias(SequenceOf(T("EtypeInfoEntry"))),
    PaEncTimestamp |-> Alias(T("Kerberos_EncryptedData")),
    LastReq |-> Alias(SequenceOf(T("LastReqValue"))),
    MethodData |-> Alias(SequenceOf(T("PaData"))),
    KerberosString |-> Alias(T("GeneralString")),
    ETypeList |-> Alias(SequenceOf(T("INTEGER"))),
    Realm |-> Alias(T("KerberosString")),
    Microseconds |-> Alias(T("INTEGER")),
    PrincipalName |-> Sequence(<< E(0, T("INTEGER")), E(1, SequenceOf(T("KerberosString"))) >>),
    KerberosTime |-> Delegate(T("GeneralizedTime")),
    HostAddress |-> Sequence(<< E(0, T("INTEGER")), E(1, T("OCTET STRING")) >>),
    AuthorizationData |-> Alias(SequenceOf(T("AuthorizationDataValue"))),
    AuthorizationDataValue |-> Sequence(<< E(0, T("INTEGER")), E(1, T("OCTET STRING")) >>),
    PaData |-> Sequence(<< E(1, T("INTEGER")), E(2, T("OCTET STRING")) >>),
    KerberosFlags |-> Alias(T("BIT STRING")),
    Kerberos_EncryptedData |-> Sequence(<< E(0, T("INTEGER")), Opt(E(1, T("INTEGER"))),
        E(2, T("OCTET STRING")) >>),
    Kerberos_EncryptionKey |-> Sequence(<< E(0, T("INTEGER")), E(1, T("OCTET STRING")) >>)]

KerberosTypes2 == [
    Checksum |-> Sequence(<< E(0, T("INTEGER")), E(1, T("OCTET STRING")) >>),
    Ticket |-> ExplicitlyTagged(Application(1), Sequence(<< E(0, T("INTEGER")), E(1, T("Realm")),
        E(2, T("PrincipalName")), E(3, T("Kerberos_EncryptedData")) >>)),
    EncTicketPart |-> ExplicitlyTagged(Application(3), Sequence(<< E(0, T("TicketFlags")),
        E(1, T("Kerberos_EncryptionKey")), E(2, T("Realm")), E(3, T("PrincipalName")),
        E(4, T("TransitedEncoding")), E(5, T("KerberosTime")), Opt(E(6, T("KerberosTime"))),
        E(7, T("KerberosTime")), Opt(E(8, T("KerberosTime"))), Opt(E(9, T("HostAddresses"))),
        Opt(E(10, T("AuthorizationData"))) >>)),
    TransitedEncoding |-> Sequence(<< E(0, T("INTEGER")), E(1, T("OCTET STRING")) >>),
    TicketFlags |-> Delegate(T("KerberosFlags"))]

KerberosTypes3 == [
    AsReq |-> ExplicitlyTagged(Application(10), Delegate(T("KdcReq"))),
    TgsReq |-> ExplicitlyTagged(Application(12), Delegate(T("KdcReq"))),
    KdcReq |-> Sequence(<< E(1, T("INTEGER")), E(2, T("INTEGER")),
        Opt(E(3, SequenceOf(T("PaData")))), E(4, T("KdcReqBody")) >>),
    KdcReqBody |-> Sequence(<< E(0, T("KdcOptions")), Opt(E(1, T("PrincipalName"))),
        E(2, T("Realm")), Opt(E(3, T("PrincipalName"))), Opt(E(4, T("KerberosTime"))),
        E(5, T("KerberosTime")), Opt(E(6, T("KerberosTime"))), E(7, T("INTEGER")),
        E(8, SequenceOf(T("INTEGER"))), Opt(E(9, T("HostAddresses"))),
        Opt(E(10, T("Kerberos_EncryptedData"))), Opt(E(11, SequenceOf(T("Ticket")))) >>),
    KdcOptions |-> Delegate(T("KerberosFlags"))]

KerberosTypes4 == [
    AsRep |-> ExplicitlyTagged(Application(11), Delegate(T("KdcRep"))),
    TgsRep |-> ExplicitlyTagged(Application(13), Delegate(T("KdcRep"))),
    KdcRep |-> Sequence(<< E(0, T("INTEGER")), E(1, T("INTEGER")),
        Opt(E(2, SequenceOf(T("PaData")))), E(3, T("Realm")), E(4, T("PrincipalName")),
        E(5, T("Ticket")), E(6, T("Kerberos_EncryptedData")) >>),
    EncAsRepPart |-> ExplicitlyTagged(Application(25), Delegate(T("EncKdcRepPart"))),
    EncTgsRepPart |-> ExplicitlyTagged(Application(26), Delegate(T("EncKdcRepPart"))),
    EncKdcRepPart |-> Sequence(<< E(0, T("Kerberos_EncryptionKey")), E(1, T("LastReq")),
        E(2, T("INTEGER")), Opt(E(3, T("KerberosTime"))), E(4, T("TicketFlags")),
        E(5, T("KerberosTime")), Opt(E(6, T("KerberosTime"))), E(7, T("KerberosTime")),
        Opt(E(8, T("KerberosTime"))), E(9, T("Realm")), E(10, T("PrincipalName")),
        Opt(E(11, T("HostAddresses"))), Opt(E(12, SequenceOf(T("PaData")))) >>)]

KerberosTypes5 == [
    LastReqValue |-> Sequence(<< E(0, T("INTEGER")), E(1, T("KerberosTime")) >>),
    ApReq |-> ExplicitlyTagged(Application(14), Sequence(<< E(0, T("INTEGER")),
        E(1, T("INTEGER")), E(2, T("ApOptions")), E(3, T("Ticket")),
        E(4, T("Kerberos_EncryptedData")) >>)),
    ApOptions |-> Delegate(T("KerberosFlags"))]

KerberosTypes6 == [
    Authenticator |-> ExplicitlyTagged(Application(2), Sequence(<< E(0, T("INTEGER")),
        E(1, T("Realm")), E(2, T("PrincipalName")), Opt(E(3, T("Checksum"))),
        E(4, T("Microseconds")), E(5, T("KerberosTime")), Opt(E(6, T("Kerberos_EncryptionKey"))),
        Opt(E(7, T("INTEGER"))), Opt(E(8, T("AuthorizationData"))) >>)),
    ApRep |-> ExplicitlyTagged(Application(15), Sequence(<< E(0, T("INTEGER")),
        E(1, T("INTEGER")), E(2, T("Kerberos_EncryptedData")) >>)),
    EncApRepPart |-> ExplicitlyTagged(Application(27), Sequence(<< E(0, T("KerberosTime")),
        E(1, T("Microseconds")), Opt(E(2, T("Kerberos_EncryptionKey"))),
        Opt(E(3, T("INTEGER"))) >>)),
    KrbSafe |-> ExplicitlyTagged(Application(20), Sequence(<< E(0, T("INTEGER")),
        E(1, T("INTEGER")), E(2, T("KrbSafeBody")), E(3, T("Checksum")) >>)),
    KrbSafeBody |-> Sequence(<< E(0, T("OCTET STRING")), Opt(E(1, T("KerberosTime"))),
        Opt(E(2, T("Microseconds"))), Opt(E(3, T("INTEGER"))), E(4, T("HostAddress")),
        Opt(E(5, T("HostAddress"))) >>)]

KerberosTypes7 == [
    KrbPriv |-> ExplicitlyTagged(Application(21), Sequence(<< E(0, T("INTEGER")),
        E(1, T("INTEGER")), E(3, T("Kerberos_EncryptedData")) >>)),
    EncKrbPrivPart |-> ExplicitlyTagged(Application(28), Sequence(<< E(0, T("OCTET STRING")),
        Opt(E(1, T("KerberosTime"))), Opt(E(2, T("Microseconds"))), Opt(E(3, T("INTEGER"))),
        E(4, T("HostAddress")), Opt(E(5, T("HostAddress"))) >>)),
    KrbCred |-> ExplicitlyTagged(Application(22), Sequence(<< E(0, T("INTEGER")),
        E(1, T("INTEGER")), E(2, SequenceOf(T("Ticket"))), E(3, T("Kerberos_EncryptedData")) >>)),
    EncKrbCredPart |-> ExplicitlyTagged(Application(29),
        Sequence(<< E(0, SequenceOf(T("KrbCredInfo"))), Opt(E(1, T("INTEGER"))),
        Opt(E(2, T("KerberosTime"))), Opt(E(3, T("Microseconds"))), Opt(E(4, T("HostAddress"))),
        Opt(E(5, T("HostAddress"))) >>)),
    KrbCredInfo |-> Sequence(<< E(0, T("Kerberos_EncryptionKey")), Opt(E(1, T("Realm"))),
        Opt(E(2, T("PrincipalName"))), Opt(E(3, T("TicketFlags"))), Opt(E(4, T("KerberosTime"))),
        Opt(E(5, T("KerberosTime"))), Opt(E(6, T("KerberosTime"))), Opt(E(7, T("KerberosTime"))),
        Opt(E(8, T("Realm"))), Opt(E(9, T("PrincipalName"))), Opt(E(10, T("HostAddresses"))) >>)]

KerberosTypes8 == [
    KrbError |-> ExplicitlyTagged(Application(30), Sequence(<< E(0, T("INTEGER")),
        E(1, T("INTEGER")), Opt(E(2, T("KerberosTime"))), Opt(E(3, T("Microseconds"))),
        E(4, T("KerberosTime")), E(5, T("Microseconds")), E(6, T("INTEGER")),
        Opt(E(7, T("Realm"))), Opt(E(8, T("PrincipalName"))), E(9, T("Realm")),
        E(10, T("PrincipalName")), Opt(E(11, T("KerberosString"))),
        Opt(E(12, T("OCTET STRING"))) >>)),
    TypedData |-> Alias(SequenceOf(T("TypedDataItem"))),
    TypedDataItem |-> Sequence(<< E(0, T("INTEGER")), Opt(E(1, T("OCTET STRING"))) >>),
    PaEncTsEnc |-> Sequence(<< E(0, T("KerberosTime")), Opt(E(1, T("Microseconds"))) >>),
    EtypeInfoEntry |-> Sequence(<< E(0, T("INTEGER")), Opt(E(1, T("OCTET STRING"))) >>),
    EtypeInfo2Entry |-> Sequence(<< E(0, T("INTEGER")), Opt(E(1, T("KerberosString"))),
        Opt(E(2, T("OCTET STRING"))) >>),
    AdKdcIssued |-> Sequence(<< E(0, T("Checksum")), Opt(E(1, T("Realm"))),
        Opt(E(2, T("PrincipalName"))), E(3, T("AuthorizationData")) >>),
    AdAndOr |-> Sequence(<< E(0, T("INTEGER")), E(1, T("AuthorizationData")) >>),
    AdCammac |-> Sequence(<< E(0, T("AuthorizationData")), Opt(E(1, T("VerifierMac"))),
        Opt(E(2, T("VerifierMac"))), E(3, SequenceOf(T("Verifier"))) >>)]

KerberosTypes9 == [
    Verifier |-> Choice(<< T("VerifierMac") >>),
    VerifierMac |-> Sequence(<< Opt(E(0, T("PrincipalName"))), Opt(E(1, T("INTEGER"))),
        Opt(E(2, T("INTEGER"))), E(3, T("Checksum")) >>),
    AdLoginAlias |-> Sequence(<< E(0, SequenceOf(T("PrincipalName"))) >>)]

KerberosTypes10 == [
    Kerberos_AnyUri |-> Alias(T("UTF8String")),
    AdAuthenticationIndicator |-> Alias(SequenceOf(T("UTF8String"))),
    PinFlags |-> Delegate(T("KerberosFlags")),
    PaOtpChallenge |-> Sequence(<< I(0, T("OCTET STRING")), Opt(I(1, T("UTF8String"))),
        I(2, SequenceOf(T("OtpTokenInfo"))), Opt(I(3, T("KerberosString"))),
        Opt(I(4, T("OCTET STRING"))) >>),
    OtpTokenInfo |-> Sequence(<< I(0, T("OtpFlags")), Opt(I(1, T("UTF8String"))),
        Opt(I(2, T("OCTET STRING"))), Opt(I(3, T("INTEGER"))), Opt(I(4, T("OtpFormat"))),
        Opt(I(5, T("OCTET STRING"))), Opt(I(6, T("Kerberos_AnyUri"))),
        Opt(I(7, SequenceOf(T("Pkix_AlgorithmIdentifier")))), Opt(I(8, T("INTEGER"))) >>),
    OtpFormat |-> Delegate(T("INTEGER"))]

KerberosTypes11 == [
    OtpFlags |-> Delegate(T("KerberosFlags"))]

KerberosTypes12 == [
    PaOtpRequest |-> Sequence(<< I(0, T("OtpFlags")), Opt(I(1, T("OCTET STRING"))),
        I(2, T("Kerberos_EncryptedData")), Opt(I(3, T("Pkix_AlgorithmIdentifier"))),
        Opt(I(4, T("INTEGER"))), Opt(I(5, T("OCTET STRING"))), Opt(I(6, T("UTF8String"))),
        Opt(I(7, T("OCTET STRING"))), Opt(I(8, T("KerberosTime"))), Opt(I(9, T("OCTET STRING"))),
        Opt(I(10, T("OtpFormat"))), Opt(I(11, T("OCTET STRING"))),
        Opt(I(12, T("Kerberos_AnyUri"))), Opt(I(13, T("UTF8String"))) >>),
    PaOtpEncRequest |-> Sequence(<< I(0, T("OCTET STRING")) >>),
    PaOtpPinChange |-> Sequence(<< I(0, T("PinFlags")), Opt(I(1, T("UTF8String"))),
        Opt(I(2, T("INTEGER"))), Opt(I(3, T("INTEGER"))), Opt(I(4, T("LastReq"))),
        Opt(I(5, T("OtpFormat"))) >>)]

Smi1Types1 == [
    Smi1_ObjectName |-> Alias(T("OBJECT IDENTIFIER")),
    Smi1_ObjectSyntax |-> Choice(<< T("Smi1_SimpleSyntax"), T("Smi1_ApplicationSyntax") >>),
    Smi1_SimpleSyntax |-> Choice(<< T("INTEGER"), T("OCTET STRING"), T("OBJECT IDENTIFIER"),
        T("NULL") >>),
    Smi1_ApplicationSyntax |-> Choice(<< T("Smi1_NetworkAddress"), T("Counter"), T("Gauge"),
        T("Smi1_TimeTicks"), T("Smi1_Opaque") >>),
    Smi1_NetworkAddress |-> Choice(<< T("Smi1_IpAddress") >>),
    Smi1_IpAddress |-> Tagged(Application(0), Delegate(T("OCTET STRING"))),
    Counter |-> Tagged(Application(1), Delegate(T("INTEGER"))),
    Gauge |-> Tagged(Application(2), Delegate(T("INTEGER"))),
    Smi1_TimeTicks |-> Tagged(Application(3), Delegate(T("INTEGER"))),
    Smi1_Opaque |-> Tagged(Application(4), Delegate(T("OCTET STRING")))]

Smi2Types1 == [
    Smi2_ObjectName |-> Alias(T("Smi1_ObjectName")),
    NotificationName |-> Alias(T("OBJECT IDENTIFIER")),
    Smi2_IpAddress |-> Alias(T("Smi1_IpAddress")),
    Counter32 |-> Alias(T("Counter")),
    Integer32 |-> Alias(T("INTEGER")),
    Gauge32 |-> Alias(T("Unsigned32")),
    Unsigned32 |-> Alias(T("Gauge")),
    Smi2_TimeTicks |-> Alias(T("Smi1_TimeTicks")),
    Smi2_Opaque |-> Alias(T("Smi1_Opaque")),
    Counter64 |-> Tagged(Application(6), Delegate(T("INTEGER"))),
    Smi2_ObjectSyntax |-> Choice(<< T("Smi2_SimpleSyntax"), T("Smi2_ApplicationSyntax") >>),
    Smi2_SimpleSyntax |-> Choice(<< T("INTEGER"), T("OCTET STRING"), T("OBJECT IDENTIFIER") >>),
    Smi2_ApplicationSyntax |-> Choice(<< T("Smi2_IpAddress"), T("Counter32"), T("Smi2_TimeTicks"),
        T("Smi2_Opaque"), T("Counter64"), T("Unsigned32") >>)]

Snmp1Types1 == [
    Snmp1_Message |-> Sequence(<< T("INTEGER"), T("OCTET STRING"), T("Snmp1_Pdus") >>),
    Snmp1_Pdus |-> Choice(<< T("Snmp1_GetRequest"), T("Snmp1_GetNextRequest"), T("GetResponse"),
        T("Snmp1_SetRequest"), T("Snmp1_Trap") >>),
    Snmp1_GetRequest |-> Tagged(Context(0), Delegate(T("Snmp1_Pdu"))),
    Snmp1_GetNextRequest |-> Tagged(Context(1), Delegate(T("Snmp1_Pdu"))),
    GetResponse |-> Tagged(Context(2), Delegate(T("Snmp1_Pdu"))),
    Snmp1_SetRequest |-> Tagged(Context(3), Delegate(T("Snmp1_Pdu"))),
    Snmp1_VarBindList |-> Alias(SequenceOf(T("Snmp1_VarBind"))),
    Snmp1_Pdu |-> Sequence(<< T("INTEGER"), T("INTEGER"), T("INTEGER"), T("Snmp1_VarBindList") >>),
    Snmp1_Trap |-> Tagged(Context(4), Sequence(<< T("OBJECT IDENTIFIER"),
        T("Smi1_NetworkAddress"), T("INTEGER"), T("INTEGER"), T("Smi1_TimeTicks"),
        T("Snmp1_VarBindList") >>)),
    Snmp1_VarBind |-> Sequence(<< T("Smi1_ObjectName"), T("Smi1_ObjectSyntax") >>)]

Snmp2Types1 == [
    Snmp2_Pdus |-> Choice(<< T("Snmp2_GetRequest"), T("Snmp2_GetNextRequest"), T("Response"),
        T("Snmp2_SetRequest"), T("GetBulkRequest"), T("InformRequest"), T("Snmp2_Trap"),
        T("Report") >>),
    Snmp2_GetRequest |-> Tagged(Context(0), Delegate(T("Snmp2_Pdu"))),
    Snmp2_GetNextRequest |-> Tagged(Context(1), Delegate(T("Snmp2_Pdu"))),
    Response |-> Tagged(Context(2), Delegate(T("Snmp2_Pdu"))),
    Snmp2_SetRequest |-> Tagged(Context(3), Delegate(T("Snmp2_Pdu"))),
    GetBulkRequest |-> Tagged(Context(5), Delegate(T("BulkPdu"))),
    InformRequest |-> Tagged(Context(6), Delegate(T("Snmp2_Pdu"))),
    Snmp2_Trap |-> Tagged(Context(7), Delegate(T("Snmp2_Pdu"))),
    Report |-> Tagged(Context(8), Delegate(T("Snmp2_Pdu"))),
    Snmp2_Pdu |-> Sequence(<< T("INTEGER"), T("INTEGER"), T("INTEGER"), T("Snmp2_VarBindList") >>)]

Snmp2Types2 == [
    BulkPdu |-> Sequence(<< T("INTEGER"), T("INTEGER"), T("INTEGER"), T("Snmp2_VarBindList") >>),
    Snmp2_VarBindList |-> Alias(SequenceOf(T("Snmp2_VarBind"))),
    Snmp2_VarBind |-> Sequence(<< T("Smi2_ObjectName"), T("VarBindValue") >>),
    VarBindValue |-> Choice(<< T("Smi2_ObjectSyntax"), T("NULL"), I(0, T("NULL")),
        I(1, T("NULL")), I(2, T("NULL")) >>)]

Snmp2Types3 == [
    Snmp2_Message |-> Sequence(<< T("INTEGER"), T("OCTET STRING"), T("Snmp2_Pdus") >>)]

Snmp3Types1 == [
    Snmp3_Message |-> Sequence(<< T("INTEGER"), T("HeaderData"), T("OCTET STRING"),
        T("ScopedPduData") >>)]

Snmp3Types2 == [
    HeaderData |-> Sequence(<< T("INTEGER"), T("INTEGER"), T("OCTET STRING"), T("INTEGER") >>),
    ScopedPduData |-> Choice(<< T("ScopedPdu"), T("OCTET STRING") >>),
    ScopedPdu |-> Sequence(<< T("OCTET STRING"), T("OCTET STRING"), T("Snmp2_Pdus") >>),
    USMSecurityParameters |-> Sequence(<< T("OCTET STRING"), T("INTEGER"), T("INTEGER"),
        T("OCTET STRING"), T("OCTET STRING"), T("OCTET STRING") >>)]

CapTypes1 == [
    ValueName |-> Alias(T("String")),
    Value |-> Alias(T("String")),
    DateTime |-> Alias(T("GeneralizedTime")),
    Cap_AnyUri |-> Alias(T("StringWithNoCrlFht")),
    Alert |-> Auto(Sequence(<< T("IdentifierString"), T("String"), T("GeneralizedTime"),
        T("AlertStatus"), T("AlertMessageType"), Opt(T("String")), T("AlertScope"),
        Opt(T("String")), Opt(T("String")), SequenceOf(T("String")), Opt(T("String")),
        Opt(T("String")), Opt(T("String")), SequenceOf(T("AlertInformation")) >>)),
    AlertStatus |-> Enumerated,
    AlertMessageType |-> Enumerated,
    AlertScope |-> Enumerated,
    AlertEventCode |-> Auto(Sequence(<< T("ValueName"), T("Value") >>)),
    AlertParameter |-> Auto(Sequence(<< T("ValueName"), T("Value") >>)),
    AlertInformation |-> Auto(Sequence(<< Def(T("Language")),
        SequenceOf(T("InformationCategory")), T("String"),
        SequenceOf(T("InformationResponseType")), T("HowUrgent"), T("HowSevere"), T("HowCertain"),
        Opt(T("String")), SequenceOf(T("AlertEventCode")), Opt(T("GeneralizedTime")),
        Opt(T("GeneralizedTime")), Opt(T("GeneralizedTime")), Opt(T("String")), Opt(T("String")),
        Opt(T("String")), Opt(T("String")), Opt(T("Cap_AnyUri")), Opt(T("String")),
        SequenceOf(T("AlertParameter")), SequenceOf(T("ResourceFile")), SequenceOf(T("Area")) >>))]

CapTypes2 == [
    InformationCategory |-> Enumerated,
    InformationResponseType |-> Enumerated,
    HowUrgent |-> Enumerated,
    HowSevere |-> Enumerated,
    HowCertain |-> Enumerated,
    ResourceFile |-> Auto(Sequence(<< T("String"), Opt(T("String")), Opt(T("INTEGER")),
        Opt(T("Cap_AnyUri")), Opt(T("String")), Opt(T("String")) >>)),
    Area |-> Auto(Sequence(<< T("String"), SequenceOf(T("String")), SequenceOf(T("String")),
        SequenceOf(T("Geocode")), Opt(T("String")), Opt(T("String")) >>)),
    Geocode |-> Auto(Sequence(<< T("ValueName"), T("Value") >>)),
    String |-> Delegate(T("UTF8String")),
    StringChar |-> Delegate(T("String")),
    SpaceAndComma |-> Delegate(T("UTF8String")),
    IdentifierString |-> Delegate(T("StringChar")),
    Language |-> Delegate(T("VisibleString")),
    StringWithNoCrlFht |-> Delegate(T("UTF8String"))]

CbrTypes1 == [
    CpirId |-> Delegate(T("UTF8String")),
    FccId |-> Delegate(T("UTF8String")),
    Cbr_Frequency |-> Delegate(T("UTF8String")),
    Frn |-> Delegate(T("UTF8String")),
    Serial |-> Delegate(T("UTF8String")),
    Test |-> Delegate(T("UTF8String")),
    Zone |-> Delegate(T("UTF8String"))]

CdtTypes1 == [
    AlgorithmIdShortForm |-> Delegate(T("INTEGER")),
    CompressedContent |-> Delegate(T("OCTET STRING")),
    CompressedContentInfoContentType |-> Choice(<< I(0, T("ContentTypeShortForm")),
        I(1, T("OBJECT IDENTIFIER")) >>),
    CompressedContentInfo |-> Sequence(<< T("CompressedContentInfoContentType"),
        E(0, T("CompressedContent")) >>),
    CompressedData |-> Sequence(<< T("CompressionAlgorithmIdentifier"),
        T("CompressedContentInfo") >>),
    CompressionAlgorithmIdentifier |-> Choice(<< I(0, T("AlgorithmIdShortForm")),
        I(1, T("OBJECT IDENTIFIER")) >>),
    ContentTypeShortForm |-> Delegate(T("INTEGER"))]

CredsspTypes1 == [
    AnonymousNegoData |-> Sequence(<< I(0, T("OCTET STRING")) >>),
    NegoData |-> Delegate(SequenceOf(T("AnonymousNegoData"))),
    TSCredentials |-> Sequence(<< E(0, T("INTEGER")), E(1, T("OCTET STRING")) >>),
    TSCspDataDetail |-> Sequence(<< E(0, T("INTEGER")), Opt(E(1, T("OCTET STRING"))),
        Opt(E(2, T("OCTET STRING"))), Opt(E(3, T("OCTET STRING"))),
        Opt(E(4, T("OCTET STRING"))) >>),
    TSPasswordCreds |-> Sequence(<< E(0, T("OCTET STRING")), E(1, T("OCTET STRING")),
        E(2, T("OCTET STRING")) >>),
    TSRemoteGuardCreds |-> Sequence(<< E(0, T("TSRemoteGuardPackageCred")),
        Opt(E(1, SequenceOf(T("TSRemoteGuardPackageCred")))) >>),
    TSRemoteGuardPackageCred |-> Sequence(<< E(0, T("OCTET STRING")), E(1, T("OCTET STRING")) >>),
    TSRequest |-> Sequence(<< E(0, T("INTEGER")), Opt(E(1, T("NegoData"))),
        Opt(E(2, T("OCTET STRING"))), Opt(E(3, T("OCTET STRING"))), Opt(E(4, T("INTEGER"))),
        Opt(E(5, T("OCTET STRING"))) >>)]

CredsspTypes2 == [
    TSSmartCardCreds |-> Sequence(<< E(0, T("OCTET STRING")), E(1, T("TSCspDataDetail")),
        Opt(E(2, T("OCTET STRING"))), Opt(E(3, T("OCTET STRING"))) >>)]

NetTypes ==
    H282Types1 @@ H282Types2 @@ H282Types3 @@ H282Types4 @@ H282Types5 @@ H282Types6
        @@ H282Types7 @@ H282Types8 @@ H282Types9 @@ H282Types10 @@ H282Types11
        @@ H282Types12 @@ H282Types13 @@ H282Types14 @@ H282Types15 @@ LdapTypes1
        @@ LdapTypes2 @@ LdapTypes3 @@ LdapTypes4 @@ LdapTypes5 @@ LdapTypes6
        @@ LdapTypes7 @@ LdapTypes8 @@ KerberosTypes1 @@ KerberosTypes2 @@ KerberosTypes3
        @@ KerberosTypes4 @@ KerberosTypes5 @@ KerberosTypes6 @@ KerberosTypes7
        @@ KerberosTypes8 @@ KerberosTypes9 @@ KerberosTypes10 @@ KerberosTypes11
        @@ KerberosTypes12 @@ Smi1Types1 @@ Smi2Types1 @@ Snmp1Types1 @@ Snmp2Types1
        @@ Snmp2Types2 @@ Snmp2Types3 @@ Snmp3Types1 @@ Snmp3Types2 @@ CapTypes1
        @@ CapTypes2 @@ CbrTypes1 @@ CdtTypes1 @@ CredsspTypes1 @@ CredsspTypes2
=============================================================================
