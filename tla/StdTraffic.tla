----------------------------- MODULE StdTraffic -----------------------------
(*************************************************************************)
(* ATN CPDLC, ULCS, IEEE 1609.2, ETSI TS 103 097: the types              *)
(* (standards/atn-cpdlc, standards/atn-ulcs, standards/its),             *)
(* in the notation of Asn1Types, one definition for each page of the source. *)
(* The parameterised types of standards/its are the instances the crate makes, with the *)
(* IEEE 1609 extension types; the two types of the ETSI extension whose codec *)
(* is written by hand, and the alternative that holds them, are left out. *)
(*************************************************************************)
EXTENDS Asn1Types

AtnTypes1 == [
    AircraftPdus |-> Choice(<< E(0, T("CpdlcUserAbortReason")),
        E(1, T("CpdlcProviderAbortReason")), E(2, T("StartDownMessage")),
        E(3, T("AtcDownlinkMessage")) >>),
    CpdlcProviderAbortReason |-> Enumerated,
    CpdlcUserAbortReason |-> Enumerated,
    DownlinkMessage |-> Choice(<< E(0, T("NULL")), E(1, T("AtcDownlinkMessage")) >>),
    GroundPdus |-> Choice(<< E(0, T("CpdlcUserAbortReason")), E(1, T("CpdlcProviderAbortReason")),
        E(2, T("UplinkMessage")), E(3, T("AtcUplinkMessage")), E(4, T("AtcForwardMessage")),
        E(5, T("AtcForwardResponse")) >>),
    Atn_Mode |-> Enumerated,
    StartDownMessage |-> Sequence(<< Def(T("Atn_Mode")), T("DownlinkMessage") >>),
    UplinkMessage |-> Choice(<< E(0, T("NULL")), E(1, T("AtcUplinkMessage")) >>),
    AtcForwardMessage |-> Sequence(<< T("ForwardHeader"), T("ForwardMessage") >>),
    AtcForwardResponse |-> Enumerated]

AtnTypes2 == [
    Atn_AlgorithmIdentifier |-> Delegate(T("OBJECT IDENTIFIER")),
    CPDLCMessage |-> Delegate(T("BIT STRING")),
    ForwardHeader |-> Sequence(<< T("DateTimeGroup"), T("AircraftFlightIdentification"),
        T("AircraftAddress") >>),
    ForwardMessage |-> Choice(<< E(0, T("BIT STRING")), E(1, T("BIT STRING")) >>),
    PmCpdlcProviderAbortReason |-> Enumerated,
    PmCpdlcUserAbortReason |-> Enumerated,
    ProtectedAircraftPDUs |-> Choice(<< E(0, T("PmCpdlcUserAbortReason")),
        E(1, T("PmCpdlcProviderAbortReason")), E(2, T("ProtectedStartDownMessage")),
        E(3, T("ProtectedDownlinkMessage")) >>),
    ProtectedDownlinkMessage |-> Sequence(<< Opt(E(0, T("Atn_AlgorithmIdentifier"))),
        Opt(E(1, T("CPDLCMessage"))), E(2, T("BIT STRING")) >>)]

AtnTypes3 == [
    ProtectedGroundPdus |-> Choice(<< E(0, T("PmCpdlcUserAbortReason")),
        E(1, T("PmCpdlcProviderAbortReason")), E(2, T("ProtectedUplinkMessage")),
        E(3, T("ProtectedUplinkMessage")), E(4, T("AtcForwardMessage")),
        E(5, T("AtcForwardResponse")) >>),
    ProtectedMode |-> Enumerated,
    ProtectedStartDownMessage |-> Sequence(<< Def(T("ProtectedMode")),
        T("ProtectedDownlinkMessage") >>),
    ProtectedUplinkMessage |-> Sequence(<< Opt(E(0, T("Atn_AlgorithmIdentifier"))),
        Opt(E(1, T("CPDLCMessage"))), E(2, T("BIT STRING")) >>),
    AtcDownlinkMessage |-> Sequence(<< T("AtcMessageHeader"), T("AtcDownlinkMessageData") >>),
    AtcDownlinkMessageDataConstrainedData |-> Sequence(<< Opt(SequenceOf(T("RouteClearance"))) >>),
    AtcDownlinkMessageData |-> Sequence(<< SequenceOf(T("AtcDownlinkMsgElementId")),
        Opt(T("AtcDownlinkMessageDataConstrainedData")) >>)]

AtcDownlinkMsgElementId1 ==
    << E(0, T("NULL")), E(1, T("NULL")), E(2, T("NULL")), E(3, T("NULL")), E(4, T("NULL")),
        E(5, T("NULL")), E(6, T("Level")), E(7, T("LevelLevel")), E(8, T("Level")),
        E(9, T("Level")), E(10, T("Level")), E(11, T("PositionLevel")), E(12, T("PositionLevel")),
        E(13, T("TimeLevel")), E(14, T("TimeLevel")), E(15, T("DistanceSpecifiedDirection")),
        E(16, T("PositionDistanceSpecifiedDirection")),
        E(17, T("TimeDistanceSpecifiedDirection")), E(18, T("Speed")), E(19, T("SpeedSpeed")),
        E(20, T("NULL")), E(21, T("Atn_Frequency")), E(22, T("Position")),
        E(23, T("ProcedureName")), E(24, T("RouteClearanceIndex")), E(25, T("ClearanceType")),
        E(26, T("PositionRouteClearanceIndex")), E(27, T("DistanceSpecifiedDirection")),
        E(28, T("Level")), E(29, T("Level")), E(30, T("Level")), E(31, T("Position")),
        E(32, T("Level")), E(33, T("Position")), E(34, T("Speed")), E(35, T("Degrees")),
        E(36, T("Degrees")), E(37, T("Level")), E(38, T("Level")), E(39, T("Speed")),
        E(40, T("RouteClearanceIndex")), E(41, T("NULL")), E(42, T("Position")),
        E(43, T("Atn_Time")), E(44, T("Position")), E(45, T("Position")), E(46, T("Atn_Time")),
        E(47, T("Code")), E(48, T("PositionReport")), E(49, T("Speed")), E(50, T("SpeedSpeed")),
        E(51, T("NULL")), E(52, T("NULL")), E(53, T("NULL")), E(54, T("Level")), E(55, T("NULL")),
        E(56, T("NULL")), E(57, T("RemainingFuelPersonsOnBoard")), E(58, T("NULL")),
        E(59, T("PositionRouteClearanceIndex")), E(60, T("DistanceSpecifiedDirection")),
        E(61, T("Level")), E(62, T("ErrorInformation")), E(63, T("NULL")),
        E(64, T("FacilityDesignation")), E(65, T("NULL")), E(66, T("NULL")), E(67, T("FreeText")),
        E(68, T("FreeText")), E(69, T("NULL")), E(70, T("Degrees")) >>

AtcDownlinkMsgElementId2 ==
    << E(71, T("Degrees")), E(72, T("Level")), E(73, T("VersionNumber")), E(74, T("NULL")),
        E(75, T("NULL")), E(76, T("LevelLevel")), E(77, T("LevelLevel")),
        E(78, T("TimeDistanceToFromPosition")), E(79, T("ATISCode")),
        E(80, T("DistanceSpecifiedDirection")), E(81, T("LevelTime")), E(82, T("Level")),
        E(83, T("SpeedTime")), E(84, T("Speed")), E(85, T("DistanceSpecifiedDirectionTime")),
        E(86, T("DistanceSpecifiedDirection")), E(87, T("Level")), E(88, T("Level")),
        E(89, T("UnitNameFrequency")), E(90, T("FreeText")), E(91, T("FreeText")),
        E(92, T("FreeText")), E(93, T("FreeText")), E(94, T("FreeText")), E(95, T("FreeText")),
        E(96, T("FreeText")), E(97, T("FreeText")), E(98, T("FreeText")), E(99, T("NULL")),
        E(100, T("NULL")), E(101, T("NULL")), E(102, T("NULL")), E(103, T("NULL")),
        E(104, T("PositionTime")), E(105, T("Airport")), E(106, T("Level")), E(107, T("NULL")),
        E(108, T("NULL")), E(109, T("Atn_Time")), E(110, T("Position")),
        E(111, T("TimePosition")), E(112, T("NULL")),
        E(113, T("SpeedTypeSpeedTypeSpeedTypeSpeed")) >>

AtnTypes4 == [
    AtcDownlinkMsgElementId |-> Choice(AtcDownlinkMsgElementId1 \o AtcDownlinkMsgElementId2)]

AtnTypes5 == [
    AtcMessageHeader |-> Sequence(<< E(0, T("MsgIdentificationNumber")),
        Opt(E(1, T("MsgReferenceNumber"))), E(2, T("DateTimeGroup")),
        Def(E(3, T("LogicalAck"))) >>)]

AtnTypes6 == [
    AtcUplinkMessage |-> Sequence(<< T("AtcMessageHeader"), T("AtcUplinkMessageData") >>),
    AtcUplinkMessageDataConstrainedData |-> Sequence(<< Opt(SequenceOf(T("RouteClearance"))) >>),
    AtcUplinkMessageData |-> Sequence(<< SequenceOf(T("AtcUplinkMsgElementId")),
        Opt(T("AtcUplinkMessageDataConstrainedData")) >>)]

AtcUplinkMsgElementId1 ==
    << E(0, T("NULL")), E(1, T("NULL")), E(2, T("NULL")), E(3, T("NULL")), E(4, T("NULL")),
        E(5, T("NULL")), E(6, T("Level")), E(7, T("Atn_Time")), E(8, T("Position")),
        E(9, T("Atn_Time")), E(10, T("Position")), E(11, T("Atn_Time")), E(12, T("Position")),
        E(13, T("TimeLevel")), E(14, T("PositionLevel")), E(15, T("TimeLevel")),
        E(16, T("PositionLevel")), E(17, T("TimeLevel")), E(18, T("PositionLevel")),
        E(19, T("Level")), E(20, T("Level")), E(21, T("TimeLevel")), E(22, T("PositionLevel")),
        E(23, T("Level")), E(24, T("TimeLevel")), E(25, T("PositionLevel")),
        E(26, T("LevelTime")), E(27, T("LevelPosition")), E(28, T("LevelTime")),
        E(29, T("LevelPosition")), E(30, T("LevelLevel")), E(31, T("LevelLevel")),
        E(32, T("LevelLevel")), E(33, T("NULL")), E(34, T("Level")), E(35, T("Level")),
        E(36, T("Level")), E(37, T("Level")), E(38, T("Level")), E(39, T("Level")),
        E(40, T("NULL")), E(41, T("NULL")), E(42, T("PositionLevel")), E(43, T("PositionLevel")),
        E(44, T("PositionLevel")), E(45, T("PositionLevel")), E(46, T("PositionLevel")),
        E(47, T("PositionLevel")), E(48, T("PositionLevel")), E(49, T("PositionLevel")),
        E(50, T("PositionLevelLevel")), E(51, T("PositionTime")), E(52, T("PositionTime")),
        E(53, T("PositionTime")), E(54, T("PositionTimeTime")), E(55, T("PositionSpeed")),
        E(56, T("PositionSpeed")), E(57, T("PositionSpeed")), E(58, T("PositionTimeLevel")),
        E(59, T("PositionTimeLevel")), E(60, T("PositionTimeLevel")),
        E(61, T("PositionLevelSpeed")), E(62, T("TimePositionLevel")),
        E(63, T("TimePositionLevelSpeed")), E(64, T("DistanceSpecifiedDirection")),
        E(65, T("PositionDistanceSpecifiedDirection")),
        E(66, T("TimeDistanceSpecifiedDirection")), E(67, T("NULL")), E(68, T("Position")),
        E(69, T("Atn_Time")), E(70, T("Position")) >>

AtcUplinkMsgElementId2 ==
    << E(71, T("Atn_Time")), E(72, T("NULL")), E(73, T("DepartureClearance")),
        E(74, T("Position")), E(75, T("Position")), E(76, T("TimePosition")),
        E(77, T("PositionPosition")), E(78, T("LevelPosition")),
        E(79, T("PositionRouteClearanceIndex")), E(80, T("RouteClearanceIndex")),
        E(81, T("ProcedureName")), E(82, T("DistanceSpecifiedDirection")),
        E(83, T("PositionRouteClearanceIndex")), E(84, T("PositionProcedureName")),
        E(85, T("RouteClearanceIndex")), E(86, T("PositionRouteClearanceIndex")),
        E(87, T("Position")), E(88, T("PositionPosition")), E(89, T("TimePosition")),
        E(90, T("LevelPosition")), E(91, T("HoldClearance")), E(92, T("PositionLevel")),
        E(93, T("Atn_Time")), E(94, T("DirectionDegrees")), E(95, T("DirectionDegrees")),
        E(96, T("NULL")), E(97, T("PositionDegrees")), E(98, T("DirectionDegrees")),
        E(99, T("ProcedureName")), E(100, T("TimeSpeed")), E(101, T("PositionSpeed")),
        E(102, T("LevelSpeed")), E(103, T("TimeSpeedSpeed")), E(104, T("PositionSpeedSpeed")),
        E(105, T("LevelSpeedSpeed")), E(106, T("Speed")), E(107, T("NULL")), E(108, T("Speed")),
        E(109, T("Speed")), E(110, T("SpeedSpeed")), E(111, T("Speed")), E(112, T("Speed")),
        E(113, T("Speed")), E(114, T("Speed")), E(115, T("Speed")), E(116, T("NULL")),
        E(117, T("UnitNameFrequency")), E(118, T("PositionUnitNameFrequency")),
        E(119, T("TimeUnitNameFrequency")), E(120, T("UnitNameFrequency")),
        E(121, T("PositionUnitNameFrequency")), E(122, T("TimeUnitNameFrequency")),
        E(123, T("Code")), E(124, T("NULL")), E(125, T("NULL")), E(126, T("NULL")),
        E(127, T("NULL")), E(128, T("Level")), E(129, T("Level")), E(130, T("Position")),
        E(131, T("NULL")), E(132, T("NULL")), E(133, T("NULL")),
        E(134, T("SpeedTypeSpeedTypeSpeedType")), E(135, T("NULL")), E(136, T("NULL")),
        E(137, T("NULL")), E(138, T("NULL")), E(139, T("NULL")), E(140, T("NULL")),
        E(141, T("NULL")), E(142, T("NULL")), E(143, T("NULL")), E(144, T("NULL")) >>

AtcUplinkMsgElementId3 ==
    << E(145, T("NULL")), E(146, T("NULL")), E(147, T("NULL")), E(148, T("Level")),
        E(149, T("LevelPosition")), E(150, T("LevelTime")), E(151, T("Speed")),
        E(152, T("DistanceSpecifiedDirection")), E(153, T("Altimeter")), E(154, T("NULL")),
        E(155, T("Position")), E(156, T("NULL")), E(157, T("Atn_Frequency")),
        E(158, T("ATISCode")), E(159, T("ErrorInformation")), E(160, T("Facility")),
        E(161, T("NULL")), E(162, T("NULL")), E(163, T("FacilityDesignation")), E(164, T("NULL")),
        E(165, T("NULL")), E(166, T("TrafficType")), E(167, T("NULL")), E(168, T("NULL")),
        E(169, T("FreeText")), E(170, T("FreeText")), E(171, T("VerticalRate")),
        E(172, T("VerticalRate")), E(173, T("VerticalRate")), E(174, T("VerticalRate")),
        E(175, T("Level")), E(176, T("NULL")), E(177, T("NULL")), E(178, T("NULL")),
        E(179, T("NULL")), E(180, T("LevelLevel")), E(181, T("ToFromPosition")),
        E(182, T("NULL")), E(183, T("FreeText")), E(184, T("TimeToFromPosition")),
        E(185, T("PositionLevel")), E(186, T("PositionLevel")), E(187, T("FreeText")),
        E(188, T("PositionSpeed")), E(189, T("Speed")), E(190, T("Degrees")), E(191, T("NULL")),
        E(192, T("LevelTime")), E(193, T("NULL")), E(194, T("FreeText")), E(195, T("FreeText")),
        E(196, T("FreeText")), E(197, T("FreeText")), E(198, T("FreeText")),
        E(199, T("FreeText")), E(200, T("NULL")), E(201, T("NULL")), E(202, T("NULL")),
        E(203, T("FreeText")), E(204, T("FreeText")), E(205, T("FreeText")),
        E(206, T("FreeText")), E(207, T("FreeText")), E(208, T("FreeText")),
        E(209, T("LevelPosition")), E(210, T("Position")), E(211, T("NULL")),
        E(212, T("FacilityDesignationATISCode")), E(213, T("FacilityDesignationAltimeter")),
        E(214, T("RunwayRVR")), E(215, T("DirectionDegrees")), E(216, T("NULL")),
        E(217, T("NULL")), E(218, T("NULL")) >>

AtcUplinkMsgElementId4 ==
    << E(219, T("Level")), E(220, T("Level")), E(221, T("Degrees")), E(222, T("NULL")),
        E(223, T("NULL")), E(224, T("NULL")), E(225, T("NULL")), E(226, T("Atn_Time")),
        E(227, T("NULL")), E(228, T("Position")), E(229, T("NULL")), E(230, T("NULL")),
        E(231, T("NULL")), E(232, T("NULL")), E(233, T("NULL")), E(234, T("NULL")),
        E(235, T("NULL")), E(236, T("NULL")), Add(E(237, T("NULL"))) >>

AtnTypes7 == [
    AtcUplinkMsgElementId |->
        Choice(AtcUplinkMsgElementId1 \o AtcUplinkMsgElementId2 \o AtcUplinkMsgElementId3 \o AtcUplinkMsgElementId4)]

AtnTypes8 == [
    ATISCode |-> Delegate(T("IA5String")),
    ATSRouteDesignator |-> Delegate(T("IA5String")),
    AtwaLongTrackWaypoint |-> Sequence(<< E(0, T("Position")), E(1, T("AtwDistance")),
        Opt(E(2, T("Speed"))), Opt(E(3, T("ATWLevelSequence"))) >>),
    AtwDistance |-> Sequence(<< T("AtwDistanceTolerance"), T("Distance") >>),
    AtwDistanceTolerance |-> Enumerated,
    AtwLevel |-> Sequence(<< T("AtwLevelTolerance"), T("Level") >>),
    ATWLevelSequence |-> Delegate(SequenceOf(T("AtwLevel"))),
    AtwLevelTolerance |-> Enumerated,
    AircraftAddress |-> Delegate(T("BIT STRING")),
    AircraftFlightIdentification |-> Delegate(T("IA5String")),
    Airport |-> Delegate(T("IA5String")),
    Altimeter |-> Choice(<< E(0, T("AltimeterEnglish")), E(1, T("AltimeterMetric")) >>),
    AltimeterEnglish |-> Delegate(T("INTEGER")),
    AltimeterMetric |-> Delegate(T("INTEGER")),
    ClearanceType |-> Enumerated,
    Code |-> Delegate(SequenceOf(T("CodeOctalDigit"))),
    CodeOctalDigit |-> Delegate(T("INTEGER")),
    ControlledTime |-> Sequence(<< T("Atn_Time"), T("TimeTolerance") >>)]

AtnTypes9 == [
    Atn_Date |-> Sequence(<< T("Atn_Year"), T("Atn_Month"), T("Atn_Day") >>),
    DateTimeGroup |-> Sequence(<< T("Atn_Date"), T("Timehhmmss") >>),
    Atn_Day |-> Delegate(T("INTEGER")),
    DegreeIncrement |-> Delegate(T("INTEGER")),
    Degrees |-> Choice(<< E(0, T("DegreesMagnetic")), E(1, T("DegreesTrue")) >>),
    DegreesMagnetic |-> Delegate(T("INTEGER")),
    DegreesTrue |-> Delegate(T("INTEGER")),
    DepartureClearance |-> Sequence(<< E(0, T("AircraftFlightIdentification")),
        E(1, T("Position")), Opt(E(2, T("FlightInformation"))),
        Opt(E(3, T("FurtherInstructions"))) >>),
    DepartureMinimumInterval |-> Delegate(T("INTEGER")),
    Direction |-> Enumerated,
    DirectionDegrees |-> Sequence(<< T("Direction"), T("Degrees") >>),
    Distance |-> Choice(<< E(0, T("DistanceNm")), E(1, T("DistanceKm")) >>),
    DistanceKm |-> Delegate(T("INTEGER")),
    DistanceNm |-> Delegate(T("INTEGER")),
    DistanceSpecified |-> Choice(<< E(0, T("DistanceSpecifiedNm")),
        E(1, T("DistanceSpecifiedKm")) >>),
    DistanceSpecifiedDirection |-> Sequence(<< T("DistanceSpecified"), T("Direction") >>)]

AtnTypes10 == [
    DistanceSpecifiedDirectionTime |-> Sequence(<< T("DistanceSpecifiedDirection"),
        T("Atn_Time") >>),
    DistanceSpecifiedKm |-> Delegate(T("INTEGER")),
    DistanceSpecifiedNm |-> Delegate(T("INTEGER")),
    ErrorInformation |-> Enumerated,
    Facility |-> Choice(<< E(0, T("NULL")), E(1, T("FacilityDesignation")) >>),
    FacilityDesignation |-> Delegate(T("IA5String")),
    FacilityDesignationATISCode |-> Sequence(<< T("FacilityDesignation"), T("ATISCode") >>),
    FacilityDesignationAltimeter |-> Sequence(<< T("FacilityDesignation"), T("Altimeter") >>),
    FacilityFunction |-> Enumerated,
    FacilityName |-> Delegate(T("IA5String")),
    Fix |-> Delegate(T("IA5String")),
    FixName |-> Sequence(<< E(0, T("Fix")), Opt(E(1, T("LatitudeLongitude"))) >>),
    FlightInformation |-> Choice(<< E(0, T("RouteInformation")), E(1, T("LevelsOfFlight")),
        E(2, T("RouteAndLevels")) >>),
    FreeText |-> Delegate(T("IA5String")),
    Atn_Frequency |-> Choice(<< E(0, T("FrequencyHf")), E(1, T("FrequencyVhf")),
        E(2, T("FrequencyUhf")), E(3, T("FrequencySatChannel")) >>)]

AtnTypes11 == [
    FrequencyHf |-> Delegate(T("INTEGER")),
    FrequencySatChannel |-> Delegate(T("NumericString")),
    FrequencyUhf |-> Delegate(T("INTEGER")),
    FrequencyVhf |-> Delegate(T("INTEGER")),
    FurtherInstructions |-> Sequence(<< Opt(E(0, T("Code"))), Opt(E(1, T("UnitNameFrequency"))),
        Opt(E(2, T("Atn_Time"))), Opt(E(3, T("Airport"))), Opt(E(4, T("Airport"))),
        Opt(E(5, T("TimeDeparture"))), Opt(E(6, T("Runway"))), Opt(E(7, T("RevisionNumber"))),
        Opt(E(8, T("ATISCode"))) >>)]

AtnTypes12 == [
    HoldClearance |-> Sequence(<< E(0, T("Position")), E(1, T("Level")), E(2, T("Degrees")),
        E(3, T("Direction")), Opt(E(4, T("LegType"))) >>),
    HoldAtWaypoint |-> Sequence(<< E(0, T("Position")), Opt(E(1, T("Speed"))),
        Opt(E(2, T("AtwLevel"))), Opt(E(3, T("Speed"))), Opt(E(4, T("Direction"))),
        Opt(E(5, T("Degrees"))), Opt(E(6, T("Atn_Time"))), Opt(E(7, T("LegType"))) >>)]

AtnTypes13 == [
    Humidity |-> Delegate(T("INTEGER")),
    Icing |-> Enumerated,
    InterceptCourseFrom |-> Sequence(<< T("InterceptCourseFromSelection"), T("Degrees") >>),
    InterceptCourseFromSelection |-> Choice(<< E(0, T("PublishedIdentifier")),
        E(1, T("LatitudeLongitude")), E(2, T("PlaceBearingPlaceBearing")),
        E(3, T("PlaceBearingDistance")) >>),
    LatLonReportingPoints |-> Choice(<< E(0, T("LatitudeReportingPoints")),
        E(1, T("LongitudeReportingPoints")) >>),
    LatLonWholeMinutes |-> Delegate(T("INTEGER")),
    Atn_Latitude |-> Sequence(<< T("LatitudeType"), T("LatitudeDirection") >>),
    LatitudeDegrees |-> Delegate(T("INTEGER")),
    LatitudeDegreesMinutes |-> Sequence(<< T("LatitudeWholeDegrees"), T("MinutesLatLon") >>),
    LatitudeDegreesMinutesSeconds |-> Sequence(<< T("LatitudeWholeDegrees"),
        T("LatLonWholeMinutes"), T("SecondsLatLon") >>),
    LatitudeDirection |-> Enumerated,
    LatitudeLongitude |-> Sequence(<< Opt(E(0, T("Atn_Latitude"))),
        Opt(E(1, T("Atn_Longitude"))) >>)]

AtnTypes14 == [
    LatitudeReportingPoints |-> Sequence(<< T("LatitudeDirection"), T("LatitudeDegrees") >>),
    LatitudeType |-> Choice(<< E(0, T("LatitudeDegrees")), E(1, T("LatitudeDegreesMinutes")),
        E(2, T("LatitudeDegreesMinutesSeconds")) >>),
    LatitudeWholeDegrees |-> Delegate(T("INTEGER")),
    LegDistance |-> Choice(<< E(0, T("LegDistanceEnglish")), E(1, T("LegDistanceMetric")) >>),
    LegDistanceEnglish |-> Delegate(T("INTEGER")),
    LegDistanceMetric |-> Delegate(T("INTEGER")),
    LegTime |-> Delegate(T("INTEGER")),
    LegType |-> Choice(<< E(0, T("LegDistance")), E(1, T("LegTime")) >>),
    Level |-> Choice(<< E(0, T("LevelType")), E(1, SequenceOf(T("LevelType"))) >>),
    LevelFeet |-> Delegate(T("INTEGER")),
    LevelFlightLevel |-> Delegate(T("INTEGER")),
    LevelFlightLevelMetric |-> Delegate(T("INTEGER")),
    LevelLevel |-> Delegate(SequenceOf(T("Level"))),
    LevelMeters |-> Delegate(T("INTEGER")),
    LevelPosition |-> Sequence(<< T("Level"), T("Position") >>),
    LevelProcedureName |-> Sequence(<< T("Level"), T("ProcedureName") >>),
    LevelSpeed |-> Sequence(<< T("Level"), T("SpeedSpeed") >>),
    LevelSpeedSpeed |-> Sequence(<< T("Level"), T("SpeedSpeed") >>)]

AtnTypes15 == [
    LevelTime |-> Sequence(<< T("Level"), T("Atn_Time") >>),
    LevelType |-> Choice(<< E(0, T("LevelFeet")), E(1, T("LevelMeters")),
        E(2, T("LevelFlightLevel")), E(3, T("LevelFlightLevelMetric")) >>),
    LevelsOfFlight |-> Choice(<< E(0, T("Level")), E(1, T("ProcedureName")),
        E(2, T("LevelProcedureName")) >>),
    LogicalAck |-> Enumerated,
    Atn_Longitude |-> Sequence(<< T("LongitudeType"), T("LongitudeDirection") >>),
    LongitudeDegrees |-> Delegate(T("INTEGER")),
    LongitudeDegreesMinutes |-> Sequence(<< T("LongitudeWholeDegrees"), T("MinutesLatLon") >>),
    LongitudeDegreesMinutesSeconds |-> Sequence(<< T("LongitudeWholeDegrees"),
        T("LatLonWholeMinutes"), T("SecondsLatLon") >>),
    LongitudeDirection |-> Enumerated,
    LongitudeReportingPoints |-> Sequence(<< T("LongitudeDirection"), T("LongitudeDegrees") >>),
    LongitudeType |-> Choice(<< E(0, T("LongitudeDegrees")), E(1, T("LongitudeDegreesMinutes")),
        E(2, T("LongitudeDegreesMinutesSeconds")) >>)]

AtnTypes16 == [
    LongitudeWholeDegrees |-> Delegate(T("INTEGER")),
    MinutesLatLon |-> Delegate(T("INTEGER")),
    Atn_Month |-> Delegate(T("INTEGER")),
    MsgIdentificationNumber |-> Delegate(T("INTEGER")),
    MsgReferenceNumber |-> Delegate(T("INTEGER")),
    Navaid |-> Sequence(<< E(0, T("NavaidName")), Opt(E(1, T("LatitudeLongitude"))) >>),
    NavaidName |-> Delegate(T("IA5String")),
    PersonsOnBoard |-> Delegate(T("INTEGER")),
    PlaceBearing |-> Sequence(<< T("PublishedIdentifier"), T("Degrees") >>),
    PlaceBearingDistance |-> Sequence(<< T("PublishedIdentifier"), T("Degrees"), T("Distance") >>),
    PlaceBearingPlaceBearing |-> Delegate(SequenceOf(T("PlaceBearing"))),
    Position |-> Choice(<< E(0, T("FixName")), E(1, T("Navaid")), E(2, T("Airport")),
        E(3, T("LatitudeLongitude")), E(4, T("PlaceBearingDistance")) >>),
    PositionDegrees |-> Sequence(<< T("Position"), T("Degrees") >>),
    PositionDistanceSpecifiedDirection |-> Sequence(<< T("Position"),
        T("DistanceSpecifiedDirection") >>),
    PositionLevel |-> Sequence(<< T("Position"), T("Level") >>),
    PositionLevelLevel |-> Sequence(<< T("Position"), T("LevelLevel") >>)]

AtnTypes17 == [
    PositionLevelSpeed |-> Sequence(<< T("PositionLevel"), T("Speed") >>),
    PositionPosition |-> Delegate(SequenceOf(T("Position"))),
    PositionProcedureName |-> Sequence(<< T("Position"), T("ProcedureName") >>),
    PositionReport |-> Sequence(<< E(0, T("Position")), E(1, T("Atn_Time")), E(2, T("Level")),
        Opt(E(3, T("Position"))), Opt(E(4, T("Atn_Time"))), Opt(E(5, T("Position"))),
        Opt(E(6, T("Atn_Time"))), Opt(E(7, T("RemainingFuel"))), Opt(E(8, T("Temperature"))),
        Opt(E(9, T("Winds"))), Opt(E(10, T("Turbulence"))), Opt(E(11, T("Icing"))),
        Opt(E(12, T("Speed"))), Opt(E(13, T("SpeedGround"))), Opt(E(14, T("VerticalChange"))),
        Opt(E(15, T("Degrees"))), Opt(E(16, T("Degrees"))), Opt(E(17, T("Distance"))),
        Opt(E(18, T("Humidity"))), Opt(E(19, T("Position"))), Opt(E(20, T("Atn_Time"))),
        Opt(E(21, T("Level"))) >>)]

AtnTypes18 == [
    PositionRouteClearanceIndex |-> Sequence(<< T("Position"), T("RouteClearanceIndex") >>),
    PositionSpeed |-> Sequence(<< T("Position"), T("Speed") >>),
    PositionSpeedSpeed |-> Sequence(<< T("Position"), T("SpeedSpeed") >>),
    PositionTime |-> Sequence(<< T("Position"), T("Atn_Time") >>),
    PositionTimeLevel |-> Sequence(<< T("PositionTime"), T("Level") >>),
    PositionTimeTime |-> Sequence(<< T("Position"), T("TimeTime") >>),
    PositionUnitNameFrequency |-> Sequence(<< T("Position"), T("UnitName"), T("Atn_Frequency") >>),
    Procedure |-> Delegate(T("IA5String")),
    ProcedureName |-> Sequence(<< E(0, T("ProcedureType")), E(1, T("Procedure")),
        Opt(E(2, T("ProcedureTransition"))) >>),
    ProcedureTransition |-> Delegate(T("IA5String")),
    ProcedureType |-> Enumerated,
    PublishedIdentifier |-> Choice(<< E(0, T("FixName")), E(1, T("Navaid")) >>)]

AtnTypes19 == [
    RtaRequiredTimeArrival |-> Sequence(<< E(0, T("Position")), E(1, T("RtaTime")),
        Opt(E(2, T("RtaTolerance"))) >>),
    RtaTime |-> Sequence(<< T("Atn_Time"), T("TimeTolerance") >>),
    RtaTolerance |-> Delegate(T("INTEGER")),
    Rvr |-> Choice(<< E(0, T("RVRFeet")), E(1, T("RVRMeters")) >>),
    RVRFeet |-> Delegate(T("INTEGER")),
    RVRMeters |-> Delegate(T("INTEGER")),
    RemainingFuel |-> Delegate(T("Atn_Time")),
    RemainingFuelPersonsOnBoard |-> Sequence(<< T("RemainingFuel"), T("PersonsOnBoard") >>),
    ReportingPoints |-> Sequence(<< E(0, T("LatLonReportingPoints")),
        Opt(E(1, T("DegreeIncrement"))) >>),
    RevisionNumber |-> Delegate(T("INTEGER")),
    RouteAndLevels |-> Sequence(<< T("RouteInformation"), T("LevelsOfFlight") >>),
    RouteClearance |-> Sequence(<< Opt(E(0, T("Airport"))), Opt(E(1, T("Airport"))),
        Opt(E(2, T("Runway"))), Opt(E(3, T("ProcedureName"))), Opt(E(4, T("Runway"))),
        Opt(E(5, T("ProcedureName"))), Opt(E(6, T("ProcedureName"))),
        Opt(E(7, SequenceOf(T("RouteInformation")))),
        Opt(E(8, T("RouteInformationAdditional"))) >>)]

AtnTypes20 == [
    RouteClearanceIndex |-> Delegate(T("INTEGER")),
    RouteInformation |-> Choice(<< E(0, T("PublishedIdentifier")), E(1, T("LatitudeLongitude")),
        E(2, T("PlaceBearingPlaceBearing")), E(3, T("PlaceBearingDistance")),
        E(4, T("ATSRouteDesignator")) >>),
    RouteInformationAdditional |-> Sequence(<< Opt(E(0, SequenceOf(T("AtwaLongTrackWaypoint")))),
        Opt(E(1, T("ReportingPoints"))), Opt(E(2, SequenceOf(T("InterceptCourseFrom")))),
        Opt(E(3, SequenceOf(T("HoldAtWaypoint")))),
        Opt(E(4, SequenceOf(T("WaypointSpeedLevel")))),
        Opt(E(5, SequenceOf(T("RtaRequiredTimeArrival")))) >>)]

AtnTypes21 == [
    Runway |-> Sequence(<< T("RunwayDirection"), T("RunwayConfiguration") >>),
    RunwayConfiguration |-> Enumerated,
    RunwayDirection |-> Delegate(T("INTEGER")),
    RunwayRVR |-> Sequence(<< T("Runway"), T("Rvr") >>),
    SecondsLatLon |-> Delegate(T("INTEGER")),
    Speed |-> Choice(<< E(0, T("SpeedIndicated")), E(1, T("SpeedIndicatedMetric")),
        E(2, T("SpeedTrue")), E(3, T("SpeedTrueMetric")), E(4, T("SpeedGround")),
        E(5, T("SpeedGroundMetric")), E(6, T("SpeedMach")) >>),
    SpeedGround |-> Delegate(T("INTEGER")),
    SpeedGroundMetric |-> Delegate(T("INTEGER")),
    SpeedIndicated |-> Delegate(T("INTEGER")),
    SpeedIndicatedMetric |-> Delegate(T("INTEGER")),
    SpeedMach |-> Delegate(T("INTEGER")),
    SpeedSpeed |-> Delegate(SequenceOf(T("Speed"))),
    SpeedTime |-> Sequence(<< T("Speed"), T("Atn_Time") >>),
    SpeedTrue |-> Delegate(T("INTEGER")),
    SpeedTrueMetric |-> Delegate(T("INTEGER")),
    SpeedType |-> Enumerated,
    SpeedTypeSpeedTypeSpeedType |-> Delegate(SequenceOf(T("SpeedType"))),
    SpeedTypeSpeedTypeSpeedTypeSpeed |-> Sequence(<< T("SpeedTypeSpeedTypeSpeedType"),
        T("Speed") >>)]

AtnTypes22 == [
    Temperature |-> Delegate(T("INTEGER")),
    Atn_Time |-> Sequence(<< T("TimeHours"), T("TimeMinutes") >>),
    TimeDeparture |-> Sequence(<< Opt(E(0, T("Atn_Time"))), Opt(E(1, T("ControlledTime"))),
        Opt(E(2, T("Atn_Time"))), Opt(E(3, T("DepartureMinimumInterval"))) >>),
    TimeDistanceSpecifiedDirection |-> Sequence(<< T("Atn_Time"),
        T("DistanceSpecifiedDirection") >>),
    TimeDistanceToFromPosition |-> Sequence(<< T("Atn_Time"), T("Distance"), T("ToFrom"),
        T("Position") >>),
    TimeHours |-> Delegate(T("INTEGER")),
    TimeLevel |-> Sequence(<< T("Atn_Time"), T("Level") >>),
    TimeMinutes |-> Delegate(T("INTEGER")),
    TimePosition |-> Sequence(<< T("Atn_Time"), T("Position") >>),
    TimePositionLevel |-> Sequence(<< T("TimePosition"), T("Level") >>),
    TimePositionLevelSpeed |-> Sequence(<< T("TimePosition"), T("LevelSpeed") >>),
    TimeSeconds |-> Delegate(T("INTEGER"))]

AtnTypes23 == [
    TimeSpeed |-> Sequence(<< T("Atn_Time"), T("Speed") >>),
    TimeSpeedSpeed |-> Sequence(<< T("Atn_Time"), T("SpeedSpeed") >>),
    TimeTime |-> Delegate(SequenceOf(T("Atn_Time"))),
    TimeToFromPosition |-> Sequence(<< T("Atn_Time"), T("ToFrom"), T("Position") >>),
    TimeTolerance |-> Enumerated,
    TimeUnitNameFrequency |-> Sequence(<< T("Atn_Time"), T("UnitName"), T("Atn_Frequency") >>),
    Timehhmmss |-> Sequence(<< T("Atn_Time"), T("TimeSeconds") >>),
    ToFrom |-> Enumerated,
    ToFromPosition |-> Sequence(<< T("ToFrom"), T("Position") >>),
    TrafficType |-> Enumerated,
    Turbulence |-> Enumerated,
    UnitName |-> Sequence(<< E(0, T("FacilityDesignation")), Opt(E(1, T("FacilityName"))),
        E(2, T("FacilityFunction")) >>)]

AtnTypes24 == [
    UnitNameFrequency |-> Sequence(<< T("UnitName"), T("Atn_Frequency") >>),
    VersionNumber |-> Delegate(T("INTEGER")),
    VerticalChange |-> Sequence(<< T("VerticalDirection"), T("VerticalRate") >>),
    VerticalDirection |-> Enumerated,
    VerticalRate |-> Choice(<< E(0, T("VerticalRateEnglish")), E(1, T("VerticalRateMetric")) >>),
    VerticalRateEnglish |-> Delegate(T("INTEGER")),
    VerticalRateMetric |-> Delegate(T("INTEGER")),
    WaypointSpeedLevel |-> Sequence(<< E(0, T("Position")), Opt(E(1, T("Speed"))),
        Opt(E(2, T("ATWLevelSequence"))) >>),
    WindDirection |-> Delegate(T("INTEGER")),
    WindSpeed |-> Choice(<< E(0, T("WindSpeedEnglish")), E(1, T("WindSpeedMetric")) >>),
    WindSpeedEnglish |-> Delegate(T("INTEGER")),
    WindSpeedMetric |-> Delegate(T("INTEGER")),
    Winds |-> Sequence(<< T("WindDirection"), T("WindSpeed") >>),
    Atn_Year |-> Delegate(T("INTEGER"))]

UlcsTypes1 == [
    FullyEncodedData |-> Delegate(SequenceOf(T("PdvList"))),
    PDVListPresentationDataValues |-> Choice(<< I(0, T("ANY")), I(1, T("OCTET STRING")),
        I(2, T("BIT STRING")) >>),
    PdvList |-> Sequence(<< Opt(T("TransferSyntaxName")), T("PresentationContextIdentifier"),
        T("PDVListPresentationDataValues") >>),
    PresentationContextIdentifier |-> Delegate(T("INTEGER")),
    TransferSyntaxName |-> Delegate(T("OBJECT IDENTIFIER"))]

ItsBaseTypes1 == [
    Uint3 |-> Delegate(T("INTEGER")),
    Uint8 |-> Alias(T("INTEGER")),
    ItsBase_Uint16 |-> Alias(T("INTEGER")),
    Uint32 |-> Alias(T("INTEGER")),
    Uint64 |-> Alias(T("INTEGER")),
    SequenceOfUint16 |-> Delegate(SequenceOf(T("ItsBase_Uint16"))),
    SequenceOfUint8 |-> Delegate(SequenceOf(T("Uint8"))),
    ItsBase_Opaque |-> Delegate(T("OCTET STRING")),
    HashedId3 |-> Delegate(T("OCTET STRING")),
    SequenceOfHashedId3 |-> Delegate(SequenceOf(T("HashedId3"))),
    HashedId8 |-> Delegate(T("OCTET STRING"))]

ItsBaseTypes2 == [
    HashedId10 |-> Delegate(T("OCTET STRING"))]

ItsBaseTypes3 == [
    HashedId32 |-> Delegate(T("OCTET STRING")),
    HashedId48 |-> Delegate(T("OCTET STRING")),
    Time32 |-> Delegate(T("Uint32")),
    Time64 |-> Delegate(T("Uint64")),
    ValidityPeriod |-> Auto(Sequence(<< T("Time32"), T("ItsBase_Duration") >>)),
    ItsBase_Duration |-> Auto(Choice(<< T("ItsBase_Uint16"), T("ItsBase_Uint16"),
        T("ItsBase_Uint16"), T("ItsBase_Uint16"), T("ItsBase_Uint16"), T("ItsBase_Uint16"),
        T("ItsBase_Uint16") >>)),
    GeographicRegion |-> Auto(Choice(<< T("CircularRegion"), T("SequenceOfRectangularRegion"),
        T("PolygonalRegion"), T("SequenceOfIdentifiedRegion") >>)),
    CircularRegion |-> Auto(Sequence(<< T("TwoDLocation"), T("ItsBase_Uint16") >>))]

ItsBaseTypes4 == [
    RectangularRegion |-> Auto(Sequence(<< T("TwoDLocation"), T("TwoDLocation") >>)),
    SequenceOfRectangularRegion |-> Delegate(SequenceOf(T("RectangularRegion"))),
    PolygonalRegion |-> Delegate(SequenceOf(T("TwoDLocation"))),
    TwoDLocation |-> Auto(Sequence(<< T("ItsBase_Latitude"), T("ItsBase_Longitude") >>)),
    IdentifiedRegion |-> Auto(Choice(<< T("UnCountryId"), T("CountryAndRegions"),
        T("CountryAndSubregions") >>)),
    SequenceOfIdentifiedRegion |-> Delegate(SequenceOf(T("IdentifiedRegion")))]

ItsBaseTypes5 == [
    UnCountryId |-> Delegate(T("ItsBase_Uint16")),
    CountryOnly |-> Delegate(T("UnCountryId")),
    CountryAndRegions |-> Auto(Sequence(<< T("UnCountryId"), T("SequenceOfUint8") >>)),
    CountryAndSubregions |-> Auto(Sequence(<< T("UnCountryId"),
        T("SequenceOfRegionAndSubregions") >>))]

ItsBaseTypes6 == [
    RegionAndSubregions |-> Auto(Sequence(<< T("Uint8"), T("SequenceOfUint16") >>)),
    SequenceOfRegionAndSubregions |-> Delegate(SequenceOf(T("RegionAndSubregions"))),
    ThreeDLocation |-> Auto(Sequence(<< T("ItsBase_Latitude"), T("ItsBase_Longitude"),
        T("Elevation") >>)),
    ItsBase_Latitude |-> Delegate(T("NinetyDegreeInt")),
    ItsBase_Longitude |-> Delegate(T("OneEightyDegreeInt")),
    Elevation |-> Delegate(T("ItsBase_Uint16")),
    NinetyDegreeInt |-> Delegate(T("INTEGER")),
    KnownLatitude |-> Delegate(T("NinetyDegreeInt"))]

ItsBaseTypes7 == [
    UnknownLatitude |-> Delegate(T("NinetyDegreeInt")),
    OneEightyDegreeInt |-> Delegate(T("INTEGER"))]

ItsBaseTypes8 == [
    KnownLongitude |-> Delegate(T("OneEightyDegreeInt")),
    UnknownLongitude |-> Delegate(T("OneEightyDegreeInt")),
    ItsBase_Signature |-> Auto(Choice(<< T("EcdsaP256Signature"), T("EcdsaP256Signature"),
        Add(T("EcdsaP384Signature")), Add(T("EcdsaP384Signature")),
        Add(T("EcsigP256Signature")) >>)),
    EcdsaP256Signature |-> Auto(Sequence(<< T("EccP256CurvePoint"), T("OCTET STRING") >>))]

ItsBaseTypes9 == [
    EcdsaP384Signature |-> Auto(Sequence(<< T("EccP384CurvePoint"), T("OCTET STRING") >>)),
    EcsigP256Signature |-> Auto(Sequence(<< T("OCTET STRING"), T("OCTET STRING") >>)),
    EccP256CurvePoint |-> Auto(Choice(<< T("OCTET STRING"), T("NULL"), T("OCTET STRING"),
        T("OCTET STRING"), T("EccP256CurvePointUncompressedP256") >>)),
    EccP256CurvePointUncompressedP256 |-> Auto(Sequence(<< T("OCTET STRING"),
        T("OCTET STRING") >>)),
    EccP384CurvePoint |-> Auto(Choice(<< T("OCTET STRING"), T("NULL"), T("OCTET STRING"),
        T("OCTET STRING"), T("EccP384CurvePointUncompressedP384") >>)),
    EccP384CurvePointUncompressedP384 |-> Auto(Sequence(<< T("OCTET STRING"),
        T("OCTET STRING") >>))]

ItsBaseTypes10 == [
    SymmAlgorithm |-> Enumerated,
    HashAlgorithm |-> Enumerated,
    EciesP256EncryptedKey |-> Auto(Sequence(<< T("EccP256CurvePoint"), T("OCTET STRING"),
        T("OCTET STRING") >>)),
    EcencP256EncryptedKey |-> Auto(Sequence(<< T("EccP256CurvePoint"), T("OCTET STRING"),
        T("OCTET STRING") >>)),
    ItsBase_EncryptionKey |-> Auto(Choice(<< T("PublicEncryptionKey"),
        T("SymmetricEncryptionKey") >>)),
    PublicEncryptionKey |-> Auto(Sequence(<< T("SymmAlgorithm"), T("BasePublicEncryptionKey") >>)),
    BasePublicEncryptionKey |-> Auto(Choice(<< T("EccP256CurvePoint"), T("EccP256CurvePoint"),
        Add(T("EccP256CurvePoint")) >>))]

ItsBaseTypes11 == [
    PublicVerificationKey |-> Auto(Choice(<< T("EccP256CurvePoint"), T("EccP256CurvePoint"),
        Add(T("EccP384CurvePoint")), Add(T("EccP384CurvePoint")), Add(T("EccP256CurvePoint")) >>)),
    SymmetricEncryptionKey |-> Auto(Choice(<< T("OCTET STRING"), Add(T("OCTET STRING")) >>)),
    PsidSsp |-> Auto(Sequence(<< T("Psid"), Opt(T("ServiceSpecificPermissions")) >>)),
    SequenceOfPsidSsp |-> Delegate(SequenceOf(T("PsidSsp"))),
    Psid |-> Delegate(T("INTEGER")),
    SequenceOfPsid |-> Delegate(SequenceOf(T("Psid"))),
    ServiceSpecificPermissions |-> Auto(Choice(<< T("OCTET STRING"), Add(T("BitmapSsp")) >>))]

ItsBaseTypes12 == [
    BitmapSsp |-> Delegate(T("OCTET STRING")),
    PsidSspRange |-> Auto(Sequence(<< T("Psid"), Opt(T("SspRange")) >>)),
    SequenceOfPsidSspRange |-> Delegate(SequenceOf(T("PsidSspRange"))),
    SspRange |-> Auto(Choice(<< SequenceOf(T("OCTET STRING")), T("NULL"),
        Add(T("BitmapSspRange")) >>))]

ItsBaseTypes13 == [
    BitmapSspRange |-> Auto(Sequence(<< T("OCTET STRING"), T("OCTET STRING") >>)),
    SubjectAssurance |-> Delegate(T("OCTET STRING")),
    CrlSeries |-> Delegate(T("ItsBase_Uint16")),
    IValue |-> Delegate(T("ItsBase_Uint16")),
    Hostname |-> Delegate(T("UTF8String")),
    LinkageValue |-> Delegate(T("OCTET STRING")),
    GroupLinkageValue |-> Auto(Sequence(<< T("OCTET STRING"), T("OCTET STRING") >>)),
    LaId |-> Delegate(T("OCTET STRING")),
    SequenceOfLinkageSeed |-> Delegate(SequenceOf(T("LinkageSeed"))),
    LinkageSeed |-> Delegate(T("OCTET STRING"))]

ItsTypes1 == [
    Ieee1609Dot2Data |-> Auto(Sequence(<< T("Uint8"), T("Ieee1609Dot2Content") >>)),
    Ieee1609Dot2Content |-> Auto(Choice(<< T("ItsBase_Opaque"), T("Its_SignedData"),
        T("Its_EncryptedData"), T("ItsBase_Opaque"), Add(T("ItsBase_Opaque")) >>)),
    Its_SignedData |-> Auto(Sequence(<< T("HashAlgorithm"), T("ToBeSignedData"),
        T("Its_SignerIdentifier"), T("ItsBase_Signature") >>)),
    ToBeSignedData |-> Auto(Sequence(<< T("SignedDataPayload"), T("HeaderInfo") >>)),
    SignedDataPayload |-> Auto(Sequence(<< Opt(T("Ieee1609Dot2Data")), Opt(T("HashedData")),
        Add(Opt(T("NULL"))) >>))]

ItsTypes2 == [
    HashedData |-> Auto(Choice(<< T("HashedId32"), Add(T("HashedId48")), Add(T("HashedId32")) >>)),
    HeaderInfo |-> Auto(Sequence(<< T("Psid"), Opt(T("Time64")), Opt(T("Time64")),
        Opt(T("ThreeDLocation")), Opt(T("HashedId3")), Opt(T("MissingCrlIdentifier")),
        Opt(T("ItsBase_EncryptionKey")), Add(Opt(T("SequenceOfHashedId3"))),
        Add(Opt(T("Its_Certificate"))), Add(Opt(T("PduFunctionalType"))),
        Add(Opt(T("ContributedExtensionBlocks"))) >>)),
    MissingCrlIdentifier |-> Auto(Sequence(<< T("HashedId3"), T("CrlSeries") >>)),
    PduFunctionalType |-> Delegate(T("INTEGER"))]

ItsTypes3 == [
    ContributedExtensionBlocks |-> Delegate(SequenceOf(T("ContributedExtensionBlockType"))),
    Ieee1609HeaderInfoExtensions |-> Enumerated,
    Ieee1609ContributedHeaderInfoExtension |-> Sequence(<< T("Etsi_Extension") >>),
    ContributedExtensionBlock |-> Sequence(<< T("HeaderInfoContributorId"),
        SequenceOf(T("Etsi_Extension")) >>),
    ContributedExtensionBlockType |-> Auto(Choice(<< T("ContributedExtensionBlock") >>)),
    HeaderInfoContributorId |-> Delegate(T("INTEGER")),
    Its_SignerIdentifier |-> Auto(Choice(<< T("HashedId8"), T("SequenceOfCertificate"),
        T("NULL") >>)),
    Countersignature |-> Delegate(T("Ieee1609Dot2Data"))]

ItsTypes4 == [
    Its_EncryptedData |-> Auto(Sequence(<< T("SequenceOfRecipientInfo"),
        T("SymmetricCiphertext") >>)),
    Its_RecipientInfo |-> Auto(Choice(<< T("PreSharedKeyRecipientInfo"), T("SymmRecipientInfo"),
        T("PKRecipientInfo"), T("PKRecipientInfo"), T("PKRecipientInfo") >>)),
    SequenceOfRecipientInfo |-> Delegate(SequenceOf(T("Its_RecipientInfo"))),
    PreSharedKeyRecipientInfo |-> Delegate(T("HashedId8")),
    SymmRecipientInfo |-> Auto(Sequence(<< T("HashedId8"), T("SymmetricCiphertext") >>))]

ItsTypes5 == [
    PKRecipientInfo |-> Auto(Sequence(<< T("HashedId8"), T("EncryptedDataEncryptionKey") >>)),
    EncryptedDataEncryptionKey |-> Auto(Choice(<< T("EciesP256EncryptedKey"),
        T("EciesP256EncryptedKey"), Add(T("EcencP256EncryptedKey")) >>)),
    SymmetricCiphertext |-> Auto(Choice(<< T("One28BitCcmCiphertext"),
        Add(T("One28BitCcmCiphertext")) >>)),
    One28BitCcmCiphertext |-> Auto(Sequence(<< T("OCTET STRING"), T("ItsBase_Opaque") >>)),
    Aes128CcmCiphertext |-> Delegate(T("One28BitCcmCiphertext")),
    Its_Certificate |-> Delegate(T("CertificateBase"))]

ItsTypes6 == [
    TestCertificate |-> Delegate(T("Its_Certificate")),
    SequenceOfCertificate |-> Delegate(SequenceOf(T("Its_Certificate"))),
    CertificateBase |-> Auto(Sequence(<< T("Uint8"), T("CertificateType"), T("IssuerIdentifier"),
        T("ToBeSignedCertificate"), Opt(T("ItsBase_Signature")) >>))]

ItsTypes7 == [
    CertificateType |-> Enumerated,
    ImplicitCertificate |-> Delegate(T("CertificateBase"))]

ItsTypes8 == [
    ExplicitCertificate |-> Delegate(T("CertificateBase"))]

ItsTypes9 == [
    IssuerIdentifier |-> Auto(Choice(<< T("HashedId8"), T("HashAlgorithm"), Add(T("HashedId8")),
        Add(T("HashedId8")) >>)),
    ToBeSignedCertificate |-> Auto(Sequence(<< T("CertificateId"), T("HashedId3"), T("CrlSeries"),
        T("ValidityPeriod"), Opt(T("GeographicRegion")), Opt(T("SubjectAssurance")),
        Opt(T("SequenceOfPsidSsp")), Opt(T("SequenceOfPsidGroupPermissions")),
        Opt(T("SequenceOfPsidGroupPermissions")), Opt(T("NULL")), Opt(T("PublicEncryptionKey")),
        T("VerificationKeyIndicator"), Add(Opt(T("BIT STRING"))),
        Add(Opt(T("SequenceOfAppExtensions"))), Add(Opt(T("SequenceOfCertIssueExtensions"))),
        Add(Opt(T("SequenceOfCertRequestExtensions"))) >>))]

ItsTypes10 == [
    CertificateId |-> Auto(Choice(<< T("LinkageData"), T("Hostname"), T("OCTET STRING"),
        T("NULL") >>)),
    LinkageData |-> Auto(Sequence(<< T("IValue"), T("LinkageValue"),
        Opt(T("GroupLinkageValue")) >>)),
    EndEntityType |-> Delegate(T("BIT STRING")),
    PsidGroupPermissions |-> Auto(Sequence(<< T("SubjectPermissions"), Def(T("INTEGER")),
        Def(T("INTEGER")), Def(T("EndEntityType")) >>))]

ItsTypes11 == [
    SequenceOfPsidGroupPermissions |-> Delegate(SequenceOf(T("PsidGroupPermissions"))),
    SubjectPermissions |-> Auto(Choice(<< T("SequenceOfPsidSspRange"), T("NULL") >>)),
    VerificationKeyIndicator |-> Auto(Choice(<< T("PublicVerificationKey"),
        T("EccP256CurvePoint") >>)),
    AppExtension |-> Auto(Sequence(<< T("ExtId"), T("OperatingOrganizationId") >>)),
    SequenceOfCertIssueExtensions |->
        Delegate(SequenceOf(T("OperatingOrganizationIssueExtension"))),
    IssuePermissions |-> Auto(Choice(<< T("NULL"), T("NULL") >>)),
    CertIssueExtension |-> Auto(Sequence(<< T("ExtId"), T("IssuePermissions") >>))]

ItsTypes12 == [
    SequenceOfCertRequestExtensions |->
        Delegate(SequenceOf(T("OperatingOrganizationRequestExtension"))),
    RequestPermissions |-> Auto(Choice(<< T("NULL"), T("NULL") >>)),
    CertRequestExtension |-> Auto(Sequence(<< T("ExtId"), T("RequestPermissions") >>)),
    OperatingOrganizationId |-> Delegate(T("OBJECT IDENTIFIER")),
    OperatingOrganizationExtension |-> Null,
    OperatingOrganizationAppExtension |-> Alias(T("AppExtension")),
    OperatingOrganizationIssueExtension |-> Alias(T("CertIssueExtension")),
    OperatingOrganizationRequestExtension |-> Alias(T("CertRequestExtension")),
    SequenceOfAppExtensions |-> Delegate(SequenceOf(T("OperatingOrganizationAppExtension"))),
    CrlPsid |-> Delegate(T("Psid")),
    SecuredCrl |-> Delegate(T("Ieee1609Dot2Data"))]

ItsTypes13 == [
    CrlSsp |-> Auto(Sequence(<< T("Uint8"), T("CracaType"), T("PermissibleCrls") >>)),
    CracaType |-> Enumerated,
    PermissibleCrls |-> Delegate(SequenceOf(T("CrlSeries"))),
    Ieee1609Dot2Peer2PeerPDU |-> Auto(Sequence(<< T("Uint8"),
        T("Ieee1609Dot2Peer2PeerPduContent") >>)),
    Ieee1609Dot2Peer2PeerPduContent |-> Auto(Choice(<< T("CaCertP2pPDU") >>)),
    CaCertP2pPDU |-> Delegate(SequenceOf(T("Its_Certificate")))]

ItsTypes14 == [
    Its_Uint16 |-> Alias(T("INTEGER")),
    Its_Duration |-> Auto(Choice(<< T("Its_Uint16"), T("Its_Uint16"), T("Its_Uint16"),
        T("Its_Uint16"), T("Its_Uint16"), T("Its_Uint16"), T("Its_Uint16") >>))]

ItsCrlTypes1 == [
    CrlContents |-> Auto(Sequence(<< T("Uint8"), T("CrlSeries"), T("HashedId8"), T("Time32"),
        T("Time32"), T("CrlPriorityInfo"), T("TypeSpecificCrlContents") >>)),
    CrlPriorityInfo |-> Auto(Sequence(<< Opt(T("Uint8")) >>)),
    TypeSpecificCrlContents |-> Auto(Choice(<< T("ToBeSignedHashIdCrl"), T("ToBeSignedHashIdCrl"),
        T("ToBeSignedLinkageValueCrl"), T("ToBeSignedLinkageValueCrl"),
        Add(T("ToBeSignedLinkageValueCrlWithAlgIdentifier")),
        Add(T("ToBeSignedLinkageValueCrlWithAlgIdentifier")) >>)),
    ToBeSignedHashIdCrl |-> Auto(Sequence(<< T("Uint32"),
        T("SequenceOfHashBasedRevocationInfo") >>)),
    SequenceOfHashBasedRevocationInfo |-> Delegate(SequenceOf(T("HashBasedRevocationInfo")))]

ItsCrlTypes2 == [
    HashBasedRevocationInfo |-> Auto(Sequence(<< T("HashedId10"), T("Time32") >>)),
    ToBeSignedLinkageValueCrl |-> Auto(Sequence(<< T("IValue"), T("Uint8"),
        Opt(T("SequenceOfJMaxGroup")), Opt(T("SequenceOfGroupCrlEntry")),
        Add(Opt(T("SequenceOfGroupSingleSeedCrlEntry"))) >>)),
    SequenceOfJMaxGroup |-> Delegate(SequenceOf(T("JMaxGroup"))),
    JMaxGroup |-> Auto(Sequence(<< T("Uint8"), T("SequenceOfLAGroup") >>)),
    SequenceOfLAGroup |-> Delegate(SequenceOf(T("LAGroup"))),
    LAGroup |-> Auto(Sequence(<< T("LaId"), T("LaId"), T("SequenceOfIMaxGroup") >>)),
    SequenceOfIMaxGroup |-> Delegate(SequenceOf(T("IMaxGroup"))),
    IMaxGroup |-> Auto(Sequence(<< T("ItsBase_Uint16"), T("SequenceOfIndividualRevocation"),
        Add(Opt(T("SequenceOfLinkageSeed"))) >>)),
    SequenceOfIndividualRevocation |-> Delegate(SequenceOf(T("IndividualRevocation")))]

ItsCrlTypes3 == [
    IndividualRevocation |-> Auto(Sequence(<< T("LinkageSeed"), T("LinkageSeed") >>)),
    SequenceOfGroupCrlEntry |-> Delegate(SequenceOf(T("GroupCrlEntry"))),
    GroupCrlEntry |-> Auto(Sequence(<< T("ItsBase_Uint16"), T("LaId"), T("LinkageSeed"),
        T("LaId"), T("LinkageSeed") >>)),
    ToBeSignedLinkageValueCrlWithAlgIdentifier |-> Auto(Sequence(<< T("IValue"), T("Uint8"),
        T("SeedEvolutionFunctionIdentifier"), T("LvGenerationFunctionIdentifier"),
        Opt(T("SequenceOfJMaxGroup")), Opt(T("SequenceOfGroupCrlEntry")),
        Opt(T("SequenceOfGroupSingleSeedCrlEntry")) >>)),
    SequenceOfGroupSingleSeedCrlEntry |-> Delegate(SequenceOf(T("GroupSingleSeedCrlEntry"))),
    GroupSingleSeedCrlEntry |-> Auto(Sequence(<< T("ItsBase_Uint16"), T("LaId"),
        T("LinkageSeed") >>)),
    ExpansionAlgorithmIdentifier |-> Enumerated,
    SeedEvolutionFunctionIdentifier |-> Alias(T("NULL")),
    LvGenerationFunctionIdentifier |-> Alias(T("NULL"))]

EtsiTypes1 == [
    ExtId |-> Delegate(T("INTEGER")),
    Etsi_Extension |-> Auto(Sequence(<< T("ExtId"), T("HashedId8") >>)),
    EtsiTs103097HeaderInfoExtensions |-> Enumerated]

EtsiTypes2 == [
    EtsiTs102941DeltaCtlRequest |-> Alias(T("EtsiTs102941CtlRequest"))]

EtsiTypes3 == [
    EtsiTs102941CrlRequest |-> Auto(Sequence(<< T("HashedId8"), Opt(T("Time32")) >>)),
    EtsiTs102941CtlRequest |-> Auto(Sequence(<< T("HashedId8"), Opt(T("INTEGER")) >>))]

EtsiTypes4 == [
    EtsiTs103097Certificate |-> Delegate(T("Its_Certificate"))]

TrafficTypes ==
    AtnTypes1 @@ AtnTypes2 @@ AtnTypes3 @@ AtnTypes4 @@ AtnTypes5 @@ AtnTypes6
        @@ AtnTypes7 @@ AtnTypes8 @@ AtnTypes9 @@ AtnTypes10 @@ AtnTypes11 @@ AtnTypes12
        @@ AtnTypes13 @@ AtnTypes14 @@ AtnTypes15 @@ AtnTypes16 @@ AtnTypes17
        @@ AtnTypes18 @@ AtnTypes19 @@ AtnTypes20 @@ AtnTypes21 @@ AtnTypes22
        @@ AtnTypes23 @@ AtnTypes24 @@ UlcsTypes1 @@ ItsBaseTypes1 @@ ItsBaseTypes2
        @@ ItsBaseTypes3 @@ ItsBaseTypes4 @@ ItsBaseTypes5 @@ ItsBaseTypes6
        @@ ItsBaseTypes7 @@ ItsBaseTypes8 @@ ItsBaseTypes9 @@ ItsBaseTypes10
        @@ ItsBaseTypes11 @@ ItsBaseTypes12 @@ ItsBaseTypes13 @@ ItsTypes1 @@ ItsTypes2
        @@ ItsTypes3 @@ ItsTypes4 @@ ItsTypes5 @@ ItsTypes6 @@ ItsTypes7 @@ ItsTypes8
        @@ ItsTypes9 @@ ItsTypes10 @@ ItsTypes11 @@ ItsTypes12 @@ ItsTypes13 @@ ItsTypes14
        @@ ItsCrlTypes1 @@ ItsCrlTypes2 @@ ItsCrlTypes3 @@ EtsiTypes1 @@ EtsiTypes2
        @@ EtsiTypes3 @@ EtsiTypes4
=============================================================================
