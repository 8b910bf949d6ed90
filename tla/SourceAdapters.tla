--------------------------- MODULE SourceAdapters ---------------------------
(***************************************************************************)
(* The live sources other than the weather stations (live_adapters.py,     *)
(* live/glofas_adapter.py): how often each may be asked and what a fetch   *)
(* answers. None of them opens a connection: the answer depends on whether *)
(* a key or an opt-in is configured, so that a fetch is one step.          *)
(***************************************************************************)
EXTENDS Naturals

CONSTANT Configured   \* sources whose key, or opt-in, the environment gives

IMD    == "IMD_ODISHA_AWS"
IMERG  == "NASA_GPM_IMERG_EARLY"
INSAT  == "ISRO_MOSDAC_INSAT3DR"
NWP    == "ECMWF_OPEN_DATA_NWP"
CWC    == "CWC_WRIS_TELEMETRY"
GLOFAS == "GLOFAS_OPEN_METEO_FLOOD"
RADAR  == "IMD_DWR_PARADIP"
MOCK   == "MOCK_LIVE_SIMULATOR"

AllSources == {IMD, IMERG, INSAT, NWP, CWC, GLOFAS, RADAR, MOCK}

ASSUME ConfiguredAssumption == Configured \subseteq {INSAT, MOCK}

(* Seconds: how often a poll of all sources wants one, and the least time   *)
(* between two polls of it. One definition per adapter.                     *)
Interval(refresh, minimum) == [refresh |-> refresh, minimum |-> minimum]
ImdInterval     == Interval(900, 300)
ImergInterval   == Interval(1800, 900)
InsatInterval   == Interval(1800, 900)
NwpInterval     == Interval(10800, 3600)
CwcInterval     == Interval(3600, 1800)
GlofasInterval  == Interval(3600, 900)
RadarInterval   == Interval(600, 300)
MockInterval    == Interval(60, 10)

IntervalOf(source) ==
    CASE source = IMD    -> ImdInterval
      [] source = IMERG  -> ImergInterval
      [] source = INSAT  -> InsatInterval
      [] source = NWP    -> NwpInterval
      [] source = CWC    -> CwcInterval
      [] source = GLOFAS -> GlofasInterval
      [] source = RADAR  -> RadarInterval
      [] OTHER           -> MockInterval

(* What a fetch answers: the data state of its run.                         *)
ImergFetch  == "LIVE_OPERATIONAL"
InsatFetch  == IF INSAT \in Configured THEN "LIVE_OPERATIONAL" ELSE "NOT_CONFIGURED"
NwpFetch    == "LIVE_OPERATIONAL"
CwcFetch    == "LIVE_OPERATIONAL"
GlofasFetch == "MODELED_GLOFAS"
RadarFetch  == "UNAVAILABLE"
MockFetch   == IF MOCK \in Configured THEN "MOCK_LIVE" ELSE "NOT_CONFIGURED"

AnswerOf(source) ==
    CASE source = IMERG  -> ImergFetch
      [] source = INSAT  -> InsatFetch
      [] source = NWP    -> NwpFetch
      [] source = CWC    -> CwcFetch
      [] source = GLOFAS -> GlofasFetch
      [] source = RADAR  -> RadarFetch
      [] OTHER           -> MockFetch

AnswerStates == {"LIVE_OPERATIONAL", "MODELED_GLOFAS", "UNAVAILABLE",
                 "MOCK_LIVE", "NOT_CONFIGURED"}
=============================================================================
