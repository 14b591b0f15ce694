------------------------------- MODULE ValueApi -------------------------------
(***************************************************************************)
(* How values are named and printed for clients (collector/ValueApi.cpp).  *)
(* What is printed is a word or a row of numbers; records of the history   *)
(* of errors, which no handler reports, are left out.                      *)
(***************************************************************************)
EXTENDS EmsValues

\* Stoerung is in the table twice, and a std::map keeps the first.
TYPEMAPPING ==
    [SollTemp |-> "targettemperature", IstTemp |-> "currenttemperature",
     SetTemp |-> "settemperature", MinTemp |-> "mintemperature",
     MaxTemp |-> "maxtemperature", KomfortTemp |-> "comforttemperature",
     ReduzierteTemp |-> "reducedtemperature", ExtraTemp |-> "extratemperature",
     ManualTemp |-> "manualtemperature", TemporaryTemp |-> "temporarytemperature",
     BoostTemp |-> "boosttemperature", BoostHours |-> "boosthours",
     BoostActive |-> "boostactive", ExtraActive |-> "extraactive",
     BoostRemainingMins |-> "boostremainingmins",
     ExtraRemainingMins |-> "extraremainingmins", Extra15Mins |-> "extra15mins",
     ZirkProStunde |-> "zirksperhour", TagTemp |-> "daytemperature",
     NachtTemp |-> "nighttemperature", UrlaubTemp |-> "vacationtemperature",
     RaumSollTemp |-> "roomtargettemperature", RaumIstTemp |-> "roomcurrenttemperature",
     RaumEinfluss |-> "maxroomeffect", RaumOffset |-> "roomtemperatureoffset",
     SchwelleSommerWinter |-> "summerwinterthreshold",
     FrostSchutzTemp |-> "frostprotecttemperature", AuslegungsTemp |-> "designtemperature",
     RaumUebersteuerTemp |-> "temperatureoverride",
     AbsenkungsSchwellenTemp |-> "reducedmodethreshold",
     UrlaubAbsenkungsSchwellenTemp |-> "vacationreducedmodethreshold",
     AbsenkungsAbbruchTemp |-> "cancelreducedmodethreshold",
     GedaempfteTemp |-> "dampedtemperature", DesinfektionsTemp |-> "desinfectiontemperature",
     RaumTemperaturAenderung |-> "roomtemperaturechange",
     Mischersteuerung |-> "mixercontrol", Flammenstrom |-> "flamecurrent",
     Systemdruck |-> "pressure", BetriebsZeit |-> "operatingminutes",
     BetriebsZeit2 |-> "operatingminutes2", MinModulation |-> "minmodulation",
     MaxModulation |-> "maxmodulation", SollModulation |-> "targetmodulation",
     IstModulation |-> "currentmodulation", SollLeistung |-> "requestedpower",
     EinschaltHysterese |-> "onhysteresis", AusschaltHysterese |-> "offhysteresis",
     DurchflussMenge |-> "flowrate", HeizZeit |-> "heatingminutes",
     WarmwasserbereitungsZeit |-> "warmwaterminutes", Brennerstarts |-> "heaterstarts",
     WarmwasserBereitungen |-> "warmwaterpreparations",
     EinschaltoptimierungsZeit |-> "onoptimizationminutes",
     AusschaltoptimierungsZeit |-> "offoptimizationminutes",
     AntipendelZeit |-> "antipendelminutes", NachlaufZeit |-> "followupminutes",
     DesinfektionStunde |-> "desinfectionhour",
     HektoStundenVorWartung |-> "maintenanceintervalin100hours",
     MonateVorWartung |-> "maintenanceintervalinmonthsuptime", PausenZeit |-> "pausehours",
     PartyZeit |-> "partyhours", FlammeAktiv |-> "flameactive",
     BrennerAktiv |-> "heateractive", ZuendungAktiv |-> "ignitionactive",
     PumpeAktiv |-> "pumpactive", ZirkulationAktiv |-> "zirkpumpactive",
     DreiWegeVentilAufWW |-> "3wayonww", EinmalLadungAktiv |-> "onetimeload",
     DesinfektionAktiv |-> "desinfectionactive", Desinfektion |-> "desinfection",
     NachladungAktiv |-> "boostcharge", WarmwasserBereitung |-> "warmwaterpreparationactive",
     WarmwasserTempOK |-> "warmwatertempok", Tagbetrieb |-> "daymode",
     Sommerbetrieb |-> "summermode", Sommerbetriebsart |-> "summeropmode",
     Ausschaltoptimierung |-> "offoptimization", Einschaltoptimierung |-> "onoptimization",
     Estrichtrocknung |-> "floordrying", WWVorrang |-> "wwoverride",
     Urlaub |-> "vacationmode", Ferien |-> "holidaymode", Party |-> "partymode",
     Pause |-> "pausemode", Frostschutzbetrieb |-> "frostprotectmodeactive",
     SchaltuhrEin |-> "switchpointactive", KesselSchalter |-> "masterswitch",
     EigenesProgrammAktiv |-> "customschedule", EinmalLadungsLED |-> "onetimeloadindicator",
     ATDaempfung |-> "outdoortempdamping", SchaltzeitOptimierung |-> "scheduleoptimizer",
     Fuehler1Defekt |-> "sensor1failure", Fuehler2Defekt |-> "sensor2failure",
     Stoerung |-> "failure", StoerungDesinfektion |-> "desinfectionfailure",
     Ladevorgang |-> "loading", WWSystemType |-> "warmwatersystemtype",
     Schaltpunkte |-> "switchpoints", Wartungsmeldungen |-> "maintenancereminder",
     WartungFaellig |-> "maintenancedue", Betriebsart |-> "opmode",
     Betriebszustand |-> "opstate", DesinfektionTag |-> "desinfectionday",
     GebaeudeArt |-> "buildingtype", AbsenkModus |-> "reductionmode",
     HeizSystem |-> "heatingsystem", FuehrungsGroesse |-> "relevantparameter",
     Frostschutz |-> "frostprotectmode", UrlaubAbsenkungsArt |-> "vacationreductionmode",
     FBTyp |-> "remotecontroltype", HKKennlinie |-> "characteristic", Fehler |-> "error",
     SystemZeit |-> "systemtime", Wartungstermin |-> "maintenancedate",
     ServiceCode |-> "servicecode", FehlerCode |-> "errorcode"]

SUBTYPEMAPPING ==
    [HK1 |-> "hk1", HK2 |-> "hk2", HK3 |-> "hk3", HK4 |-> "hk4", RC |-> "rc",
     Kessel |-> "heater", KesselPumpe |-> "heaterpump", Brenner |-> "burner",
     Ruecklauf |-> "returnflow", Waermetauscher |-> "heatexchanger", WW |-> "ww",
     Zirkulation |-> "zirkpump", Aussen |-> "outdoor", Abgas |-> "exhaust",
     Ansaugluft |-> "intake", Solar |-> "solar", SolarPumpe |-> "solarpump",
     SolarSpeicher |-> "solartank", SolarKollektor |-> "solarcollector"]

\* "" for the types and subtypes without a name.
getTypeName(type) == IF type \in DOMAIN TYPEMAPPING THEN TYPEMAPPING[type] ELSE ""

getSubTypeName(subtype) ==
    IF subtype \in DOMAIN SUBTYPEMAPPING THEN SUBTYPEMAPPING[subtype] ELSE ""

-----------------------------------------------------------------------------

Word(w) == [word |-> w, numbers |-> << >>]
Numbers(n) == [word |-> "", numbers |-> n]

HeatingCircuits == {"HK1", "HK2", "HK3", "HK4"}

\* The table a numbered list of words stands for: words[1] for the value first.
Named(first, words) == [b \in first .. first + Len(words) - 1 |-> words[b - first + 1]]

\* names and one value more.
Also(names, value, word) ==
    [b \in DOMAIN names \cup {value} |-> IF b = value THEN word ELSE names[b]]

NoNames == [b \in {} |-> ""]

\* The table that formatValue uses for the enumeration of key k.
EnumNames(k) ==
    CASE k[1] = "WWSystemType" ->
             Named(0, <<"none", "tankless", "small", "large", "speicherladesystem">>)
      [] k[1] = "Schaltpunkte" ->
             Named(0, <<"off", "1x", "2x", "3x", "4x", "5x", "6x", "alwayson">>)
      [] k[1] = "Wartungsmeldungen" -> Named(0, <<"off", "byhours", "bydate", "bymonths">>)
      [] k[1] = "WartungFaellig" -> Also(Also(Named(0, <<"no">>), 3, "byhours"), 8, "bydate")
      [] k[1] = "Sommerbetriebsart" -> Named(1, <<"auto", "heateron">>)
      [] k[1] = "Betriebsart" /\ k[2] \in HeatingCircuits -> Named(0, <<"off", "manual", "auto">>)
      [] k[1] = "Betriebszustand" /\ k[2] \in HeatingCircuits ->
             Also(Named(0, <<"off", "reduced", "manual", "normal">>), 6, "boost")
      [] k[1] \in {"Betriebsart", "Betriebszustand"} /\ k[2] \notin HeatingCircuits ->
             CASE k[2] = "WW" -> Named(0, <<"off", "eco", "comfort", "followheater", "auto">>)
               [] k[2] = "Zirkulation" -> Named(0, <<"off", "on", "followww", "auto">>)
               [] OTHER -> Named(0, <<"off", "on", "auto">>)
      [] k[1] = "DesinfektionTag" ->
             Named(0, <<"monday", "tuesday", "wednesday", "thursday", "friday", "saturday",
                        "sunday", "everyday">>)
      [] k[1] = "GebaeudeArt" -> Named(1, <<"light", "medium", "heavy">>)
      [] k[1] = "HeizSystem" -> Named(0, <<"none", "heater", "convection", "floorheater">>)
      [] k[1] = "AbsenkModus" -> Named(0, <<"offmode", "reduced", "raumhalt", "aussenhalt">>)
      [] k[1] = "Frostschutz" -> Named(0, <<"off", "byoutdoortemp", "byindoortemp">>)
      [] k[1] = "FuehrungsGroesse" -> Named(0, <<"outdoor", "indoor">>)
      [] k[1] = "UrlaubAbsenkungsArt" -> Named(2, <<"indoor", "outdoor">>)
      [] k[1] = "FBTyp" -> Named(0, <<"none", "rc20", "rc3x">>)
      [] OTHER -> NoNames

\* formatValue() of the value v of key k; the numbers of a date and of a time
\* in the order in which they are printed.
formatValue(k, v) ==
    LET r == v.reading
    IN  CASE v.kind \in {"Numeric", "Integer"} /\ ~v.valid -> Word("unavailable")
          [] v.kind = "Boolean" -> Word(IF r = <<1>> THEN "on" ELSE "off")
          [] v.kind = "Enumeration" /\ r[1] \in DOMAIN EnumNames(k) -> Word(EnumNames(k)[r[1]])
          [] v.kind = "Date" -> Numbers(<<2000 + r[3], r[2], r[1]>>)
          [] v.kind = "SystemTime" -> Numbers(<<2000 + (r[1] % 128), r[2], r[4], r[3], r[5], r[6]>>)
          [] OTHER -> Numbers(r)
=============================================================================
