---------------------------- MODULE DatabaseSensors ----------------------------
(***************************************************************************)
(* Which sensor of the database a value is stored for, and as which C++    *)
(* type it is read (Database::handleValue).                                *)
(***************************************************************************)

\* <<type, subtype, sensor>>
NUMERICMAPPING ==
    {<<"SollTemp", "Kessel", "KesselSollTemp">>, <<"IstTemp", "Kessel", "KesselIstTemp">>,
     <<"SollTemp", "WW", "WarmwasserSollTemp">>, <<"IstTemp", "WW", "WarmwasserIstTemp">>,
     <<"SollTemp", "HK1", "VorlaufHK1SollTemp">>, <<"IstTemp", "HK1", "VorlaufHK1IstTemp">>,
     <<"SollTemp", "HK2", "VorlaufHK2SollTemp">>, <<"IstTemp", "HK2", "VorlaufHK2IstTemp">>,
     <<"IstTemp", "Ruecklauf", "RuecklaufTemp">>, <<"IstTemp", "Aussen", "AussenTemp">>,
     <<"GedaempfteTemp", "Aussen", "GedaempfteAussenTemp">>,
     <<"RaumSollTemp", "HK1", "RaumSollTemp">>, <<"RaumIstTemp", "HK1", "RaumIstTemp">>,
     <<"Flammenstrom", "None", "Flammenstrom">>, <<"Systemdruck", "None", "Systemdruck">>,
     <<"IstTemp", "Waermetauscher", "WaermetauscherTemp">>,
     <<"DurchflussMenge", "WW", "WarmwasserDurchfluss">>,
     <<"IstTemp", "SolarSpeicher", "SolarSpeicherTemp">>,
     <<"IstTemp", "SolarKollektor", "SolarKollektorTemp">>}

INTEGERMAPPING ==
    {<<"BetriebsZeit", "Kessel", "Betriebszeit">>, <<"HeizZeit", "Kessel", "HeizZeit">>,
     <<"Brennerstarts", "Kessel", "Brennerstarts">>,
     <<"WarmwasserbereitungsZeit", "None", "WarmwasserbereitungsZeit">>,
     <<"WarmwasserBereitungen", "None", "WarmwasserBereitungen">>,
     <<"Mischersteuerung", "HK2", "Mischersteuerung">>,
     <<"IstModulation", "Brenner", "MomLeistung">>, <<"SollModulation", "Brenner", "MaxLeistung">>,
     <<"IstModulation", "KesselPumpe", "PumpenModulation">>}

BOOLMAPPING ==
    {<<"FlammeAktiv", "None", "Flamme">>, <<"BrennerAktiv", "None", "Brenner">>,
     <<"ZuendungAktiv", "None", "Zuendung">>, <<"PumpeAktiv", "Kessel", "KesselPumpe">>,
     <<"DreiWegeVentilAufWW", "None", "3WegeVentil">>, <<"Tagbetrieb", "HK1", "HK1Tagbetrieb">>,
     <<"PumpeAktiv", "HK1", "HK1Pumpe">>, <<"Ferien", "HK1", "HK1Ferien">>,
     <<"Party", "HK1", "HK1Party">>, <<"Tagbetrieb", "HK2", "HK2Tagbetrieb">>,
     <<"PumpeAktiv", "HK2", "HK2Pumpe">>, <<"Ferien", "HK2", "HK2Ferien">>,
     <<"Party", "HK2", "HK2Party">>, <<"WarmwasserBereitung", "None", "WarmwasserBereitung">>,
     <<"WarmwasserTempOK", "None", "WarmwasserTempOK">>, <<"ZirkulationAktiv", "None", "Zirkulation">>,
     <<"Tagbetrieb", "Zirkulation", "ZirkulationTagbetrieb">>, <<"WWVorrang", "None", "WWVorrang">>,
     <<"Tagbetrieb", "WW", "WWTagbetrieb">>, <<"Sommerbetrieb", "None", "Sommerbetrieb">>,
     <<"PumpeAktiv", "Solar", "SolarPumpe">>}

\* <<type, sensor>>
STATEMAPPING ==
    {<<"FehlerCode", "FehlerCode">>, <<"ServiceCode", "ServiceCode">>,
     <<"StoerungsCode", "StoerungsCode">>, <<"StoerungsNummer", "StoerungsNummer">>}

Taken(sensor, kind) == [sensor |-> sensor, kind |-> kind]

\* The sensors value k is stored for.  The tables have no type in common, so
\* at most one entry is found, whatever the order of the search; None in
\* BOOLMAPPING stands for any subtype.
takenFor(k) ==
    {Taken(e[3], "Numeric") : e \in {x \in NUMERICMAPPING : <<x[1], x[2]>> = k}}
    \cup {Taken(e[3], "Integer") : e \in {x \in INTEGERMAPPING : <<x[1], x[2]>> = k}}
    \cup {Taken(e[3], "Boolean") :
             e \in {x \in BOOLMAPPING : x[1] = k[1] /\ x[2] \in {"None", k[2]}}}
    \cup {Taken(e[2], "Formatted") : e \in {x \in STATEMAPPING : x[1] = k[1]}}
    \cup {Taken(e[2], "Enumeration") :
             e \in {x \in {<<"HK1", "HK1Automatik">>, <<"HK2", "HK2Automatik">>} :
                       k = <<"Betriebsart", x[1]>>}}
=============================================================================
