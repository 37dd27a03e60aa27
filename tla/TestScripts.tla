---------------------------- MODULE TestScripts ----------------------------
(***************************************************************************)
(* The test scripts CT_AFC_*: what each of them asks of the AFC simulator, *)
(* of the DUT and of the RF test equipment, and in which order.            *)
(*                                                                         *)
(* A script is its test case family, the role of the DUT, the test vector  *)
(* (1 frequency ranges, 2 channels, 3 both), the channel width and, for    *)
(* the server validation scripts, the number of the web server's faulty    *)
(* configuration.  Its execute() is a sequence of instructions, pairs of   *)
(* an operation and the phase it belongs to; module TestSession runs them. *)
(***************************************************************************)
EXTENDS Integers, Sequences

CONSTANT CountryCode      \* the setting AFCD_COUNTRY_CODE of the test tool

ASSUME CountryAssumption == CountryCode \in {"US", "CA"}

Script == [family: {"RSA", "USA", "SAU", "UAU", "USV"}, role: {"AP", "STA"},
           vector: 0..3, width: {20, 40, 80, 160, 320}, run: 0..8]

\* Successful registration and spectrum access request; unsuccessful access
\* request; successful and unsuccessful access update; server validation.
RSA(role, vector, width) ==
  [family |-> "RSA", role |-> role, vector |-> vector, width |-> width, run |-> 0]
USA(role, vector) ==
  [family |-> "USA", role |-> role, vector |-> vector, width |-> 20, run |-> 0]
SAU(role, vector) ==
  [family |-> "SAU", role |-> role, vector |-> vector, width |-> 20, run |-> 0]
UAU(role, vector) ==
  [family |-> "UAU", role |-> role, vector |-> vector, width |-> 20, run |-> 0]
USV(role, run) ==
  [family |-> "USV", role |-> role, vector |-> 0, width |-> 20, run |-> run]
-----------------------------------------------------------------------------
(***************************************************************************)
(* AFCLib.set_afc_response: the body posted to set-response.  hold, power, *)
(* diff and width are hold_response, only_random_power,                    *)
(* difference_last_picks and channel_width.                                *)
(***************************************************************************)
Optional(given, names) == IF given THEN names ELSE {}

\* Mutant: the update of SAU does not ask for other picks.
set_afc_responseUpdateless(purpose, vector, phase, hold, random, power, diff, width) ==
  LET members == [purpose |-> purpose, testVector |-> vector, countryCode |-> CountryCode,
                  holdResponse |-> TRUE, phase |-> phase, onlyRandomPower |-> TRUE,
                  random |-> TRUE, channelWidth |-> width, difference_last_picks |-> TRUE]
      given == {"purpose", "testVector", "countryCode"}
               \cup Optional(hold, {"holdResponse"})
               \cup Optional(phase # 0, {"phase"})
               \cup Optional(power, {"onlyRandomPower"})
               \cup Optional(random \/ purpose = "SAU", {"random", "channelWidth"})
               \cup Optional(random /\ diff,
                             {"difference_last_picks"})
  IN  [member \in given |-> members[member]]

set_afc_response(purpose, vector, phase, hold, random, power, diff, width) ==
  LET members == [purpose |-> purpose, testVector |-> vector, countryCode |-> CountryCode,
                  holdResponse |-> TRUE, phase |-> phase, onlyRandomPower |-> TRUE,
                  random |-> TRUE, channelWidth |-> width, difference_last_picks |-> TRUE]
      given == {"purpose", "testVector", "countryCode"}
               \cup Optional(hold, {"holdResponse"})
               \cup Optional(phase # 0, {"phase"})
               \cup Optional(power, {"onlyRandomPower"})
               \cup Optional(random \/ purpose = "SAU", {"random", "channelWidth"})
               \cup Optional((random /\ diff) \/ (purpose = "SAU" /\ phase = 2),
                             {"difference_last_picks"})
  IN  [member \in given |-> members[member]]

\* The setting a script posts in a phase.
Posted(s, phase) ==
  [RSA |-> set_afc_response("RSA", s.vector, 0, FALSE, TRUE, s.role = "STA",
                            s.role = "AP" /\ phase = 2,
                            IF s.width > 80 THEN s.width ELSE 80),
   SAU |-> set_afc_response("SAU", s.vector, phase, phase = 2, FALSE,
                            s.role = "STA", FALSE, 80),
   UAU |-> set_afc_response("UAU", s.vector, phase, FALSE, FALSE, FALSE, FALSE, 80),
   USA |-> set_afc_response("USA", s.vector, 0, FALSE, FALSE, FALSE, FALSE, 80)
  ][s.family]
-----------------------------------------------------------------------------
(***************************************************************************)
(* The programs.  STA scripts skip the first monitoring, whose call is     *)
(* commented out, and connect the DUT to its SP access point instead,      *)
(* which the simulator does not see.                                       *)
(***************************************************************************)
Phase(phase, ops) == [i \in DOMAIN ops |-> <<ops[i], phase>>]

FirstPhase(s) ==
  Phase(1, (IF s.role = "AP" THEN <<"configure", "monitor">> ELSE <<"configure">>)
           \o <<"set_response", "send_request", "check_request">>)

\* Phase 2 of the update scripts begins with a power cycle; the reconfigured
\* DUT has to send its request unasked, and the script polls for it.
PowerCycledLate ==             \* mutant: the DUT may inquire before set_response
  <<"power_cycle", "reconfigure", "set_response", "poll_request">>

PowerCycled == <<"set_response", "power_cycle", "reconfigure", "poll_request">>

RSAProgram(s) ==
  FirstPhase(s)
  \o Phase(1, <<"validate_rf">>)
  \o Phase(2, <<"set_response", "send_request", "check_request", "validate_rf">>)
USAProgram(s) == FirstPhase(s) \o Phase(1, <<"monitor_nothing_granted">>)
SAUProgram(s) ==
  FirstPhase(s)
  \o Phase(1, <<"validate_rf">>)
  \o Phase(2, PowerCycled \o <<"monitor", "release_response", "validate_rf">>)
UAUProgram(s) ==
  FirstPhase(s)
  \o Phase(1, <<"validate_rf">>)
  \o Phase(2, PowerCycled \o <<"monitor_nothing_granted">>)
USVProgram(s) ==
  Phase(1, <<"configure", "reset", "send_request", "check_no_request">>)

Program(s) ==
  IF s.family = "RSA" THEN RSAProgram(s)
  ELSE IF s.family = "USA" THEN USAProgram(s)
  ELSE IF s.family = "SAU" THEN SAUProgram(s)
  ELSE IF s.family = "UAU" THEN UAUProgram(s)
  ELSE USVProgram(s)

\* Everything the scripts post to set-response.
Settings(scripts) ==
  {Posted(s, phase) : s \in {x \in scripts : x.family # "USV"}, phase \in 1..2}
-----------------------------------------------------------------------------
(***************************************************************************)
(* The scripts, by the name of their class.                                *)
(***************************************************************************)
CT_AFC_SP_AP_AFCDRSA31_Frequency_20MHz_10611_1 == RSA("AP", 1, 20)
CT_AFC_SP_AP_AFCDRSA31_Frequency_40MHz_10612_1 == RSA("AP", 1, 40)
CT_AFC_SP_AP_AFCDRSA31_Frequency_80MHz_10613_1 == RSA("AP", 1, 80)
CT_AFC_SP_AP_AFCDRSA31_Frequency_160MHz_10614_1 == RSA("AP", 1, 160)
CT_AFC_SP_AP_AFCDRSA31_Frequency_320MHz_10713_1 == RSA("AP", 1, 320)
CT_AFC_SP_AP_AFCDRSA31_Channel_20MHz_10618_1 == RSA("AP", 2, 20)
CT_AFC_SP_AP_AFCDRSA31_Channel_40MHz_10619_1 == RSA("AP", 2, 40)
CT_AFC_SP_AP_AFCDRSA31_Channel_80MHz_10620_1 == RSA("AP", 2, 80)
CT_AFC_SP_AP_AFCDRSA31_Channel_160MHz_10621_1 == RSA("AP", 2, 160)
CT_AFC_SP_AP_AFCDRSA31_Channel_320MHz_10714_1 == RSA("AP", 2, 320)
CT_AFC_SP_AP_AFCDRSA31_FrequencyChannel_20MHz_10625_1 == RSA("AP", 3, 20)
CT_AFC_SP_AP_AFCDRSA31_FrequencyChannel_40MHz_10626_1 == RSA("AP", 3, 40)
CT_AFC_SP_AP_AFCDRSA31_FrequencyChannel_80MHz_10627_1 == RSA("AP", 3, 80)
CT_AFC_SP_AP_AFCDRSA31_FrequencyChannel_160MHz_10628_1 == RSA("AP", 3, 160)
CT_AFC_SP_AP_AFCDRSA31_FrequencyChannel_320MHz_10715_1 == RSA("AP", 3, 320)
CT_AFC_FC_STA_AFCDRSA31_Frequency_20MHz_10640_1 == RSA("STA", 1, 20)
CT_AFC_FC_STA_AFCDRSA31_Frequency_40MHz_10641_1 == RSA("STA", 1, 40)
CT_AFC_FC_STA_AFCDRSA31_Frequency_80MHz_10642_1 == RSA("STA", 1, 80)
CT_AFC_FC_STA_AFCDRSA31_Frequency_160MHz_10643_1 == RSA("STA", 1, 160)
CT_AFC_FC_STA_AFCDRSA31_Frequency_320MHz_10716_1 == RSA("STA", 1, 320)
CT_AFC_FC_STA_AFCDRSA31_Channel_20MHz_10647_1 == RSA("STA", 2, 20)
CT_AFC_FC_STA_AFCDRSA31_Channel_40MHz_10648_1 == RSA("STA", 2, 40)
CT_AFC_FC_STA_AFCDRSA31_Channel_80MHz_10649_1 == RSA("STA", 2, 80)
CT_AFC_FC_STA_AFCDRSA31_Channel_160MHz_10650_1 == RSA("STA", 2, 160)
CT_AFC_FC_STA_AFCDRSA31_Channel_320MHz_10717_1 == RSA("STA", 2, 320)
CT_AFC_FC_STA_AFCDRSA31_FrequencyChannel_20MHz_10654_1 == RSA("STA", 3, 20)
CT_AFC_FC_STA_AFCDRSA31_FrequencyChannel_40MHz_10655_1 == RSA("STA", 3, 40)
CT_AFC_FC_STA_AFCDRSA31_FrequencyChannel_80MHz_10656_1 == RSA("STA", 3, 80)
CT_AFC_FC_STA_AFCDRSA31_FrequencyChannel_160MHz_10657_1 ==
  RSA("STA", 3, 160)
CT_AFC_FC_STA_AFCDRSA31_FrequencyChannel_320MHz_10718_1 ==
  RSA("STA", 3, 320)
CT_AFC_SP_AP_AFCDUSA32_Frequency_10615_1 == USA("AP", 1)
CT_AFC_SP_AP_AFCDUSA32_Channel_10622_1 == USA("AP", 2)
CT_AFC_SP_AP_AFCDUSA32_FrequencyChannel_10629_1 == USA("AP", 3)
CT_AFC_FC_STA_AFCDUSA32_Frequency_10644_1 == USA("STA", 1)
CT_AFC_FC_STA_AFCDUSA32_Channel_10651_1 == USA("STA", 2)
CT_AFC_FC_STA_AFCDUSA32_FrequencyChannel_10658_1 == USA("STA", 3)
CT_AFC_SP_AP_AFCDSAU33_Frequency_10616_1 == SAU("AP", 1)
CT_AFC_SP_AP_AFCDSAU33_Channel_10623_1 == SAU("AP", 2)
CT_AFC_SP_AP_AFCDSAU33_FrequencyChannel_10630_1 == SAU("AP", 3)
CT_AFC_FC_STA_AFCDSAU33_Frequency_10645_1 == SAU("STA", 1)
CT_AFC_FC_STA_AFCDSAU33_Channel_10652_1 == SAU("STA", 2)
CT_AFC_FC_STA_AFCDSAU33_FrequencyChannel_10659_1 == SAU("STA", 3)
CT_AFC_SP_AP_AFCDUAU34_Frequency_10617_1 == UAU("AP", 1)
CT_AFC_SP_AP_AFCDUAU34_Channel_10624_1 == UAU("AP", 2)
CT_AFC_SP_AP_AFCDUAU34_FrequencyChannel_10631_1 == UAU("AP", 3)
CT_AFC_FC_STA_AFCDUAU34_Frequency_10646_1 == UAU("STA", 1)
CT_AFC_FC_STA_AFCDUAU34_Channel_10653_1 == UAU("STA", 2)
CT_AFC_FC_STA_AFCDUAU34_FrequencyChannel_10660_1 == UAU("STA", 3)
CT_AFC_ServerValidation_AP_AFCDUSV35_NonMatchSAN_10632_1 == USV("AP", 1)
CT_AFC_ServerValidation_AP_AFCDUSV35_DifferentRootCA_10633_1 == USV("AP", 2)
CT_AFC_ServerValidation_AP_AFCDUSV35_MatchSuffixSAN_10634_1 == USV("AP", 3)
CT_AFC_ServerValidation_AP_AFCDUSV35_ServerCertRevoked_10635_1 ==
  USV("AP", 4)
CT_AFC_ServerValidation_AP_AFCDUSV35_OCSPStaplingDisabled_10636_1 ==
  USV("AP", 5)
CT_AFC_ServerValidation_AP_AFCDUSV35_StapledOCSPRespExpired_10637_1 ==
  USV("AP", 6)
CT_AFC_ServerValidation_AP_AFCDUSV35_TLSCipherSuiteENULL_10638_1 ==
  USV("AP", 7)
CT_AFC_ServerValidation_AP_AFCDUSV35_NoRootCA_10639_1 == USV("AP", 8)
CT_AFC_ServerValidation_STA_AFCDUSV35_NonMatchSAN_10661_1 == USV("STA", 1)
CT_AFC_ServerValidation_STA_AFCDUSV35_DifferentRootCA_10662_1 ==
  USV("STA", 2)
CT_AFC_ServerValidation_STA_AFCDUSV35_MatchSuffixSAN_10663_1 ==
  USV("STA", 3)
CT_AFC_ServerValidation_STA_AFCDUSV35_ServerCertRevoked_10664_1 ==
  USV("STA", 4)
CT_AFC_ServerValidation_STA_AFCDUSV35_OCSPStaplingDisabled_10665_1 ==
  USV("STA", 5)
CT_AFC_ServerValidation_STA_AFCDUSV35_StapledOCSPRespExpired_10666_1 ==
  USV("STA", 6)
CT_AFC_ServerValidation_STA_AFCDUSV35_TLSCipherSuiteENULL_10667_1 ==
  USV("STA", 7)
CT_AFC_ServerValidation_STA_AFCDUSV35_NoRootCA_10668_1 == USV("STA", 8)

AllScripts ==
  {CT_AFC_SP_AP_AFCDRSA31_Frequency_20MHz_10611_1,
   CT_AFC_SP_AP_AFCDRSA31_Frequency_40MHz_10612_1,
   CT_AFC_SP_AP_AFCDRSA31_Frequency_80MHz_10613_1,
   CT_AFC_SP_AP_AFCDRSA31_Frequency_160MHz_10614_1,
   CT_AFC_SP_AP_AFCDRSA31_Frequency_320MHz_10713_1,
   CT_AFC_SP_AP_AFCDRSA31_Channel_20MHz_10618_1,
   CT_AFC_SP_AP_AFCDRSA31_Channel_40MHz_10619_1,
   CT_AFC_SP_AP_AFCDRSA31_Channel_80MHz_10620_1,
   CT_AFC_SP_AP_AFCDRSA31_Channel_160MHz_10621_1,
   CT_AFC_SP_AP_AFCDRSA31_Channel_320MHz_10714_1,
   CT_AFC_SP_AP_AFCDRSA31_FrequencyChannel_20MHz_10625_1,
   CT_AFC_SP_AP_AFCDRSA31_FrequencyChannel_40MHz_10626_1,
   CT_AFC_SP_AP_AFCDRSA31_FrequencyChannel_80MHz_10627_1,
   CT_AFC_SP_AP_AFCDRSA31_FrequencyChannel_160MHz_10628_1,
   CT_AFC_SP_AP_AFCDRSA31_FrequencyChannel_320MHz_10715_1,
   CT_AFC_FC_STA_AFCDRSA31_Frequency_20MHz_10640_1,
   CT_AFC_FC_STA_AFCDRSA31_Frequency_40MHz_10641_1,
   CT_AFC_FC_STA_AFCDRSA31_Frequency_80MHz_10642_1,
   CT_AFC_FC_STA_AFCDRSA31_Frequency_160MHz_10643_1,
   CT_AFC_FC_STA_AFCDRSA31_Frequency_320MHz_10716_1,
   CT_AFC_FC_STA_AFCDRSA31_Channel_20MHz_10647_1,
   CT_AFC_FC_STA_AFCDRSA31_Channel_40MHz_10648_1,
   CT_AFC_FC_STA_AFCDRSA31_Channel_80MHz_10649_1,
   CT_AFC_FC_STA_AFCDRSA31_Channel_160MHz_10650_1,
   CT_AFC_FC_STA_AFCDRSA31_Channel_320MHz_10717_1,
   CT_AFC_FC_STA_AFCDRSA31_FrequencyChannel_20MHz_10654_1,
   CT_AFC_FC_STA_AFCDRSA31_FrequencyChannel_40MHz_10655_1,
   CT_AFC_FC_STA_AFCDRSA31_FrequencyChannel_80MHz_10656_1,
   CT_AFC_FC_STA_AFCDRSA31_FrequencyChannel_160MHz_10657_1,
   CT_AFC_FC_STA_AFCDRSA31_FrequencyChannel_320MHz_10718_1,
   CT_AFC_SP_AP_AFCDUSA32_Frequency_10615_1,
   CT_AFC_SP_AP_AFCDUSA32_Channel_10622_1,
   CT_AFC_SP_AP_AFCDUSA32_FrequencyChannel_10629_1,
   CT_AFC_FC_STA_AFCDUSA32_Frequency_10644_1,
   CT_AFC_FC_STA_AFCDUSA32_Channel_10651_1,
   CT_AFC_FC_STA_AFCDUSA32_FrequencyChannel_10658_1,
   CT_AFC_SP_AP_AFCDSAU33_Frequency_10616_1,
   CT_AFC_SP_AP_AFCDSAU33_Channel_10623_1,
   CT_AFC_SP_AP_AFCDSAU33_FrequencyChannel_10630_1,
   CT_AFC_FC_STA_AFCDSAU33_Frequency_10645_1,
   CT_AFC_FC_STA_AFCDSAU33_Channel_10652_1,
   CT_AFC_FC_STA_AFCDSAU33_FrequencyChannel_10659_1,
   CT_AFC_SP_AP_AFCDUAU34_Frequency_10617_1,
   CT_AFC_SP_AP_AFCDUAU34_Channel_10624_1,
   CT_AFC_SP_AP_AFCDUAU34_FrequencyChannel_10631_1,
   CT_AFC_FC_STA_AFCDUAU34_Frequency_10646_1,
   CT_AFC_FC_STA_AFCDUAU34_Channel_10653_1,
   CT_AFC_FC_STA_AFCDUAU34_FrequencyChannel_10660_1,
   CT_AFC_ServerValidation_AP_AFCDUSV35_NonMatchSAN_10632_1,
   CT_AFC_ServerValidation_AP_AFCDUSV35_DifferentRootCA_10633_1,
   CT_AFC_ServerValidation_AP_AFCDUSV35_MatchSuffixSAN_10634_1,
   CT_AFC_ServerValidation_AP_AFCDUSV35_ServerCertRevoked_10635_1,
   CT_AFC_ServerValidation_AP_AFCDUSV35_OCSPStaplingDisabled_10636_1,
   CT_AFC_ServerValidation_AP_AFCDUSV35_StapledOCSPRespExpired_10637_1,
   CT_AFC_ServerValidation_AP_AFCDUSV35_TLSCipherSuiteENULL_10638_1,
   CT_AFC_ServerValidation_AP_AFCDUSV35_NoRootCA_10639_1,
   CT_AFC_ServerValidation_STA_AFCDUSV35_NonMatchSAN_10661_1,
   CT_AFC_ServerValidation_STA_AFCDUSV35_DifferentRootCA_10662_1,
   CT_AFC_ServerValidation_STA_AFCDUSV35_MatchSuffixSAN_10663_1,
   CT_AFC_ServerValidation_STA_AFCDUSV35_ServerCertRevoked_10664_1,
   CT_AFC_ServerValidation_STA_AFCDUSV35_OCSPStaplingDisabled_10665_1,
   CT_AFC_ServerValidation_STA_AFCDUSV35_StapledOCSPRespExpired_10666_1,
   CT_AFC_ServerValidation_STA_AFCDUSV35_TLSCipherSuiteENULL_10667_1,
   CT_AFC_ServerValidation_STA_AFCDUSV35_NoRootCA_10668_1}
=============================================================================
