----------------------------- MODULE MCAutopilot -----------------------------
(* AutopilotSystem on two instances: two alerts of one group and no deploys
   (Autopilot_alerts.cfg), and one alert with two runs of deploy.sh
   (Autopilot_deploys.cfg, Autopilot_dora.cfg). *)
EXTENDS AutopilotSystem
=============================================================================
