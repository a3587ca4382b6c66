---------------------------- MODULE MCDashboard ----------------------------
(* Dashboard on a small instance: the constants' values are in              *)
(* dashboard.cfg.                                                           *)
EXTENDS Dashboard
=============================================================================
