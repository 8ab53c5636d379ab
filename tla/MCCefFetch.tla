------------------------------- MODULE MCCefFetch -------------------------------
(* Instances of the fetcher for TLC. *)
EXTENDS CefFetch

CONSTANTS libcef, icudtl, locale

\* The order of the published archives: Release before Resources.
MCFiles == <<libcef, icudtl, locale>>
===============================================================================
