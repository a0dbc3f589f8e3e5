------------------------- MODULE MC_ImageSaveFault -------------------------
(* ImageSaveFault with the constant values of MC_ImageSign.                *)
EXTENDS MC_ImageSign, ImageSaveFault
=============================================================================
