---------------------------- MODULE MCFeatureWatch ----------------------------
EXTENDS FeatureWatch, TLC
=============================================================================
