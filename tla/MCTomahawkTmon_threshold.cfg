CONSTANTS
    Sensors <- MCSensors
    NThresholds <- MCNThresholds
    Codes <- MCCodes
    BgAdjfResets <- MCBgAdjfResets
SPECIFICATION Spec
INVARIANT InterruptOnlyAtMaxDegC
