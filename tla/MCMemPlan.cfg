\* Every recipe of a few operators for two layers on two devices.
SPECIFICATION Spec
CONSTANTS
    Slots <- Five
    Order <- BySize
    Carried <- XAndHC
    NLayers = 2
    Devices <- TwoDevices
    Main = "cpu"
    Placed <- SecondOnGpu
    Recipes <- SmallRecipes
INVARIANT OperandsRight
