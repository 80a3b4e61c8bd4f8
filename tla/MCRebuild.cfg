SPECIFICATION FairSpec
CONSTANTS
    s1 = s1
    s2 = s2
    s3 = s3
    ty1 = ty1
    ty2 = ty2
    NoSdk = NoSdk
    Module = Module
    SDKs <- MCSDKs
    Types <- MCTypes
    TypesOf <- MCTypesOf
    Shrinks = FALSE
INVARIANTS TypeOK TestedTogether
PROPERTIES Repairs
