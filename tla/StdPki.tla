------------------------------- MODULE StdPki -------------------------------
(*************************************************************************)
(* PKIX, EST, OCSP, CMS, PKCS #7, TSP and S/MIME: the types              *)
(* (standards/pkix, ocsp, cms, smime),                                   *)
(* in the notation of Asn1Types, one definition for each page of the source. *)
(* PkiStatus has a codec of its own that writes an INTEGER.              *)
(*************************************************************************)
EXTENDS Asn1Types

PkixTypes1 == [
    InvalidityDate |-> Alias(T("GeneralizedTime")),
    CertificateIssuer |-> Alias(T("GeneralNames")),
    CrlNumber |-> Alias(T("INTEGER")),
    BaseCrlNumber |-> Alias(T("CrlNumber")),
    SubjectInfoAccessSyntax |-> Alias(SequenceOf(T("AccessDescription"))),
    AuthorityInfoAccessSyntax |-> Alias(SequenceOf(T("AccessDescription"))),
    FreshestCrl |-> Alias(T("CrlDistributionPoints")),
    InhibitAnyPolicy |-> Alias(T("CrlDistributionPoints")),
    KeyPurposeId |-> Alias(T("OBJECT IDENTIFIER")),
    ExtKeyUsageSyntax |-> Alias(SequenceOf(T("KeyPurposeId"))),
    ReasonFlags |-> Alias(T("BIT STRING")),
    SkipCerts |-> Alias(T("INTEGER")),
    BaseDistance |-> Alias(T("INTEGER")),
    CrlDistributionPoints |-> Alias(SequenceOf(T("DistributionPoint"))),
    GeneralSubtrees |-> Alias(SequenceOf(T("GeneralSubtree"))),
    SubjectDirectoryAttributes |-> Alias(SequenceOf(T("Pkix_Attribute"))),
    GeneralNames |-> Alias(SequenceOf(T("GeneralName"))),
    SubjectAltName |-> Alias(T("GeneralNames")),
    PolicyMappings |-> Alias(SequenceOf(T("PolicyMapping"))),
    CpsUri |-> Alias(T("IA5String")),
    CertPolicyId |-> Alias(T("OBJECT IDENTIFIER")),
    CertificatePolicies |-> Alias(SequenceOf(T("PolicyInformation"))),
    KeyUsage |-> Alias(T("BIT STRING")),
    AttributeType |-> Alias(T("OBJECT IDENTIFIER")),
    Pkix_AttributeValue |-> Alias(T("ANY")),
    RdnSequence |-> Alias(SequenceOf(T("RelativeDistinguishedName"))),
    X520DnQualifier |-> Alias(T("PrintableString")),
    DomainComponent |-> Alias(T("IA5String")),
    EmailAddress |-> Alias(T("IA5String")),
    CertificateSerialNumber |-> Alias(T("INTEGER")),
    UniqueIdentifier |-> Alias(T("BIT STRING")),
    Pkix_NetworkAddress |-> Alias(T("X121Address")),
    X121Address |-> Alias(T("NumericString")),
    TerminalIdentifier |-> Alias(T("PrintableString")),
    OrganisationName |-> Alias(T("PrintableString")),
    NumericUserIdentifier |-> Alias(T("NumericString")),
    TerminalType |-> Alias(T("INTEGER")),
    KeyIdentifier |-> Alias(T("OCTET STRING")),
    SubjectKeyIdentifier |-> Alias(T("KeyIdentifier")),
    PolicyQualifierId |-> Alias(T("OBJECT IDENTIFIER")),
    TrustAnchorTitle |-> Alias(T("UTF8String")),
    TrustAnchorList |-> Alias(SequenceOf(T("TrustAnchorChoice"))),
    CertPolicyFlags |-> Alias(T("BIT STRING"))]

PkixTypes2 == [
    Pkix_Certificate |-> Sequence(<< T("TbsCertificate"), T("Pkix_AlgorithmIdentifier"),
        T("BIT STRING") >>),
    TbsCertificate |-> Sequence(<< Def(E(0, T("Pkix_Version"))), T("CertificateSerialNumber"),
        T("Pkix_AlgorithmIdentifier"), T("Name"), T("Validity"), T("Name"),
        T("SubjectPublicKeyInfo"), Opt(I(1, T("UniqueIdentifier"))),
        Opt(I(2, T("UniqueIdentifier"))), Opt(E(3, T("Extensions"))) >>),
    Pkix_Version |-> Delegate(T("INTEGER"))]

PkixTypes3 == [
    TrustAnchorInfo |-> Sequence(<< Def(E(1, T("TrustAnchorInfoVersion"))),
        T("SubjectPublicKeyInfo"), T("KeyIdentifier"), Opt(T("TrustAnchorTitle")),
        Opt(T("CertPathControls")), Opt(E(1, T("Extensions"))), Opt(I(2, T("UTF8String"))) >>),
    CertPathControls |-> Sequence(<< T("Name"), Opt(I(0, T("Pkix_Certificate"))),
        Opt(I(1, T("CertificatePolicies"))), Opt(I(2, T("CertPolicyFlags"))),
        Opt(I(3, T("NameConstraints"))), Opt(I(4, T("INTEGER"))) >>),
    TrustAnchorChoice |-> Choice(<< T("Pkix_Certificate"), E(1, T("TbsCertificate")),
        E(2, T("TrustAnchorInfo")) >>),
    TrustAnchorInfoVersion |-> Delegate(T("INTEGER"))]

PkixTypes4 == [
    Validity |-> Sequence(<< T("Pkix_Time"), T("Pkix_Time") >>),
    Pkix_Time |-> Choice(<< T("UTCTime"), T("GeneralizedTime") >>),
    SubjectPublicKeyInfo |-> Sequence(<< T("Pkix_AlgorithmIdentifier"), T("BIT STRING") >>),
    AuthorityKeyIdentifier |-> Sequence(<< Opt(I(0, T("KeyIdentifier"))),
        Opt(I(1, T("GeneralNames"))), Opt(I(2, T("CertificateSerialNumber"))) >>),
    Pkix_Extension |-> Sequence(<< T("OBJECT IDENTIFIER"), Def(T("BOOLEAN")),
        T("OCTET STRING") >>),
    CertificateList |-> Sequence(<< T("TbsCertList"), T("Pkix_AlgorithmIdentifier"),
        T("BIT STRING") >>),
    TbsCertList |-> Sequence(<< T("Pkix_Version"), T("Pkix_AlgorithmIdentifier"), T("Name"),
        T("Pkix_Time"), Opt(T("Pkix_Time")), SequenceOf(T("RevokedCertificate")),
        Opt(E(0, T("Extensions"))) >>),
    RevokedCertificate |-> Sequence(<< T("CertificateSerialNumber"), T("Pkix_Time"),
        Opt(T("Extensions")) >>),
    Pkix_AlgorithmIdentifier |-> Sequence(<< T("OBJECT IDENTIFIER"), Opt(T("ANY")) >>),
    OrAddress |-> Sequence(<< T("BuiltInStandardAttributes"),
        Opt(T("BuiltInDomainDefinedAttributes")), Opt(T("ExtensionAttributes")) >>),
    BuiltInStandardAttributes |-> Sequence(<< Opt(T("CountryName")),
        Opt(T("AdministrationDomainName")), Opt(I(0, T("Pkix_NetworkAddress"))),
        Opt(I(1, T("TerminalIdentifier"))), Opt(I(2, T("PrivateDomainName"))),
        Opt(I(3, T("OrganisationName"))), Opt(I(4, T("NumericUserIdentifier"))),
        Opt(I(5, T("PersonalName"))), Opt(I(6, T("OrganisationalUnitNames"))) >>),
    BuiltInDomainDefinedAttributes |-> Delegate(SequenceOf(T("BuiltInDomainDefinedAttribute"))),
    BuiltInDomainDefinedAttribute |-> Sequence(<< T("PrintableString"), T("PrintableString") >>),
    CountryName |-> ExplicitlyTagged(Application(1), Choice(<< T("NumericString"),
        T("PrintableString") >>))]

PkixTypes5 == [
    PrivateDomainName |-> Choice(<< T("NumericString"), T("PrintableString") >>),
    AdministrationDomainName |-> ExplicitlyTagged(Application(2), Choice(<< T("NumericString"),
        T("PrintableString") >>)),
    PersonalName |-> Set(<< I(0, T("PrintableString")), Opt(I(1, T("PrintableString"))),
        Opt(I(2, T("PrintableString"))), Opt(I(3, T("PrintableString"))) >>),
    OrganisationalUnitNames |-> Delegate(SequenceOf(T("OrganisationalUnitName"))),
    OrganisationalUnitName |-> Delegate(T("PrintableString")),
    Extensions |-> Delegate(SequenceOf(T("Pkix_Extension"))),
    RelativeDistinguishedName |-> Delegate(SetOf(T("AttributeTypeAndValue"))),
    ExtensionAttributes |-> Delegate(SetOf(T("ExtensionAttribute"))),
    ExtensionAttribute |-> Sequence(<< I(0, T("INTEGER")), I(1, T("ANY")) >>),
    TeletexPersonalName |-> Set(<< I(0, T("TeletexString")), Opt(I(1, T("TeletexString"))),
        Opt(I(2, T("TeletexString"))), Opt(I(3, T("TeletexString"))) >>),
    PhysicalDeliveryCountryName |-> Choice(<< T("NumericString"), T("PrintableString") >>),
    PostalCode |-> Choice(<< T("NumericString"), T("PrintableString") >>),
    CommonName |-> Delegate(T("PrintableString")),
    TeletexCommonName |-> Delegate(T("TeletexString")),
    TeletexOrganizationName |-> Delegate(T("TeletexString")),
    TeletexOrganisationalUnitNames |-> Delegate(SequenceOf(T("TeletexOrganisationalUnitName"))),
    TeletexOrganisationalUnitName |-> Delegate(T("TeletexString")),
    PdsName |-> Delegate(T("PrintableString")),
    PrintableAddress |-> Delegate(T("PrintableString")),
    TeletexAddress |-> Delegate(T("TeletexString")),
    UnformattedPostalAddress |-> Set(<< Opt(SequenceOf(T("PrintableAddress"))),
        Opt(T("TeletexAddress")) >>)]

PkixTypes6 == [
    PdsParameter |-> Set(<< Opt(T("PrintableString")), Opt(T("TeletexString")) >>),
    ExtendedNetworkAddress |-> Choice(<< T("E1634Address"), I(0, T("PresentationAddress")) >>),
    E1634Address |-> Sequence(<< I(0, T("NumericString")), Opt(I(1, T("NumericString"))) >>),
    PresentationAddress |-> Sequence(<< Opt(E(0, T("OCTET STRING"))),
        Opt(E(1, T("OCTET STRING"))), Opt(E(2, T("OCTET STRING"))),
        E(3, SetOf(T("OCTET STRING"))) >>),
    TeletexDomainDefinedAttributes |-> Delegate(SequenceOf(T("TeletexDomainDefinedAttribute"))),
    TeletexDomainDefinedAttribute |-> Sequence(<< T("TeletexString"), T("TeletexString") >>),
    Name |-> Choice(<< T("RdnSequence") >>),
    Pkix_Attribute |-> Sequence(<< T("AttributeType"), SetOf(T("Pkix_AttributeValue")) >>),
    AttributeTypeAndValue |-> Sequence(<< T("AttributeType"), T("Pkix_AttributeValue") >>),
    PolicyInformation |-> Sequence(<< T("CertPolicyId"),
        Opt(SequenceOf(T("PolicyQualifierInfo"))) >>),
    PolicyQualifierInfo |-> Sequence(<< T("PolicyQualifierId"), T("ANY") >>),
    UserNotice |-> Sequence(<< Opt(T("NoticeReference")), Opt(T("DisplayText")) >>),
    NoticeReference |-> Sequence(<< T("DisplayText"), SequenceOf(T("INTEGER")) >>),
    DisplayText |-> Choice(<< T("IA5String"), T("VisibleString"), T("BMPString"),
        T("UTF8String") >>),
    PolicyMapping |-> Sequence(<< T("CertPolicyId"), T("CertPolicyId") >>),
    GeneralName |-> Choice(<< I(0, T("INSTANCE OF")), I(1, T("IA5String")), I(2, T("IA5String")),
        I(3, T("OrAddress")), I(4, T("Name")), I(5, T("EdiPartyName")), I(6, T("IA5String")),
        I(7, T("OCTET STRING")), I(8, T("OBJECT IDENTIFIER")) >>),
    EdiPartyName |-> Sequence(<< Opt(I(0, T("DirectoryString"))), I(1, T("DirectoryString")) >>),
    X520CountryName |-> Delegate(T("PrintableString")),
    X520SerialNumber |-> Delegate(T("PrintableString"))]

PkixTypes7 == [
    X520StateOrProvinceName |-> Choice(<< T("TeletexString"), T("PrintableString"),
        T("UniversalString"), T("UTF8String"), T("BMPString") >>),
    X520OrganisationName |-> Choice(<< T("TeletexString"), T("PrintableString"),
        T("UniversalString"), T("UTF8String"), T("BMPString") >>),
    X520OrganisationalUnitName |-> Choice(<< T("TeletexString"), T("PrintableString"),
        T("UniversalString"), T("UTF8String"), T("BMPString") >>),
    X520Title |-> Choice(<< T("TeletexString"), T("PrintableString"), T("UniversalString"),
        T("UTF8String"), T("BMPString") >>),
    X520Pseudonym |-> Choice(<< T("TeletexString"), T("PrintableString"), T("UniversalString"),
        T("UTF8String"), T("BMPString") >>),
    X520LocalityName |-> Choice(<< T("TeletexString"), T("PrintableString"), T("UniversalString"),
        T("UTF8String"), T("BMPString") >>),
    X520Name |-> Choice(<< T("TeletexString"), T("PrintableString"), T("UniversalString"),
        T("UTF8String"), T("BMPString") >>),
    X520CommonName |-> Choice(<< T("TeletexString"), T("PrintableString"), T("UniversalString"),
        T("UTF8String"), T("BMPString") >>)]

PkixTypes8 == [
    DirectoryString |-> Choice(<< T("TeletexString"), T("PrintableString"), T("UniversalString"),
        T("UTF8String"), T("BMPString") >>),
    BasicConstraints |-> Sequence(<< Def(T("BOOLEAN")), Opt(T("INTEGER")) >>),
    NameConstraints |-> Sequence(<< Opt(I(0, T("GeneralSubtrees"))),
        Opt(I(1, T("GeneralSubtrees"))) >>),
    GeneralSubtree |-> Sequence(<< T("GeneralName"), Def(I(0, T("BaseDistance"))),
        Opt(I(1, T("BaseDistance"))) >>),
    PolicyConstraints |-> Sequence(<< Opt(I(0, T("SkipCerts"))), Opt(I(1, T("SkipCerts"))) >>),
    DistributionPoint |-> Sequence(<< Opt(I(0, T("DistributionPointName"))),
        Opt(I(1, T("ReasonFlags"))), Opt(I(2, T("GeneralNames"))) >>),
    DistributionPointName |-> Choice(<< I(0, T("GeneralNames")),
        I(1, T("RelativeDistinguishedName")) >>),
    AccessDescription |-> Sequence(<< T("OBJECT IDENTIFIER"), T("GeneralName") >>),
    CrlReason |-> Enumerated,
    IssuingDistributionPoint |-> Sequence(<< Opt(I(0, T("DistributionPointName"))),
        Def(I(1, T("BOOLEAN"))), Def(I(2, T("BOOLEAN"))), Opt(I(3, T("ReasonFlags"))),
        Def(I(4, T("BOOLEAN"))), Def(I(5, T("BOOLEAN"))) >>)]

PkixTypes9 == [
    PrivateKeyUsagePeriod |-> Sequence(<< Opt(I(0, T("GeneralizedTime"))),
        Opt(I(1, T("GeneralizedTime"))) >>)]

PkixTypes10 == [
    DsaPublicKey |-> Alias(T("INTEGER")),
    Pkix_DhPublicKey |-> Alias(T("INTEGER")),
    KeaParamsId |-> Alias(T("OCTET STRING")),
    PrimeP |-> Alias(T("INTEGER")),
    Trinomial |-> Alias(T("INTEGER")),
    FieldElement |-> Alias(T("OCTET STRING")),
    EcPoint |-> Alias(T("OCTET STRING")),
    EcpVer |-> Alias(T("INTEGER")),
    DssParams |-> Sequence(<< T("INTEGER"), T("INTEGER"), T("INTEGER") >>),
    Pkix_DssSigValue |-> Sequence(<< T("INTEGER"), T("INTEGER") >>),
    Pkix_RsaPublicKey |-> Sequence(<< T("INTEGER"), T("INTEGER") >>),
    DomainParameters |-> Sequence(<< T("INTEGER"), T("INTEGER"), T("INTEGER"), Opt(T("INTEGER")),
        Opt(T("ValidationParams")) >>),
    ValidationParams |-> Sequence(<< T("BIT STRING"), T("INTEGER") >>),
    FieldId |-> Sequence(<< T("OBJECT IDENTIFIER"), T("ANY") >>),
    EcdsaSigValue |-> Sequence(<< T("INTEGER"), T("INTEGER") >>),
    CharacteristicTwo |-> Sequence(<< T("INTEGER"), T("OBJECT IDENTIFIER"), T("ANY") >>),
    Pentanomial |-> Sequence(<< T("INTEGER"), T("INTEGER"), T("INTEGER") >>),
    EcpkParameters |-> Sequence(<< T("EcParameters"), T("OBJECT IDENTIFIER"), T("NULL") >>),
    EcParameters |-> Sequence(<< T("EcpVer"), T("FieldId"), T("Curve"), T("EcPoint"),
        T("INTEGER"), Opt(T("INTEGER")) >>),
    Curve |-> Sequence(<< T("FieldElement"), T("FieldElement"), Opt(T("BIT STRING")) >>)]

PkixTypes11 == [
    Targets |-> Alias(SequenceOf(T("Target"))),
    AttrSpec |-> Alias(SequenceOf(T("OBJECT IDENTIFIER"))),
    ProxyInfo |-> Alias(SequenceOf(T("Targets")))]

PkixTypes12 == [
    AttributeCertificate |-> Sequence(<< T("AttributeCertificateInfo"),
        T("Pkix_AlgorithmIdentifier"), T("BIT STRING") >>),
    AttributeCertificateInfo |-> Sequence(<< T("AttributeCertificateVersion"), T("Holder"),
        T("Issuer"), T("Pkix_AlgorithmIdentifier"), T("CertificateSerialNumber"),
        T("AttributeCertificateValidityPeriod"), SequenceOf(T("Pkix_Attribute")),
        Opt(T("UniqueIdentifier")), Opt(T("Extensions")) >>),
    AttributeCertificateVersion |-> Delegate(T("INTEGER")),
    Holder |-> Sequence(<< Opt(I(0, T("Pkix_IssuerSerial"))), Opt(I(1, T("GeneralNames"))),
        Opt(I(2, T("ObjectDigestInfo"))) >>),
    ObjectDigestInfo |-> Sequence(<< T("DisgestedObjectType"), Opt(T("OBJECT IDENTIFIER")),
        T("Pkix_AlgorithmIdentifier"), T("BIT STRING") >>),
    DisgestedObjectType |-> Enumerated,
    Issuer |-> Choice(<< T("GeneralNames"), I(0, T("V2Form")) >>),
    V2Form |-> Sequence(<< Opt(T("GeneralNames")), Opt(I(0, T("Pkix_IssuerSerial"))),
        Opt(I(1, T("ObjectDigestInfo"))) >>),
    Pkix_IssuerSerial |-> Sequence(<< T("GeneralNames"), T("CertificateSerialNumber"),
        Opt(T("UniqueIdentifier")) >>),
    AttributeCertificateValidityPeriod |-> Sequence(<< T("GeneralizedTime"),
        T("GeneralizedTime") >>),
    Target |-> Choice(<< I(0, T("GeneralName")), I(1, T("GeneralName")), I(2, T("TargetCert")) >>),
    TargetCert |-> Sequence(<< T("Pkix_IssuerSerial"), Opt(T("GeneralName")),
        Opt(T("ObjectDigestInfo")) >>),
    IetfAttrSyntax |-> Sequence(<< Opt(I(0, T("GeneralNames"))),
        SequenceOf(T("IetfAttrSyntaxValue")) >>),
    IetfAttrSyntaxValue |-> Choice(<< T("OCTET STRING"), T("OBJECT IDENTIFIER"),
        T("UTF8String") >>),
    SvceAuthInfo |-> Sequence(<< T("GeneralName"), T("GeneralName"), Opt(T("OCTET STRING")) >>),
    RoleSyntax |-> Sequence(<< Opt(I(0, T("GeneralNames"))), I(1, T("GeneralName")) >>),
    Clearance |-> Sequence(<< T("OBJECT IDENTIFIER"), Def(T("ClassList")),
        Opt(SetOf(T("Pkix_SecurityCategory"))) >>),
    ClassList |-> Delegate(T("BIT STRING"))]

PkixTypes13 == [
    Pkix_SecurityCategory |-> Sequence(<< I(0, T("OBJECT IDENTIFIER")), E(1, T("ANY")) >>),
    AaControls |-> Sequence(<< Opt(T("INTEGER")), Opt(I(0, T("AttrSpec"))),
        Opt(I(1, T("AttrSpec"))), Def(T("BOOLEAN")) >>),
    AttributeCertificateClearAttributes |-> Sequence(<< T("GeneralName"), T("INTEGER"),
        SequenceOf(T("Pkix_Attribute")) >>)]

EstTypes1 == [
    AsymmetricDecryptKeyIdentifier |-> Alias(T("OCTET STRING")),
    CsrAttrs |-> Alias(SequenceOf(T("AttrOrOid"))),
    AttrOrOid |-> Choice(<< T("OBJECT IDENTIFIER"), T("Est_Attribute") >>),
    Est_Attribute |-> Sequence(<< T("OBJECT IDENTIFIER"), SetOf(T("ANY")) >>)]

OcspTypes1 == [
    Ocsp_Version |-> Alias(T("INTEGER")),
    Nonce |-> Alias(T("OCTET STRING")),
    KeyHash |-> Alias(T("OCTET STRING")),
    UnknownInfo |-> Alias(T("NULL")),
    ArchiveCutoff |-> Alias(T("GeneralizedTime")),
    AcceptableResponses |-> Alias(SequenceOf(T("OBJECT IDENTIFIER"))),
    OcspRequest |-> Sequence(<< T("TbsRequest"), Opt(E(0, T("Ocsp_Signature"))) >>),
    TbsRequest |-> Sequence(<< Def(E(0, T("Ocsp_Version"))), Opt(E(1, T("GeneralName"))),
        SequenceOf(T("Request")), Opt(E(2, T("Extensions"))) >>),
    Ocsp_Signature |-> Sequence(<< T("Pkix_AlgorithmIdentifier"), T("BIT STRING"),
        Opt(E(0, SequenceOf(T("Pkix_Certificate")))) >>),
    Request |-> Sequence(<< T("CertId"), Opt(E(0, T("Extensions"))) >>),
    CertId |-> Sequence(<< T("Pkix_AlgorithmIdentifier"), T("OCTET STRING"), T("OCTET STRING"),
        T("CertificateSerialNumber") >>),
    OcspResponse |-> Sequence(<< T("OcspResponseStatus"), Opt(E(0, T("ResponseBytes"))) >>),
    OcspResponseStatus |-> Enumerated,
    ResponseBytes |-> Sequence(<< T("OBJECT IDENTIFIER"), T("OCTET STRING") >>),
    BasicOcspResponse |-> Sequence(<< T("ResponseData"), T("Pkix_AlgorithmIdentifier"),
        T("BIT STRING"), Opt(E(0, SequenceOf(T("Pkix_Certificate")))) >>),
    ResponseData |-> Sequence(<< Def(E(0, T("Ocsp_Version"))), T("ResponderId"),
        T("GeneralizedTime"), SequenceOf(T("SingleResponse")), Opt(E(1, T("Extensions"))) >>)]

OcspTypes2 == [
    ResponderId |-> Choice(<< E(1, T("Name")), E(2, T("KeyHash")) >>),
    SingleResponse |-> Sequence(<< T("CertId"), T("CertStatus"), T("GeneralizedTime"),
        Opt(E(0, T("GeneralizedTime"))), Opt(E(1, T("Extensions"))) >>),
    CertStatus |-> Choice(<< I(0, T("NULL")), I(1, T("RevokedInfo")), I(2, T("UnknownInfo")) >>),
    RevokedInfo |-> Sequence(<< T("GeneralizedTime"), Opt(E(0, T("CrlReason"))) >>),
    ServiceLocator |-> Sequence(<< T("Name"), T("AuthorityInfoAccessSyntax") >>),
    CrlId |-> Sequence(<< Opt(E(0, T("IA5String"))), Opt(E(1, T("INTEGER"))),
        Opt(E(2, T("GeneralizedTime"))) >>)]

CmsTypes1 == [
    CmsVersion |-> Alias(T("INTEGER")),
    ContentType |-> Alias(T("OBJECT IDENTIFIER")),
    DigestAlgorithmIdentifier |-> Alias(T("Pkix_AlgorithmIdentifier")),
    DigestAlgorithmIdentifiers |-> Alias(SetOf(T("DigestAlgorithmIdentifier"))),
    SignatureAlgorithmIdentifier |-> Alias(T("Pkix_AlgorithmIdentifier")),
    ContentEncryptionAlgorithmIdentifier |-> Alias(T("Pkix_AlgorithmIdentifier")),
    KeyEncryptionAlgorithmIdentifier |-> Alias(T("Pkix_AlgorithmIdentifier")),
    KeyDerivationAlgorithmIdentifier |-> Alias(T("Pkix_AlgorithmIdentifier")),
    MessageAuthenticationCodeAlgorithm |-> Alias(T("Pkix_AlgorithmIdentifier")),
    CertificateSet |-> Alias(SetOf(T("CertificateChoices"))),
    RevocationInfoChoices |-> Alias(SetOf(T("RevocationInfoChoice"))),
    SignerInfos |-> Alias(SetOf(T("SignerInfo"))),
    SignedAttributes |-> Alias(SetOf(T("Pkix_Attribute"))),
    UnsignedAttributes |-> Alias(SetOf(T("Pkix_Attribute"))),
    SignatureValue |-> Alias(T("OCTET STRING")),
    RecipientInfos |-> Alias(SetOf(T("Cms_RecipientInfo"))),
    UnprotectedAttributes |-> Alias(SetOf(T("Pkix_Attribute"))),
    EncryptedContent |-> Alias(T("OCTET STRING")),
    EncryptedKey |-> Alias(T("OCTET STRING")),
    RecipientEncryptedKeys |-> Alias(SequenceOf(T("RecipientEncryptedKey"))),
    UserKeyingMaterial |-> Alias(T("OCTET STRING")),
    Digest |-> Alias(T("OCTET STRING")),
    AuthAttributes |-> Alias(SetOf(T("Pkix_Attribute"))),
    UnauthAttributes |-> Alias(SetOf(T("Pkix_Attribute"))),
    MessageAuthenticationCode |-> Alias(T("OCTET STRING")),
    Cms_Signature |-> Alias(T("BIT STRING")),
    AuthEnvelopedData |-> Sequence(<< T("CmsVersion"), Opt(I(0, T("OriginatorInfo"))),
        T("RecipientInfos"), T("EncryptedContentInfo"), Opt(I(1, T("AuthAttributes"))),
        T("MessageAuthenticationCode"), Opt(I(2, T("UnauthAttributes"))) >>),
    ContentInfo |-> Sequence(<< T("ContentType"), E(0, T("ANY")) >>),
    Cms_SignedData |-> Sequence(<< T("CmsVersion"), T("DigestAlgorithmIdentifiers"),
        T("Cms_EncapsulatedContentInfo"), Opt(I(0, T("CertificateSet"))),
        Opt(I(1, T("RevocationInfoChoices"))), T("SignerInfos") >>),
    EnvelopedData |-> Sequence(<< T("CmsVersion"), Opt(I(0, T("OriginatorInfo"))),
        T("RecipientInfos"), T("EncryptedContentInfo"), Opt(I(1, T("UnprotectedAttributes"))) >>),
    Cms_DigestedData |-> Sequence(<< T("CmsVersion"), T("DigestAlgorithmIdentifier"),
        T("Cms_EncapsulatedContentInfo"), T("Digest") >>),
    Cms_EncryptedData |-> Sequence(<< T("CmsVersion"), T("EncryptedContentInfo"),
        Opt(I(1, T("UnprotectedAttributes"))) >>),
    Cms_AuthenticatedData |-> Sequence(<< T("CmsVersion"), Opt(I(0, T("OriginatorInfo"))),
        T("RecipientInfos"), T("MessageAuthenticationCodeAlgorithm"),
        Opt(I(1, T("DigestAlgorithmIdentifier"))), T("Cms_EncapsulatedContentInfo"),
        Opt(I(2, T("AuthAttributes"))), T("MessageAuthenticationCode"),
        Opt(I(3, T("UnauthAttributes"))) >>),
    CertificateChoices |-> Choice(<< T("Pkix_Certificate"), I(0, T("ExtendedCertificate")),
        I(2, T("AttributeCertificate")), I(3, T("OtherCertificateFormat")) >>),
    OtherCertificateFormat |-> Sequence(<< T("OBJECT IDENTIFIER"), T("ANY") >>),
    RevocationInfoChoice |-> Choice(<< T("CertificateList"),
        I(1, T("OtherRevocationInfoFormat")) >>)]

CmsTypes2 == [
    OtherRevocationInfoFormat |-> Sequence(<< T("OBJECT IDENTIFIER"), T("ANY") >>),
    Cms_EncapsulatedContentInfo |-> Sequence(<< T("ContentType"), Opt(E(0, T("OCTET STRING"))) >>),
    SignerInfo |-> Sequence(<< T("CmsVersion"), T("Cms_SignerIdentifier"),
        T("DigestAlgorithmIdentifier"), Opt(I(0, T("SignedAttributes"))),
        T("SignatureAlgorithmIdentifier"), T("SignatureValue"),
        Opt(I(1, T("UnsignedAttributes"))) >>),
    Cms_SignerIdentifier |-> Choice(<< T("IssuerAndSerialNumber"),
        I(0, T("SubjectKeyIdentifier")) >>),
    IssuerAndSerialNumber |-> Sequence(<< T("Name"), T("CertificateSerialNumber") >>),
    OriginatorInfo |-> Sequence(<< Opt(I(0, T("CertificateSet"))),
        Opt(I(1, T("RevocationInfoChoices"))) >>),
    EncryptedContentInfo |-> Sequence(<< T("ContentType"),
        T("ContentEncryptionAlgorithmIdentifier"), Opt(I(0, T("EncryptedContent"))) >>),
    Cms_RecipientInfo |-> Choice(<< T("KeyTransRecipientInfo"), I(1, T("KeyAgreeRecipientInfo")),
        I(2, T("KekRecipientInfo")), I(3, T("PasswordRecipientInfo")),
        I(4, T("OtherRecipientInfo")) >>),
    KeyTransRecipientInfo |-> Sequence(<< T("CmsVersion"), T("RecipientIdentifier"),
        T("KeyEncryptionAlgorithmIdentifier"), T("EncryptedKey") >>),
    RecipientIdentifier |-> Choice(<< T("IssuerAndSerialNumber"),
        I(0, T("SubjectKeyIdentifier")) >>),
    KeyAgreeRecipientInfo |-> Sequence(<< T("CmsVersion"), E(0, T("OriginatorIdentifierOrKey")),
        Opt(E(1, T("UserKeyingMaterial"))), T("KeyEncryptionAlgorithmIdentifier"),
        T("RecipientEncryptedKeys") >>),
    RecipientEncryptedKey |-> Sequence(<< T("KeyAgreeRecipientIdentifier"), T("EncryptedKey") >>),
    KeyAgreeRecipientIdentifier |-> Choice(<< T("IssuerAndSerialNumber"),
        I(0, T("RecipientKeyIdentifier")) >>),
    RecipientKeyIdentifier |-> Sequence(<< T("SubjectKeyIdentifier"), Opt(T("GeneralizedTime")),
        Opt(T("OtherKeyAttribute")) >>)]

CmsTypes3 == [
    OtherKeyAttribute |-> Sequence(<< T("OBJECT IDENTIFIER"), Opt(T("ANY")) >>),
    OriginatorIdentifierOrKey |-> Choice(<< T("IssuerAndSerialNumber"),
        I(0, T("SubjectKeyIdentifier")), I(1, T("OriginatorPublicKey")) >>),
    OriginatorPublicKey |-> Sequence(<< T("Pkix_AlgorithmIdentifier"), T("BIT STRING") >>),
    KekRecipientInfo |-> Sequence(<< T("CmsVersion"), T("KekIdentifier"),
        T("KeyEncryptionAlgorithmIdentifier"), T("EncryptedKey") >>),
    KekIdentifier |-> Sequence(<< T("OCTET STRING"), Opt(T("GeneralizedTime")),
        Opt(T("OtherKeyAttribute")) >>),
    PasswordRecipientInfo |-> Sequence(<< T("CmsVersion"),
        Opt(I(0, T("KeyDerivationAlgorithmIdentifier"))), T("KeyEncryptionAlgorithmIdentifier"),
        T("EncryptedKey") >>),
    OtherRecipientInfo |-> Sequence(<< T("OBJECT IDENTIFIER"), T("ANY") >>),
    ExtendedCertificateOrCertificate |-> Choice(<< T("Pkix_Certificate"),
        I(0, T("ExtendedCertificate")) >>),
    ExtendedCertificate |-> Sequence(<< T("ExtendedCertificateInfo"),
        T("SignatureAlgorithmIdentifier"), T("Cms_Signature") >>),
    ExtendedCertificateInfo |-> Sequence(<< T("CmsVersion"), T("Pkix_Certificate"),
        T("UnauthAttributes") >>)]

CmsTypes4 == [
    CmsAlgorithmProtection |-> Sequence(<< T("DigestAlgorithmIdentifier"),
        Opt(I(1, T("SignatureAlgorithmIdentifier"))),
        Opt(I(2, T("MessageAuthenticationCodeAlgorithm"))) >>)]

CmsTypes5 == [
    DssPubKey |-> Alias(T("INTEGER")),
    AesIv |-> Alias(T("OCTET STRING")),
    Cms_RsaPublicKey |-> Sequence(<< T("INTEGER"), T("INTEGER") >>),
    Cms_DhPublicKey |-> Alias(T("INTEGER")),
    Cms_DssSigValue |-> Sequence(<< T("INTEGER"), T("INTEGER") >>),
    DssParameters |-> Sequence(<< T("INTEGER"), T("INTEGER"), T("INTEGER") >>),
    DhDomainParameters |-> Sequence(<< T("INTEGER"), T("INTEGER"), T("INTEGER"),
        Opt(T("INTEGER")), Opt(T("ValidationParameters")) >>),
    ValidationParameters |-> Sequence(<< T("BIT STRING"), T("INTEGER") >>),
    KeyWrapAlgorithm |-> Alias(T("Pkix_AlgorithmIdentifier")),
    Rc2wrapParameter |-> Alias(T("Rc2ParameterVersion")),
    Rc2ParameterVersion |-> Alias(T("INTEGER")),
    CbcParameter |-> Alias(T("Iv")),
    Iv |-> Alias(T("OCTET STRING")),
    Rc2CbcParameter |-> Sequence(<< T("INTEGER"), T("OCTET STRING") >>),
    Pbkdf2Parameters |-> Sequence(<< T("Pbkdf2Salt"), T("INTEGER"), Opt(T("INTEGER")),
        Def(T("Pkix_AlgorithmIdentifier")) >>),
    Pbkdf2Salt |-> Choice(<< T("OCTET STRING"), T("Pkix_AlgorithmIdentifier") >>),
    Pbmac1Parameter |-> Sequence(<< T("Pkix_AlgorithmIdentifier"),
        T("Pkix_AlgorithmIdentifier") >>)]

CmsTypes6 == [
    SpcUuid |-> Alias(T("OCTET STRING")),
    SpcIndirectDataContent |-> Sequence(<< T("SpcAttributeTypeAndOptionalValue"),
        T("DigestInfo") >>),
    SpcAttributeTypeAndOptionalValue |-> Sequence(<< T("OBJECT IDENTIFIER"), Opt(T("ANY")) >>),
    DigestInfo |-> Sequence(<< T("Pkix_AlgorithmIdentifier"), T("OCTET STRING") >>),
    SpcPeImageData |-> Sequence(<< T("SpcPeImageFlags"), Opt(E(0, T("SpcLink"))) >>),
    SpcPeImageFlags |-> Delegate(T("BIT STRING"))]

CmsTypes7 == [
    SpcLink |-> Choice(<< I(0, T("IA5String")), I(1, T("SpcSerializedObject")),
        E(2, T("SpcString")) >>),
    SpcString |-> Choice(<< I(0, T("BMPString")), I(1, T("IA5String")) >>),
    SpcSerializedObject |-> Sequence(<< T("SpcUuid"), T("OCTET STRING") >>),
    SpcSpOpusInfo |-> Sequence(<< Opt(E(0, T("SpcString"))), Opt(E(1, T("SpcLink"))) >>)]

CmsTypes8 == [
    FirmwarePackageData |-> Alias(T("OCTET STRING")),
    TargetHardwareIdentifiers |-> Alias(SequenceOf(T("OBJECT IDENTIFIER"))),
    DecryptKeyIdentifier |-> Alias(T("OCTET STRING")),
    ImplementedCryptoAlgorithms |-> Alias(SequenceOf(T("OBJECT IDENTIFIER"))),
    ImplementedCompressAlgorithms |-> Alias(SequenceOf(T("OBJECT IDENTIFIER"))),
    CommunityIdentifiers |-> Alias(SequenceOf(T("CommunityIdentifier"))),
    WrappedFirmwareKey |-> Alias(T("EnvelopedData")),
    FirmwareReceiptVersion |-> Alias(T("INTEGER")),
    FirmwareErrorVersion |-> Alias(T("INTEGER")),
    VendorLoadErrorCode |-> Alias(T("INTEGER")),
    FirmwarePackageIdentifier |-> Sequence(<< T("PreferredOrLegacyPackageIdentifier"),
        Opt(T("PreferredOrLegacyStalePackageIdentifier")) >>),
    PreferredOrLegacyPackageIdentifier |-> Choice(<< T("PreferredPackageIdentifier"),
        T("OCTET STRING") >>),
    PreferredPackageIdentifier |-> Sequence(<< T("OBJECT IDENTIFIER"), T("INTEGER") >>),
    PreferredOrLegacyStalePackageIdentifier |-> Choice(<< T("INTEGER"), T("OCTET STRING") >>),
    CommunityIdentifier |-> Choice(<< T("OBJECT IDENTIFIER"), T("HardwareModules") >>),
    HardwareModules |-> Sequence(<< T("OBJECT IDENTIFIER"),
        SequenceOf(T("HardwareSerialEntry")) >>),
    HardwareSerialEntry |-> Choice(<< T("NULL"), T("OCTET STRING"),
        T("HardwareSerialEntry_Block") >>),
    HardwareSerialEntry_Block |-> Sequence(<< T("OCTET STRING"), T("OCTET STRING") >>),
    FirmwarePackageInfo |-> Sequence(<< Opt(T("INTEGER")),
        Opt(SequenceOf(T("PreferredOrLegacyPackageIdentifier"))) >>),
    FirmwarePackageLoadReceipt |-> Sequence(<< Def(T("FirmwareReceiptVersion")),
        T("OBJECT IDENTIFIER"), T("OCTET STRING"), T("PreferredOrLegacyPackageIdentifier"),
        Opt(T("OCTET STRING")), Opt(I(1, T("OCTET STRING"))) >>),
    FirmwarePackageLoadError |-> Sequence(<< Def(T("FirmwareErrorVersion")),
        T("OBJECT IDENTIFIER"), T("OCTET STRING"), T("FirmwarePackageLoadErrorCode"),
        Opt(T("VendorLoadErrorCode")), Opt(T("PreferredOrLegacyPackageIdentifier")),
        Opt(I(1, SequenceOf(T("CurrentFirmwareConfig")))) >>),
    CurrentFirmwareConfig |-> Sequence(<< Opt(T("INTEGER")),
        T("PreferredOrLegacyPackageIdentifier") >>),
    FirmwarePackageLoadErrorCode |-> Enumerated,
    HardwareModuleName |-> Sequence(<< T("OBJECT IDENTIFIER"), T("OCTET STRING") >>)]

CmsTypes9 == [
    TimeStampReq |-> Sequence(<< T("INTEGER"), T("MessageImprint"), Opt(T("TsaPolicyId")),
        Opt(T("INTEGER")), Def(T("BOOLEAN")), Opt(I(0, T("Extensions"))) >>),
    MessageImprint |-> Sequence(<< T("Pkix_AlgorithmIdentifier"), T("OCTET STRING") >>),
    TsaPolicyId |-> Alias(T("OBJECT IDENTIFIER")),
    TimeStampResp |-> Sequence(<< T("PkiStatusInfo"), Opt(T("TimeStampToken")) >>),
    PkiStatusInfo |-> Sequence(<< T("PkiStatus"), Opt(T("PkiFreeText")),
        Opt(T("PkiFailureInfo")) >>)]

CmsTypes10 == [
    PkiStatus |-> Delegate(T("INTEGER"))]

CmsTypes11 == [
    PkiFreeText |-> Alias(SequenceOf(T("UTF8String")))]

CmsTypes12 == [
    PkiFailureInfo |-> Alias(T("BIT STRING")),
    TimeStampToken |-> Alias(T("ContentInfo"))]

CmsTypes13 == [
    TstInfo |-> Sequence(<< T("INTEGER"), T("TsaPolicyId"), T("MessageImprint"), T("INTEGER"),
        T("GeneralizedTime"), Opt(T("Accuracy")), Def(T("BOOLEAN")), Opt(T("INTEGER")),
        Opt(E(0, T("GeneralName"))), Opt(I(1, T("Extensions"))) >>),
    Accuracy |-> Sequence(<< Opt(T("INTEGER")), Opt(I(0, T("INTEGER"))),
        Opt(I(1, T("INTEGER"))) >>)]

Pkcs7Types1 == [
    Pkcs7_EncapsulatedContentInfo |-> Sequence(<< T("ContentType"), Opt(E(0, T("ANY"))) >>),
    Pkcs7_SignedData |-> Sequence(<< T("CmsVersion"), T("DigestAlgorithmIdentifiers"),
        T("Pkcs7_EncapsulatedContentInfo"), Opt(I(0, T("CertificateSet"))),
        Opt(I(1, T("RevocationInfoChoices"))), T("SignerInfos") >>),
    Pkcs7_DigestedData |-> Sequence(<< T("CmsVersion"), T("DigestAlgorithmIdentifier"),
        T("Pkcs7_EncapsulatedContentInfo"), T("Digest") >>),
    Pkcs7_AuthenticatedData |-> Sequence(<< T("CmsVersion"), Opt(I(0, T("OriginatorInfo"))),
        T("RecipientInfos"), T("MessageAuthenticationCodeAlgorithm"),
        Opt(I(1, T("DigestAlgorithmIdentifier"))), T("Pkcs7_EncapsulatedContentInfo"),
        Opt(I(2, T("AuthAttributes"))), T("MessageAuthenticationCode"),
        Opt(I(3, T("UnauthAttributes"))) >>)]

SmimeTypes1 == [
    ContentIdentifier |-> Alias(T("OCTET STRING")),
    MessageSignatureDigest |-> Alias(T("OCTET STRING")),
    SecurityPolicyIdentifier |-> Alias(T("OBJECT IDENTIFIER")),
    Hash |-> Alias(T("OCTET STRING"))]

SmimeTypes2 == [
    ReceiptRequest |-> Sequence(<< T("ContentIdentifier"), T("ReceiptsFrom"),
        SequenceOf(T("GeneralNames")) >>),
    ReceiptsFrom |-> Choice(<< I(0, T("AllOrFirstTier")), I(1, SequenceOf(T("GeneralNames"))) >>),
    AllOrFirstTier |-> Delegate(T("INTEGER")),
    Receipt |-> Sequence(<< T("EssVersion"), T("ContentType"), T("ContentIdentifier"),
        T("OCTET STRING") >>),
    EssVersion |-> Delegate(T("INTEGER")),
    ContentHints |-> Sequence(<< Opt(T("UTF8String")), T("ContentType") >>),
    ContentReference |-> Sequence(<< T("ContentType"), T("ContentIdentifier"),
        T("OCTET STRING") >>),
    EssSecurityLabel |-> Set(<< T("SecurityPolicyIdentifier"), Opt(T("SecurityClassification")),
        Opt(T("EssPrivacyMark")), Opt(T("SecurityCategories")) >>),
    SecurityClassification |-> Delegate(T("INTEGER")),
    EssPrivacyMark |-> Choice(<< T("PrintableString"), T("UTF8String") >>),
    SecurityCategories |-> Alias(SetOf(T("Smime_SecurityCategory"))),
    EquivalentLabels |-> Alias(SequenceOf(T("EssSecurityLabel"))),
    MLExpansionHistory |-> Alias(SequenceOf(T("MlData"))),
    Smime_SecurityCategory |-> Sequence(<< I(0, T("OBJECT IDENTIFIER")), I(1, T("ANY")) >>),
    MlData |-> Sequence(<< T("EntityIdentifier"), T("GeneralizedTime"),
        Opt(T("MlReceiptPolicy")) >>),
    EntityIdentifier |-> Choice(<< T("IssuerAndSerialNumber"), T("SubjectKeyIdentifier") >>),
    MlReceiptPolicy |-> Choice(<< I(0, T("NULL")), I(1, SequenceOf(T("GeneralNames"))),
        I(2, SequenceOf(T("GeneralNames"))) >>),
    SigningCertificate |-> Sequence(<< SequenceOf(T("EssCertId")),
        Opt(SequenceOf(T("PolicyInformation"))) >>),
    SigningCertificateV2 |-> Sequence(<< SequenceOf(T("EssCertIdv2")),
        Opt(SequenceOf(T("PolicyInformation"))) >>),
    EssCertIdv2 |-> Sequence(<< Def(T("Pkix_AlgorithmIdentifier")), T("Hash"),
        Opt(T("Smime_IssuerSerial")) >>)]

SmimeTypes3 == [
    EssCertId |-> Sequence(<< T("Hash"), Opt(T("Smime_IssuerSerial")) >>),
    Smime_IssuerSerial |-> Sequence(<< T("GeneralNames"), T("CertificateSerialNumber") >>)]

SmimeTypes4 == [
    CapabilitiesParametersForRc2Cbc |-> Alias(T("INTEGER")),
    Capabilities |-> Alias(SequenceOf(T("Capability"))),
    Capability |-> Sequence(<< T("OBJECT IDENTIFIER"), Opt(T("ANY")) >>),
    EncryptionKeyPreference |-> Choice(<< I(0, T("IssuerAndSerialNumber")),
        I(1, T("RecipientKeyIdentifier")), I(2, T("SubjectKeyIdentifier")) >>)]

SmimeTypes5 == [
    GlkCompromise |-> Alias(T("GeneralName")),
    SkdAlgRequest |-> Alias(T("NULL"))]

SmimeTypes6 == [
    GlUseKek |-> Sequence(<< T("GlInfo"), SequenceOf(T("GlOwnerInfo")),
        Def(T("GlAdministration")), Opt(T("GlKeyAttributes")) >>),
    GlInfo |-> Sequence(<< T("GeneralName"), T("GeneralName") >>),
    GlOwnerInfo |-> Sequence(<< T("GeneralName"), T("GeneralName"), Opt(T("Certificates")) >>),
    GlAdministration |-> Delegate(T("INTEGER")),
    GlKeyAttributes |-> Sequence(<< Def(I(0, T("BOOLEAN"))), Def(I(1, T("BOOLEAN"))),
        Def(I(2, T("INTEGER"))), Def(I(3, T("INTEGER"))),
        Def(I(4, T("Pkix_AlgorithmIdentifier"))) >>)]

SmimeTypes7 == [
    DeleteGl |-> Alias(T("GeneralName")),
    GlAddMember |-> Sequence(<< T("GeneralName"), T("GlMember") >>),
    GlMember |-> Sequence(<< T("GeneralName"), Opt(T("GeneralName")), Opt(T("Certificates")) >>),
    Certificates |-> Sequence(<< Opt(I(0, T("Pkix_Certificate"))),
        Opt(I(1, SequenceOf(T("AttributeCertificate")))), Opt(I(2, T("CertificateSet"))) >>),
    GlDeleteMember |-> Sequence(<< T("GeneralName"), T("GeneralName") >>),
    GlRekey |-> Sequence(<< T("GeneralName"), Opt(T("GlAdministration")),
        Opt(T("GlNewKeyAttributes")), Opt(T("BOOLEAN")) >>),
    GlNewKeyAttributes |-> Sequence(<< Opt(I(0, T("BOOLEAN"))), Opt(I(1, T("BOOLEAN"))),
        Opt(I(2, T("INTEGER"))), Opt(I(3, T("INTEGER"))),
        Opt(I(4, T("Pkix_AlgorithmIdentifier"))) >>),
    GlOwnerAdministration |-> Sequence(<< T("GeneralName"), T("GlOwnerInfo") >>),
    GlkRefresh |-> Sequence(<< T("GeneralName"), SequenceOf(T("Smime_Date")) >>),
    Smime_Date |-> Sequence(<< T("GeneralizedTime"), Opt(T("GeneralizedTime")) >>),
    GlaQueryRequest |-> Sequence(<< T("OBJECT IDENTIFIER"), T("ANY") >>),
    GlaQueryResponse |-> Sequence(<< T("OBJECT IDENTIFIER"), T("ANY") >>),
    GlManageCert |-> Sequence(<< T("GeneralName"), T("GlMember") >>),
    GlKey |-> Sequence(<< T("GeneralName"), T("KekIdentifier"), T("RecipientInfos"),
        T("Pkix_AlgorithmIdentifier"), T("GeneralizedTime"), T("GeneralizedTime") >>),
    SkdFailInfo |-> Delegate(T("INTEGER"))]

PkiTypes ==
    PkixTypes1 @@ PkixTypes2 @@ PkixTypes3 @@ PkixTypes4 @@ PkixTypes5 @@ PkixTypes6
        @@ PkixTypes7 @@ PkixTypes8 @@ PkixTypes9 @@ PkixTypes10 @@ PkixTypes11
        @@ PkixTypes12 @@ PkixTypes13 @@ EstTypes1 @@ OcspTypes1 @@ OcspTypes2
        @@ CmsTypes1 @@ CmsTypes2 @@ CmsTypes3 @@ CmsTypes4 @@ CmsTypes5 @@ CmsTypes6
        @@ CmsTypes7 @@ CmsTypes8 @@ CmsTypes9 @@ CmsTypes10 @@ CmsTypes11 @@ CmsTypes12
        @@ CmsTypes13 @@ Pkcs7Types1 @@ SmimeTypes1 @@ SmimeTypes2 @@ SmimeTypes3
        @@ SmimeTypes4 @@ SmimeTypes5 @@ SmimeTypes6 @@ SmimeTypes7
=============================================================================
